---------------------------- MODULE DrawingProofs ----------------------------
(***************************************************************************)
(* Proofs about the dialogue and the logo, for any screens, any bitmaps    *)
(* and a keyboard buffer of any size.                                      *)
(*                                                                         *)
(* PromptIsSeen is not inductive: it forgets that the console is in text   *)
(* mode from the message on, and that nothing is drawn while a prompt is   *)
(* out.  OnlyEnterAnswers needs what is known of the keys still to be read.*)
(* That no buffer is freed twice needs which buffers each stage holds.     *)
(***************************************************************************)
EXTENDS Drawing, SequenceTheorems, TLAPS

(* Away from both ends, there are a screen and a bitmap at hand.           *)
AtHand == stage \notin {"before", "over"} => screen \in Screens /\ bitmap \in Bitmaps

(* The logo has UefiMain to itself: no prompt is out while it is shown.    *)
LogoAlone == stage \notin {"before", "over"} => prompt = "none" /\ place = "main"

(* From the message on, the console is where its prompt can be read.       *)
PromptPrepared == prompt # "none" /\ ~faulted => control # "graphics"

(* An Enter still to be read was typed while the prompt waited.            *)
PressedNoted ==
  prompt = "waiting" /\ ~faulted =>
    \A j \in 1 .. Len(keys) : keys[j] = "enter" => pressed

(* The buffers a stage holds, each once. *)
Holding ==
  IF stage \in {"before", "over"} THEN {}
  ELSE IF stage = "import" THEN {"contents"}
  ELSE IF stage \in {"measure", "copy"} THEN Buffers
  ELSE {"image", "pixels"}
Exactly(bs) == [b \in Buffers |-> IF b \in bs THEN 1 ELSE 0]
PoolHeld == pool = Exactly(Holding)

(* Without contents, the logo is over. *)
StrayEnds == stray => stage = "over"

IInv ==
  /\ TypeOK /\ AtHand /\ LogoAlone /\ PromptPrepared /\ PressedNoted
  /\ PoolHeld /\ StrayEnds

-----------------------------------------------------------------------------

(* A call that prints an error ends with the console in text mode, or      *)
(* without modes, unless something failed.                                 *)
LEMMA ErrorShown ==
  ASSUME PrintFuncNameMessage(TRUE)
  PROVE  faulted' \/ control' # "graphics"
BY DEF PrintFuncNameMessage, Shown, SwitchToText, SwitchToMode

(* Messages and drawing change the console's mode, and note a failure,     *)
(* but forget none.                                                        *)
LEMMA SwitchTyped ==
  ASSUME ConsoleTypeOK, NEW new \in {"text", "graphics"}, SwitchToMode(new)
  PROVE  /\ control' \in {"text", "graphics", "none"}
         /\ faulted' \in BOOLEAN
         /\ faulted => faulted'
<1>1. control \in {"text", "graphics", "none"} /\ faulted \in BOOLEAN
  BY DEF ConsoleTypeOK
<1>2. control' \in {"text", "graphics", "none"}
  BY <1>1 DEF SwitchToMode
<1>3. faulted' = faulted \/ faulted' = TRUE
  BY DEF SwitchToMode
<1> QED BY <1>1, <1>2, <1>3

LEMMA ModeTyped ==
  ASSUME ConsoleTypeOK,
         \/ \E isError \in BOOLEAN : PrintFuncNameMessage(isError)
         \/ SwitchToGraphics
         \/ UNCHANGED <<control, faulted>>
  PROVE  /\ control' \in {"text", "graphics", "none"}
         /\ faulted' \in BOOLEAN
         /\ faulted => faulted'
<1>0. control \in {"text", "graphics", "none"} /\ faulted \in BOOLEAN
  BY DEF ConsoleTypeOK
<1>1. CASE \E isError \in BOOLEAN : PrintFuncNameMessage(isError)
  <2>1. \/ SwitchToMode("text")
        \/ faulted' = TRUE /\ UNCHANGED control
        \/ UNCHANGED <<control, faulted>>
    BY <1>1 DEF PrintFuncNameMessage, SwitchToText
  <2> QED BY <1>0, <2>1, SwitchTyped
<1>2. CASE SwitchToGraphics
  BY <1>2, SwitchTyped DEF SwitchToGraphics
<1>3. CASE UNCHANGED <<control, faulted>>
  BY <1>0, <1>3
<1> QED BY <1>1, <1>2, <1>3

LEMMA TakeKeyTyped ==
  ASSUME ConsoleTypeOK, TakeKey
  PROVE  keys' \in Seq(Keys) /\ Len(keys') <= MaxKeys
BY MaxKeysAssumption DEF ConsoleTypeOK, TakeKey, Keys

(* Every step of the dialogue and of the user keeps the console's types.   *)
LEMMA DialogueTyped ==
  ASSUME ConsoleTypeOK, Dialogue
  PROVE  ConsoleTypeOK'
<1> USE DEF ConsoleTypeOK
<1>1. CASE LookForV
  BY <1>1, ModeTyped, TakeKeyTyped DEF LookForV
<1>2. CASE Message
  BY <1>2, ModeTyped DEF Message
<1>3. CASE Ask
  BY <1>3, ModeTyped DEF Ask
<1>4. CASE Wait
  <2>1. keys' = <<>> \/ keys' = keys
    BY <1>4 DEF Wait
  <2>6. ASSUME keys' = <<>>
        PROVE  keys' \in Seq(Keys) /\ Len(keys') <= MaxKeys
    <3>1. Len(keys') = 0
      BY <2>6
    <3> QED BY <2>6, <3>1, EmptySeq, MaxKeysAssumption
  <2>2. keys' \in Seq(Keys) /\ Len(keys') <= MaxKeys
    BY <2>1, <2>6
  <2>3. faulted' \in BOOLEAN
    BY <1>4 DEF Wait
  <2>4. pressed' \in BOOLEAN /\ key' = "unset" /\ prompt' = "waiting"
    BY <1>4 DEF Wait, BeginToWait
  <2>5. UNCHANGED <<control, verbose, place>>
    BY <1>4 DEF Wait, BeginToWait
  <2> QED BY <2>2, <2>3, <2>4, <2>5
<1>5. CASE ReadKeyStroke
  BY <1>5, TakeKeyTyped DEF ReadKeyStroke, KeyReadInto, Keys
<1>6. CASE ReadNothing
  BY <1>6 DEF ReadNothing
<1>7. CASE LookForF8
  BY <1>7, ModeTyped, TakeKeyTyped DEF LookForF8
<1>8. CASE LaunchVerbosely
  BY <1>8, ModeTyped DEF LaunchVerbosely
<1>9. CASE Leave
  BY <1>9 DEF Leave
<1> QED BY <1>1, <1>2, <1>3, <1>4, <1>5, <1>6, <1>7, <1>8, <1>9 DEF Dialogue

LEMMA TypeTyped ==
  ASSUME ConsoleTypeOK, NEW c \in Keys, Type(c)
  PROVE  ConsoleTypeOK'
<1> USE DEF ConsoleTypeOK
<1>1. keys' \in Seq(Keys) /\ Len(keys') <= MaxKeys
  BY MaxKeysAssumption DEF Type
<1>2. pressed' \in BOOLEAN
  BY DEF Type
<1> QED BY <1>1, <1>2 DEF Type

(* The logo takes no key and asks nothing.                                 *)
LEMMA LogoApart ==
  ASSUME Logo
  PROVE  /\ UNCHANGED <<control, faulted>> \/ SwitchToGraphics
         /\ UNCHANGED <<keys, verbose, place, prompt, key, pressed>>
BY DEF Logo, At, Silent, DrawTo, NoLogo, LogoUnread, ReadBitmap, Rejected, ImageUnavailable,
       CreateImage, TooLittleData, DataSuffices, CopyLine, Imported, ClearScreen, DoesNotFit, PlaceImage,
       DrawFrame, AllDrawn, EndLogo

LEMMA LogoTyped ==
  ASSUME ConsoleTypeOK, Logo
  PROVE  ConsoleTypeOK'
<1>1. /\ control' \in {"text", "graphics", "none"}
      /\ faulted' \in BOOLEAN
  BY LogoApart, ModeTyped DEF Silent
<1> QED BY <1>1, LogoApart DEF ConsoleTypeOK

-----------------------------------------------------------------------------

(* What is taken was not held, and what is freed was: then each buffer is  *)
(* still held at most once.                                                *)
LEMMA TakenExactly ==
  ASSUME NEW held, pool = Exactly(held), NEW bs, bs \cap held = {}
  PROVE  Taken(bs) = Exactly(held \cup bs)
BY DEF Taken, Exactly

LEMMA FreedExactly ==
  ASSUME NEW held, pool = Exactly(held), NEW bs, bs \subseteq held
  PROVE  Freed(bs) = Exactly(held \ bs)
BY DEF Freed, Exactly

LEMMA ExactlyTyped ==
  ASSUME NEW held
  PROVE  Exactly(held) \in [Buffers -> {0, 1}]
BY DEF Exactly

(* Leaving with everything freed that was held.                            *)
LEMMA OverKeeps ==
  ASSUME PoolHeld, NEW bs, bs = Holding, Over(bs)
  PROVE  PoolHeld' /\ stage' = "over" /\ y' = 0 /\ frame' = 0
         /\ screen' = NoScene /\ bitmap' = NoScene
<1>1. Freed(bs) = Exactly(Holding \ bs)
  BY FreedExactly DEF PoolHeld
<1>2. Holding' = {}
  BY DEF Over, Holding
<1>3. Holding \ bs = {}
  OBVIOUS
<1>4. pool' = Exactly({})
  BY <1>1, <1>3 DEF Over
<1> QED BY <1>2, <1>4 DEF Over, PoolHeld, Exactly

LEMMA LogoKeeps ==
  ASSUME TypeOK, PoolHeld, AtHand, Logo
  PROVE  /\ PoolHeld' /\ AtHand'
         /\ stage' \in {"before", "import", "measure", "copy", "clear", "place", "draw",
                        "end", "over"}
         /\ screen' \in Screens \cup {NoScene} /\ bitmap' \in Bitmaps \cup {NoScene}
         /\ y' \in Nat /\ frame' \in Nat
<1> USE DEF TypeOK, At, AtHand
<1>1. CASE NoLogo \/ LogoUnread
  <2>1. Holding = {}
    BY <1>1 DEF NoLogo, LogoUnread, Holding
  <2> QED BY <1>1, <2>1, OverKeeps DEF NoLogo, LogoUnread
<1>2. CASE ReadBitmap
  <2>1. Holding = {} /\ Holding' = {"contents"}
    BY <1>2 DEF ReadBitmap, Holding
  <2>2. pool' = Exactly(Holding \cup {"contents"})
    BY <1>2, <2>1, TakenExactly DEF ReadBitmap, PoolHeld
  <2> QED BY <1>2, <2>1, <2>2 DEF ReadBitmap, PoolHeld
<1>3. CASE Rejected \/ ImageUnavailable
  <2>1. Holding = {"contents"}
    BY <1>3 DEF Rejected, ImageUnavailable, Holding
  <2> QED BY <1>3, <2>1, OverKeeps DEF Rejected, ImageUnavailable
<1>4. CASE CreateImage
  <2>1. Holding = {"contents"} /\ Holding' = {"contents"} \cup {"image", "pixels"}
    BY <1>4 DEF CreateImage, Holding, Buffers
  <2>2. pool' = Exactly(Holding \cup {"image", "pixels"})
    BY <1>4, <2>1, TakenExactly DEF CreateImage, PoolHeld
  <2> QED BY <1>4, <2>1, <2>2 DEF CreateImage, PoolHeld
<1>5. CASE TooLittleData
  <2>1. Holding = DestroyImage \cup {"contents"}
    BY <1>5 DEF TooLittleData, Holding, DestroyImage, Buffers
  <2> QED BY <1>5, <2>1, OverKeeps DEF TooLittleData
<1>6. CASE Imported
  <2>1. Holding = Buffers /\ Holding' = Buffers \ {"contents"}
    BY <1>6 DEF Imported, Holding, Buffers
  <2>2. pool' = Exactly(Holding \ {"contents"})
    BY <1>6, <2>1, FreedExactly DEF Imported, PoolHeld, Buffers
  <2> QED BY <1>6, <2>1, <2>2 DEF Imported, PoolHeld
<1>7. CASE DataSuffices \/ CopyLine
  <2>1. Holding' = Holding /\ pool' = pool
    BY <1>7 DEF DataSuffices, CopyLine, Holding
  <2> QED BY <1>7, <2>1 DEF DataSuffices, CopyLine, PoolHeld
<1>8. CASE ClearScreen \/ DoesNotFit \/ PlaceImage \/ DrawFrame \/ AllDrawn
  <2>1. Holding' = Holding /\ pool' = pool
    BY <1>8 DEF ClearScreen, DoesNotFit, PlaceImage, DrawFrame, AllDrawn, DrawTo, Holding
  <2> QED
    BY <1>8, <2>1 DEF ClearScreen, DoesNotFit, PlaceImage, DrawFrame, AllDrawn, DrawTo, PoolHeld
<1>9. CASE EndLogo
  <2>1. Holding = DestroyImage
    BY <1>9 DEF EndLogo, Holding, DestroyImage
  <2> QED BY <1>9, <2>1, OverKeeps DEF EndLogo
<1> QED
  BY <1>1, <1>2, <1>3, <1>4, <1>5, <1>6, <1>7, <1>8, <1>9 DEF Logo

-----------------------------------------------------------------------------

(* What the dialogue, the user and the logo do to the prompt.              *)
Prompting == LogoAlone /\ PromptPrepared /\ PressedNoted

LEMMA DialoguePrompts ==
  ASSUME ConsoleTypeOK, Prompting, Turn, Dialogue, UNCHANGED drawing
  PROVE  Prompting'
<1> USE DEF Prompting, LogoAlone, PromptPrepared, PressedNoted, Running, Turn, drawing
<1>1. CASE LookForV
  <2>1. prompt' # "none" /\ ~faulted' => control' # "graphics"
    BY <1>1, ErrorShown DEF LookForV
  <2> QED BY <1>1, <2>1 DEF LookForV
<1>2. CASE Message
  BY <1>2 DEF Message
<1>3. CASE Ask
  BY <1>3, ErrorShown DEF Ask
<1>4. CASE Wait
  <2>1. faulted' \/ keys' = <<>>
    BY <1>4 DEF Wait
  <2>2. faulted => faulted'
    BY <1>4 DEF Wait
  <2>3. PromptPrepared' /\ LogoAlone'
    BY <1>4, <2>2 DEF Wait, BeginToWait
  <2>4. PressedNoted'
    BY <2>1
  <2> QED BY <2>3, <2>4
<1>5. CASE ReadKeyStroke
  <2>1. keys # <<>> /\ keys' = Tail(keys) /\ prompt = "waiting"
    BY <1>5 DEF ReadKeyStroke, KeyReadInto, TakeKey
  <2>2. \A j \in 1 .. Len(keys') : keys'[j] = keys[j + 1] /\ j + 1 \in 1 .. Len(keys)
    BY <2>1 DEF ConsoleTypeOK
  <2> QED BY <1>5, <2>1, <2>2 DEF ReadKeyStroke, KeyReadInto
<1>6. CASE ReadNothing
  BY <1>6 DEF ReadNothing
<1>7. CASE LookForF8
  <2>1. prompt' # "none" /\ ~faulted' => control' # "graphics"
    BY <1>7, ErrorShown DEF LookForF8
  <2> QED BY <1>7, <2>1 DEF LookForF8
<1>8. CASE LaunchVerbosely
  <2>1. prompt' # "none" /\ ~faulted' => control' # "graphics"
    BY <1>8, ErrorShown DEF LaunchVerbosely
  <2> QED BY <1>8, <2>1 DEF LaunchVerbosely
<1>9. CASE Leave
  BY <1>9 DEF Leave
<1> QED BY <1>1, <1>2, <1>3, <1>4, <1>5, <1>6, <1>7, <1>8, <1>9 DEF Dialogue

LEMMA TypePrompts ==
  ASSUME ConsoleTypeOK, Prompting, NEW c \in Keys, Type(c), UNCHANGED drawing
  PROVE  Prompting'
<1> USE DEF Prompting, LogoAlone, PromptPrepared, PressedNoted, drawing
<1>1. keys \in Seq(Keys) /\ keys' = Append(keys, c)
  BY DEF ConsoleTypeOK, Type
<1>2. \A j \in 1 .. Len(keys') : \/ j \in 1 .. Len(keys) /\ keys'[j] = keys[j]
                                \/ keys'[j] = c
  BY <1>1
<1>3. (pressed \/ c = "enter") => pressed'
  BY DEF Type
<1> QED BY <1>2, <1>3 DEF Type

(* Only FileRead frees a pointer that was not set.                         *)
LEMMA LogoStrays ==
  ASSUME TypeOK, StrayEnds, Logo
  PROVE  StrayEnds' /\ stray' \in BOOLEAN
<1>1. CASE LogoUnread
  BY <1>1 DEF LogoUnread, Over, StrayEnds
<1>2. CASE Logo /\ ~LogoUnread
  <2>1. stage # "over" /\ stray' = stray
    BY <1>2 DEF Logo, At, Silent, DrawTo, NoLogo, ReadBitmap, Rejected, ImageUnavailable,
                CreateImage, TooLittleData, DataSuffices, CopyLine, Imported, ClearScreen,
                DoesNotFit, PlaceImage, DrawFrame, AllDrawn, EndLogo
  <2> QED BY <2>1 DEF StrayEnds, TypeOK
<1> QED BY <1>1, <1>2

LEMMA LogoPrompts ==
  ASSUME ConsoleTypeOK, Prompting, Logo
  PROVE  Prompting'
<1> USE DEF Prompting, LogoAlone, PromptPrepared, PressedNoted
<1>1. prompt = "none" \/ UNCHANGED <<control, faulted>>
  BY DEF Logo, At, Running, Silent, NoLogo, LogoUnread, ReadBitmap, Rejected,
         ImageUnavailable, CreateImage, TooLittleData, DataSuffices, CopyLine, Imported, ClearScreen, DoesNotFit, PlaceImage,
         DrawFrame, AllDrawn, EndLogo
<1>2. stage' \notin {"before", "over"} => prompt = "none" /\ place = "main"
  BY DEF Logo, At, Over, Running, NoLogo, LogoUnread, ReadBitmap, Rejected,
         ImageUnavailable, CreateImage, TooLittleData, DataSuffices, CopyLine, Imported, ClearScreen, DoesNotFit, PlaceImage,
         DrawFrame, AllDrawn, EndLogo
<1> QED BY <1>1, <1>2, LogoApart

-----------------------------------------------------------------------------

LEMMA InvInit == Init => IInv
<1> SUFFICES ASSUME Init PROVE IInv
  OBVIOUS
<1>1. ConsoleTypeOK
  <2>1. keys = <<>>
    BY DEF Init, ConsoleInit
  <2>2. Len(keys) = 0
    BY <2>1
  <2>3. keys \in Seq(Keys) /\ Len(keys) <= MaxKeys
    BY <2>1, <2>2, EmptySeq, MaxKeysAssumption
  <2> QED BY <2>3 DEF Init, ConsoleInit, ConsoleTypeOK
<1>2. PoolHeld /\ pool \in [Buffers -> {0, 1}]
  BY DEF Init, Nothing, PoolHeld, Exactly, Holding
<1> QED
  BY <1>1, <1>2 DEF Init, ConsoleInit, IInv, TypeOK, AtHand, LogoAlone, PromptPrepared,
                  PressedNoted, StrayEnds

LEMMA InvStep == IInv /\ [Next]_vars => IInv'
<1> SUFFICES ASSUME IInv, [Next]_vars PROVE IInv'
  OBVIOUS
<1> USE DEF IInv
<1>1. CASE Logo
  <2>1. ConsoleTypeOK' /\ Prompting'
    BY <1>1, LogoTyped, LogoPrompts DEF TypeOK, Prompting
  <2>2. pool' \in [Buffers -> {0, 1}]
    BY <1>1, LogoKeeps, ExactlyTyped DEF PoolHeld
  <2> QED BY <1>1, <2>1, <2>2, LogoKeeps, LogoStrays DEF TypeOK, Prompting
<1>2. ASSUME UNCHANGED drawing, ConsoleTypeOK', Prompting' PROVE IInv'
  BY <1>2 DEF drawing, TypeOK, AtHand, PoolHeld, Holding, Prompting, StrayEnds
<1>3. CASE Turn /\ Dialogue /\ UNCHANGED drawing
  BY <1>2, <1>3, DialogueTyped, DialoguePrompts DEF TypeOK, Prompting
<1>4. CASE (\E c \in Keys : Type(c)) /\ UNCHANGED drawing
  BY <1>2, <1>4, TypeTyped, TypePrompts DEF TypeOK, Prompting
<1>5. CASE UNCHANGED vars
  BY <1>5 DEF vars, console, drawing, TypeOK, ConsoleTypeOK, AtHand, LogoAlone, PromptPrepared,
              PressedNoted, PoolHeld, Holding, StrayEnds
<1> QED BY <1>1, <1>3, <1>4, <1>5 DEF Next

LEMMA InvHolds == Spec => []IInv
BY InvInit, InvStep, PTL DEF Spec

(* Every state is typed, whatever the screens, the bitmaps and the user    *)
(* are; that pool stays in 0 .. 1 says no buffer is freed twice.           *)
THEOREM TypeCorrect == Spec => []TypeOK
BY InvHolds, PTL DEF IInv

(* A user who is waited for can read what for.                             *)
THEOREM PromptsAreSeen == Spec => []PromptIsSeen
<1>1. IInv => PromptIsSeen
  BY DEF IInv, PromptPrepared, PromptIsSeen
<1> QED BY <1>1, InvHolds, PTL

(* Unless a call failed, only an Enter typed while the prompt waits ends   *)
(* it.                                                                     *)
LEMMA OnlyEnterStep ==
  ASSUME IInv, [Next]_vars, prompt = "waiting", prompt' = "none"
  PROVE  pressed \/ faulted'
<1> USE DEF IInv
<1>1. CASE Logo
  BY <1>1, LogoApart
<1>2. CASE Turn /\ Dialogue /\ UNCHANGED drawing
  <2>1. CASE ReadKeyStroke
    <3>1. keys # <<>> /\ Head(keys) = "enter" /\ UNCHANGED <<faulted>>
      BY <2>1 DEF ReadKeyStroke, KeyReadInto
    <3>2. keys \in Seq(Keys) /\ Len(keys) >= 1 /\ Head(keys) = keys[1]
      BY <3>1 DEF TypeOK, ConsoleTypeOK
    <3>3. faulted \in BOOLEAN /\ pressed \in BOOLEAN
      BY DEF TypeOK, ConsoleTypeOK
    <3>4. 1 \in 1 .. Len(keys) /\ keys[1] = "enter"
      BY <3>1, <3>2
    <3> QED BY <3>1, <3>3, <3>4 DEF PressedNoted
  <2>2. CASE ReadNothing
    BY <2>2 DEF ReadNothing
  <2>3. CASE LookForV \/ Message \/ Ask \/ LookForF8 \/ LaunchVerbosely \/ Leave
    BY <2>3 DEF LookForV, Message, Ask, LookForF8, LaunchVerbosely, Leave, Running
  <2>4. CASE Wait
    BY <2>4 DEF Wait, BeginToWait
  <2> QED BY <1>2, <2>1, <2>2, <2>3, <2>4 DEF Dialogue
<1>3. CASE (\E c \in Keys : Type(c)) /\ UNCHANGED drawing
  BY <1>3 DEF Type
<1>4. CASE UNCHANGED vars
  BY <1>4 DEF vars, console
<1> QED BY <1>1, <1>2, <1>3, <1>4 DEF Next

THEOREM OnlyEnterEndsPrompt == Spec => OnlyEnterAnswers
<1>1. IInv /\ [Next]_vars
        => [prompt = "waiting" /\ prompt' = "none" => pressed \/ faulted']_<<console, faulted>>
  BY OnlyEnterStep
<1> QED BY <1>1, InvHolds, PTL DEF Spec, OnlyEnterAnswers
===============================================================================
