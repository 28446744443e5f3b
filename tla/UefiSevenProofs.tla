--------------------------- MODULE UefiSevenProofs ---------------------------
(***************************************************************************)
(* Proofs about UefiMain, for any machines and resolution, any widths of   *)
(* the VBE fields and any number of starts.  What the display routines do  *)
(* does not matter here: they touch neither ROM nor vector.                *)
(*                                                                         *)
(* The properties speak of the end of a run, of a change of the vector or  *)
(* of a write to the ROM; the invariant says, stretch by stretch of        *)
(* UefiMain, what is already in the ROM, whether the area is unlocked, and *)
(* what the user has been told.                                            *)
(***************************************************************************)
EXTENDS UefiSeven, TLAPS

(* The stretches of UefiMain. *)
Before == {"entry", "setup", "switch", "switching", "hack", "hacking", "detect"}
Unlocking == {"unlock", "unlocking"}
Completed == {"lock", "locking", "vector"}
Installing == Unlocking \cup {"fill"} \cup Completed \cup {"sanity"}
After == {"exit", "f8", "launch", "start", "returned", "booted"}

(* What TypeOK says of everything but the display and the VBE numbers. *)
MemoryTyped ==
  /\ writable \subseteq {"head", "rest"}
  /\ rom \in [Locations -> Content]
  /\ ivt \in Targets
  /\ op \in {"LOCK", "UNLOCK"} /\ phase \in {"idle", "busy", "done"}
  /\ result \in {"SUCCESS", "ERROR"}
FlowTyped ==
  /\ skip \in BOOLEAN /\ force \in BOOLEAN
  /\ pathKnown \in BOOLEAN /\ verbose \in BOOLEAN /\ claimed \in BOOLEAN
  /\ filled \in BOOLEAN /\ told \in BOOLEAN /\ acked \in BOOLEAN
  /\ pc \in Points /\ prompt \in Prompts \cup {"none"}

(* Where a prompt can be open: it belongs to the step before. *)
PromptsPlaced ==
  /\ prompt = "vector" => pc = "sanity"
  /\ pc \in {"returned", "booted"} => prompt = "none"

(* UefiMain as a caller of EnsureMemoryLock, whose success can be trusted. *)
Calls ==
  /\ pc = "unlocking" => op = "UNLOCK"
  /\ pc = "fill" => op = "UNLOCK" /\ phase = "done" /\ result = "SUCCESS"
  /\ op = "UNLOCK" /\ phase = "done" /\ result = "SUCCESS" => "head" \in writable

(* How far the shim is complete, and when this run can have done it.       *)
ShimThere == rom["Entry"] = "shim" /\ rom["Inside"] = "vbe"
Progress ==
  /\ pc = "fill" => rom["Entry"] = "shim"
  /\ pc \in Completed => filled /\ ShimThere
  /\ pc \in Before \cup Unlocking \cup {"fill"} => ~filled

(* A handler found beyond doubt keeps the run out of the installation.     *)
HandlerFound == ~force /\ HandlerDefined(found.rom, found.ivt) = {TRUE}
NativeLeftAlone ==
  HandlerFound => rom = found.rom /\ ivt = found.ivt /\ pc \notin Installing

(* As long as no failure was reported: the ROM is as the machine came with *)
(* it or the vector leads to a complete shim; and at the end it serves.    *)
Pristine == \A l \in Locations : rom[l] \in {"native", "protective"}
Silence ==
  ~told =>
    /\ pc \notin {"fill", "sanity"} \cup Completed =>
           Pristine \/ (ShimThere /\ ivt = "Entry")
    /\ pc = "sanity" => ShimThere /\ ivt = "Entry"
    /\ pc \in After => Serves(rom, ivt)

(* A vector that could not be set has been shown, or is being shown.       *)
Shown ==
  filled /\ ivt # "Entry" /\ ~skip =>
    /\ pc = "sanity" => acked \/ prompt = "vector"
    /\ pc \in After => acked

(* The own path is known from the settings on. *)
PathFirst ==
  /\ pc \in {"entry", "setup"} => ~pathKnown
  /\ pc \notin {"entry", "setup"} \cup After => pathKnown
  /\ pc \in {"start", "booted"} => pathKnown

IInv ==
  /\ MemoryTyped /\ FlowTyped /\ PromptsPlaced /\ Calls /\ Progress
  /\ NativeLeftAlone /\ Silence /\ Shown /\ SkipMeansUnattended /\ PathFirst

-----------------------------------------------------------------------------

(* The steps, by what they may touch: most only move on, the display       *)
(* routines move the screen, four write to ROM or vector.                  *)
Moving ==
  \/ Claim \/ SwitchVideoMode \/ DisplayStep \/ ResolutionMatches \/ ResolutionDiffers
  \/ ForceVideoModeHack \/ HackDone \/ Locked \/ VectorAlreadyThere
  \/ FindBootManager \/ LookForF8 \/ LaunchRefused \/ LaunchPrepared \/ Boot \/ StartFailed
Choosing == AcceptHandler \/ Install \/ Configure \/ SanityPassed
Telling ==
  SetupFails \/ UnlockFailed \/ FillUnavailable \/ VectorWrong \/ SanityFailed
Calling == Unlock \/ Lock \/ RegionStep
Writing == Erase \/ FillUnsupported \/ Fill \/ PointVector

LEMMA StepsByKind ==
  ASSUME [Next]_vars
  PROVE  Moving \/ Choosing \/ Telling \/ Calling \/ Writing \/ Enter \/ RunAgain
           \/ UNCHANGED vars
BY DEF Next, Program, Moving, Choosing, Telling, Calling, Writing

(* What the steps of a kind leave alone, and how they move. *)
MovingPairs == {
  <<"entry", "setup">>, <<"switch", "switching">>, <<"switching", "switching">>,
  <<"hacking", "hacking">>, <<"switching", "detect">>, <<"switching", "hack">>,
  <<"hack", "hacking">>, <<"hacking", "detect">>, <<"locking", "vector">>,
  <<"vector", "sanity">>, <<"exit", "f8">>, <<"f8", "launch">>,
  <<"launch", "returned">>, <<"launch", "start">>, <<"start", "booted">>,
  <<"start", "returned">> }

LEMMA MovingMoves ==
  ASSUME FlowTyped, Moving
  PROVE  /\ UNCHANGED <<rom, ivt, writable, op, phase, result, skip, force,
                        pathKnown, verbose, run, found, filled, told, acked>>
         /\ <<pc, pc'>> \in MovingPairs
         /\ prompt = "none"
         /\ prompt' \in {"none", "resolution", "bootmgr", "f8", "start"}
         /\ prompt' = "resolution" => ~skip
         /\ prompt' = "start" => verbose
         /\ pc' \in {"returned", "booted"} => prompt' = "none"
         /\ pc' \in {"start", "booted"} => pathKnown \/ pc = "start"
         /\ claimed' \in BOOLEAN
         /\ pc = "vector" => ivt = "Entry"
<1> USE DEF At, Go, GoAsking, session, settings, region, history, MovingPairs, FlowTyped
<1>1. CASE Claim
  BY <1>1 DEF Claim
<1>2. CASE SwitchVideoMode
  BY <1>2 DEF SwitchVideoMode
<1>3. CASE DisplayStep
  BY <1>3 DEF DisplayStep
<1>4. CASE ResolutionMatches
  BY <1>4 DEF ResolutionMatches
<1>5. CASE ResolutionDiffers
  BY <1>5 DEF ResolutionDiffers
<1>6. CASE ForceVideoModeHack
  BY <1>6 DEF ForceVideoModeHack
<1>7. CASE HackDone
  BY <1>7 DEF HackDone
<1>8. CASE Locked
  BY <1>8 DEF Locked
<1>9. CASE VectorAlreadyThere
  BY <1>9 DEF VectorAlreadyThere
<1>10. CASE FindBootManager
  BY <1>10 DEF FindBootManager
<1>11. CASE LookForF8
  BY <1>11 DEF LookForF8
<1>12. CASE LaunchRefused
  BY <1>12 DEF LaunchRefused
<1>13. CASE LaunchPrepared
  BY <1>13 DEF LaunchPrepared
<1>14. CASE Boot
  BY <1>14 DEF Boot
<1>15. CASE StartFailed
  BY <1>15 DEF StartFailed, StartFailedThen
<1> QED
  BY <1>1, <1>2, <1>3, <1>4, <1>5, <1>6, <1>7, <1>8, <1>9, <1>10, <1>11, <1>12,
     <1>13, <1>14, <1>15 DEF Moving

LEMMA TellingMoves ==
  ASSUME FlowTyped, Telling
  PROVE  /\ UNCHANGED <<rom, ivt, writable, op, phase, result, skip, force,
                        pathKnown, verbose, claimed, run, found, filled, acked>>
         /\ told' = TRUE
         /\ \/ pc \in {"setup", "unlocking", "fill", "sanity"} /\ pc' = "exit"
            \/ pc = "vector" /\ pc' = "sanity" /\ (prompt' = "vector" \/ skip)
         /\ prompt = "none"
         /\ prompt' \in {"none", "vector", "sanity"}
         /\ prompt' # "none" => ~skip
         /\ prompt' = "vector" => pc' = "sanity"
<1> USE DEF At, Go, GoAsking, Tell, session, settings, region, FlowTyped
<1>1. CASE SetupFails
  BY <1>1 DEF SetupFails
<1>2. CASE UnlockFailed
  BY <1>2 DEF UnlockFailed
<1>3. CASE FillUnavailable
  BY <1>3 DEF FillUnavailable
<1>4. CASE VectorWrong
  BY <1>4 DEF VectorWrong
<1>5. CASE SanityFailed
  BY <1>5 DEF SanityFailed
<1> QED BY <1>1, <1>2, <1>3, <1>4, <1>5 DEF Telling

LEMMA ChoosingMoves ==
  ASSUME FlowTyped, Choosing
  PROVE  /\ UNCHANGED <<rom, ivt, writable, op, phase, result, skip, force,
                        claimed, run, found, filled, told, acked>>
         /\ prompt = "none"
         /\ \/ /\ UNCHANGED <<pathKnown, verbose>> /\ prompt' = "none"
               /\ \/ /\ pc = "detect" /\ pc' = "exit"
                     /\ TRUE \in HandlerDefined(rom, ivt)
                  \/ /\ pc = "detect" /\ pc' = "unlock"
                     /\ force \/ FALSE \in HandlerDefined(rom, ivt)
                  \/ pc = "sanity" /\ pc' = "exit"
            \/ /\ pc = "setup" /\ pc' = "switch" /\ pathKnown' = TRUE
               /\ verbose' \in BOOLEAN
               /\ prompt' = IF verbose' THEN "verbose" ELSE "none"
BY DEF Choosing, AcceptHandler, Install, Configure, SanityPassed, At, Go, session, settings,
       region, history, FlowTyped

LEMMA CallingMoves ==
  ASSUME MemoryTyped, FlowTyped, Calling
  PROVE  /\ UNCHANGED <<rom, ivt, skip, force, pathKnown, verbose, claimed, run,
                        found, filled, told, acked, prompt>>
         /\ \/ /\ phase # "busy" /\ phase' = "busy" /\ result' = "ERROR" /\ UNCHANGED writable
               /\ \/ pc = "unlock" /\ pc' = "unlocking" /\ op' = "UNLOCK"
                  \/ pc = "lock" /\ pc' = "locking" /\ op' = "LOCK"
            \/ /\ phase = "busy" /\ pc' = pc /\ op' = op
               /\ writable' \subseteq {"head", "rest"}
               /\ \/ phase' = "busy" /\ result' = result
                  \/ /\ phase' = "done" /\ UNCHANGED writable
                     /\ result' = IF R!Achieved THEN "SUCCESS" ELSE "ERROR"
BY DEF Calling, Unlock, Lock, EnsureMemoryLock, RegionStep, R!Begin, R!Work, R!Finish,
       At, Go, session, settings, history, R!Achieved, MemoryTyped

LEMMA WritingMoves ==
  ASSUME MemoryTyped, FlowTyped, Writing
  PROVE  /\ UNCHANGED <<writable, op, phase, result, skip, force, pathKnown,
                        verbose, claimed, run, found, acked, prompt>>
         /\ prompt = "none"
         /\ rom' \in [Locations -> Content]
         /\ \/ /\ pc = "unlocking" /\ pc' = "fill"
               /\ phase = "done" /\ result = "SUCCESS"
               /\ "head" \in writable => rom'["Entry"] = "shim"
               /\ UNCHANGED <<ivt, filled, told>>
            \/ /\ pc = "fill" /\ ivt' = ivt
               /\ \/ /\ rom' = [rom EXCEPT !["Inside"] = "partial"]
                     /\ pc' = "exit" /\ told' = TRUE /\ filled' = filled
                  \/ /\ rom' = [rom EXCEPT !["Inside"] = "vbe"]
                     /\ pc' = "lock" /\ told' = told /\ filled' = TRUE
            \/ /\ pc = "vector" /\ pc' = "sanity" /\ ivt' = "Entry"
               /\ UNCHANGED <<rom, filled, told>>
<1> USE DEF At, Go, Tell, MemoryTyped, Locations, Content, session, settings
<1>1. CASE Erase
  BY <1>1 DEF Erase, Erasing, Block, history
<1>2. CASE FillUnsupported
  BY <1>2 DEF FillUnsupported, FillUnsupportedThen
<1>3. CASE Fill
  BY <1>3 DEF Fill
<1>4. CASE PointVector
  BY <1>4 DEF PointVector, PointVectorAt, region, history
<1> QED BY <1>1, <1>2, <1>3, <1>4 DEF Writing

(* WaitForEnter returning, and another start. *)
LEMMA EnterMoves ==
  ASSUME FlowTyped, Enter
  PROVE  /\ UNCHANGED <<rom, ivt, writable, op, phase, result, skip, force,
                        pathKnown, verbose, claimed, run, found, filled, told,
                        pc>>
         /\ prompt # "none" /\ prompt' = "none"
         /\ acked' \in BOOLEAN
         /\ acked \/ prompt = "vector" => acked' = TRUE
BY DEF Enter, session, settings, region, FlowTyped

LEMMA RunAgainMoves ==
  ASSUME RunAgain
  PROVE  /\ UNCHANGED <<rom, ivt, writable, op, phase, result, skip, force,
                        told, prompt>>
         /\ pc = "returned" /\ pc' = "entry"
         /\ pathKnown' = FALSE /\ verbose' = FALSE /\ claimed' = FALSE
         /\ filled' = FALSE /\ acked' = FALSE
         /\ found' = [rom |-> rom, ivt |-> ivt]
BY DEF RunAgain, settings, region

LEMMA StutterMoves ==
  ASSUME UNCHANGED vars
  PROVE  UNCHANGED <<rom, ivt, writable, op, phase, result, skip, force,
                     pathKnown, verbose, claimed, run, found, filled, told,
                     acked, pc, prompt>>
BY DEF vars, region, settings, session, history

-----------------------------------------------------------------------------

LEMMA MemoryTypedKept ==
  ASSUME IInv, [Next]_vars
  PROVE  MemoryTyped'
<1> USE DEF IInv, MemoryTyped
<1>1. CASE Moving
  BY <1>1, MovingMoves
<1>2. CASE Choosing
  BY <1>2, ChoosingMoves
<1>3. CASE Telling
  BY <1>3, TellingMoves
<1>4. CASE Calling
  BY <1>4, CallingMoves
<1>5. CASE Writing
  BY <1>5, WritingMoves DEF Targets, Locations
<1>6. CASE Enter
  BY <1>6, EnterMoves
<1>7. CASE RunAgain
  BY <1>7, RunAgainMoves
<1>8. CASE UNCHANGED vars
  BY <1>8, StutterMoves
<1> QED BY <1>1, <1>2, <1>3, <1>4, <1>5, <1>6, <1>7, <1>8, StepsByKind

LEMMA FlowTypedKept ==
  ASSUME IInv, [Next]_vars
  PROVE  FlowTyped'
<1> USE DEF IInv, FlowTyped, Points, Prompts
<1>1. CASE Moving
  BY <1>1, MovingMoves DEF MovingPairs
<1>2. CASE Choosing
  BY <1>2, ChoosingMoves
<1>3. CASE Telling
  BY <1>3, TellingMoves
<1>4. CASE Calling
  BY <1>4, CallingMoves
<1>5. CASE Writing
  BY <1>5, WritingMoves
<1>6. CASE Enter
  <2>1. /\ UNCHANGED <<skip, force, pathKnown, verbose, claimed, filled, told, pc>>
        /\ prompt' = "none" /\ acked' \in BOOLEAN
    BY <1>6, EnterMoves
  <2> QED BY <2>1
<1>7. CASE RunAgain
  BY <1>7, RunAgainMoves
<1>8. CASE UNCHANGED vars
  BY <1>8, StutterMoves
<1> QED BY <1>1, <1>2, <1>3, <1>4, <1>5, <1>6, <1>7, <1>8, StepsByKind

LEMMA PromptsPlacedKept ==
  ASSUME IInv, [Next]_vars
  PROVE  PromptsPlaced'
<1> USE DEF IInv, PromptsPlaced
<1>1. CASE Moving
  BY <1>1, MovingMoves DEF MovingPairs
<1>2. CASE Choosing
  BY <1>2, ChoosingMoves
<1>3. CASE Telling
  BY <1>3, TellingMoves
<1>4. CASE Calling
  BY <1>4, CallingMoves
<1>5. CASE Writing
  BY <1>5, WritingMoves
<1>6. CASE Enter
  BY <1>6, EnterMoves
<1>7. CASE RunAgain
  BY <1>7, RunAgainMoves
<1>8. CASE UNCHANGED vars
  BY <1>8, StutterMoves
<1> QED BY <1>1, <1>2, <1>3, <1>4, <1>5, <1>6, <1>7, <1>8, StepsByKind

LEMMA CallsKept ==
  ASSUME IInv, [Next]_vars
  PROVE  Calls'
<1> USE DEF IInv, Calls
<1>1. CASE Moving
  BY <1>1, MovingMoves DEF MovingPairs
<1>2. CASE Choosing
  BY <1>2, ChoosingMoves
<1>3. CASE Telling
  BY <1>3, TellingMoves
<1>4. CASE Calling
  BY <1>4, CallingMoves DEF R!Achieved
<1>5. CASE Writing
  BY <1>5, WritingMoves
<1>6. CASE Enter
  BY <1>6, EnterMoves
<1>7. CASE RunAgain
  BY <1>7, RunAgainMoves
<1>8. CASE UNCHANGED vars
  BY <1>8, StutterMoves
<1> QED BY <1>1, <1>2, <1>3, <1>4, <1>5, <1>6, <1>7, <1>8, StepsByKind

LEMMA ProgressKept ==
  ASSUME IInv, [Next]_vars
  PROVE  Progress'
<1> USE DEF IInv, Progress, Before, Unlocking, Completed, ShimThere
<1>1. CASE Moving
  BY <1>1, MovingMoves DEF MovingPairs
<1>2. CASE Choosing
  <2>1. /\ UNCHANGED <<rom, filled>>
        /\ <<pc, pc'>> \in {<<"detect", "exit">>, <<"detect", "unlock">>,
                            <<"sanity", "exit">>, <<"setup", "switch">>}
    BY <1>2, ChoosingMoves
  <2> QED BY <2>1
<1>3. CASE Telling
  BY <1>3, TellingMoves
<1>4. CASE Calling
  BY <1>4, CallingMoves
<1>5. CASE Writing
  <2>1. CASE pc = "unlocking"
    BY <1>5, <2>1, WritingMoves DEF Calls
  <2>2. CASE pc = "fill"
    <3>1. \/ pc' = "exit"
          \/ rom' = [rom EXCEPT !["Inside"] = "vbe"] /\ pc' = "lock" /\ filled' = TRUE
      BY <1>5, <2>2, WritingMoves
    <3>2. pc' = "lock" => rom'["Inside"] = "vbe" /\ rom'["Entry"] = rom["Entry"]
      BY <3>1 DEF MemoryTyped, Locations
    <3> QED BY <2>2, <3>1, <3>2
  <2>3. CASE pc = "vector"
    BY <1>5, <2>3, WritingMoves
  <2> QED BY <1>5, <2>1, <2>2, <2>3, WritingMoves
<1>6. CASE Enter
  BY <1>6, EnterMoves
<1>7. CASE RunAgain
  BY <1>7, RunAgainMoves
<1>8. CASE UNCHANGED vars
  BY <1>8, StutterMoves
<1> QED BY <1>1, <1>2, <1>3, <1>4, <1>5, <1>6, <1>7, <1>8, StepsByKind

LEMMA NativeLeftAloneKept ==
  ASSUME IInv, [Next]_vars
  PROVE  NativeLeftAlone'
<1> USE DEF IInv, NativeLeftAlone, HandlerFound, Installing, Unlocking, Completed
<1>1. CASE Moving
  BY <1>1, MovingMoves DEF MovingPairs
<1>2. CASE Choosing
  <2>1. UNCHANGED <<rom, ivt, force, found>>
    BY <1>2, ChoosingMoves
  <2>2. pc' \in {"exit", "switch"} \/ (pc' = "unlock" /\ (force \/ FALSE \in HandlerDefined(rom, ivt)))
    BY <1>2, ChoosingMoves
  <2>3. HandlerFound => ~(force \/ FALSE \in HandlerDefined(rom, ivt))
    BY Zenon DEF HandlerFound
  <2> QED BY <2>1, <2>2, <2>3
<1>3. CASE Telling
  BY <1>3, TellingMoves
<1>4. CASE Calling
  BY <1>4, CallingMoves
<1>5. CASE Writing
  BY <1>5, WritingMoves
<1>6. CASE Enter
  BY <1>6, EnterMoves
<1>7. CASE RunAgain
  BY <1>7, RunAgainMoves
<1>8. CASE UNCHANGED vars
  BY <1>8, StutterMoves
<1> QED BY <1>1, <1>2, <1>3, <1>4, <1>5, <1>6, <1>7, <1>8, StepsByKind

(* A handler detected in an unsuspicious ROM answers. *)
LEMMA AcceptedServes ==
  ASSUME MemoryTyped, TRUE \in HandlerDefined(rom, ivt),
         Pristine \/ (ShimThere /\ ivt = "Entry")
  PROVE  Serves(rom, ivt)
BY DEF MemoryTyped, HandlerDefined, Pristine, ShimThere, Serves, Targets

LEMMA SilenceKept ==
  ASSUME IInv, [Next]_vars
  PROVE  Silence'
<1> USE DEF IInv, Silence, Before, After, Unlocking, Completed, Pristine, ShimThere
<1>1. CASE Moving
  <2>1. UNCHANGED <<rom, ivt, told>> /\ (pc = "vector" => ivt = "Entry")
    BY <1>1, MovingMoves
  <2>2. <<pc, pc'>> \in MovingPairs
    BY <1>1, MovingMoves
  <2> QED BY <2>1, <2>2 DEF MovingPairs, Progress, Serves
<1>2. CASE Choosing
  <2>1. UNCHANGED <<rom, ivt, told>>
    BY <1>2, ChoosingMoves
  <2>2. CASE pc = "sanity"
    BY <1>2, <2>1, <2>2, ChoosingMoves DEF Serves
  <2>3. CASE pc = "detect" /\ pc' = "exit"
    BY <1>2, <2>1, <2>3, ChoosingMoves, AcceptedServes DEF Serves
  <2>4. CASE pc' \in {"unlock", "switch"}
    BY <1>2, <2>1, <2>4, ChoosingMoves
  <2> QED BY <1>2, <2>2, <2>3, <2>4, ChoosingMoves
<1>3. CASE Telling
  BY <1>3, TellingMoves
<1>4. CASE Calling
  BY <1>4, CallingMoves
<1>5. CASE Writing
  BY <1>5, WritingMoves DEF Progress
<1>6. CASE Enter \/ RunAgain \/ UNCHANGED vars
  BY <1>6, EnterMoves, RunAgainMoves, StutterMoves DEF Serves
<1> QED BY <1>1, <1>2, <1>3, <1>4, <1>5, <1>6, StepsByKind

LEMMA ShownKept ==
  ASSUME IInv, [Next]_vars
  PROVE  Shown'
<1> USE DEF IInv, Shown, After, FlowTyped
<1>1. CASE Moving
  BY <1>1, MovingMoves DEF MovingPairs
<1>2. CASE Choosing
  BY <1>2, ChoosingMoves DEF Progress, Before
<1>3. CASE Telling
  BY <1>3, TellingMoves DEF Progress, Before, Unlocking
<1>4. CASE Calling
  BY <1>4, CallingMoves
<1>5. CASE Writing
  BY <1>5, WritingMoves DEF Progress
<1>6. CASE Enter
  BY <1>6, EnterMoves DEF PromptsPlaced
<1>7. CASE RunAgain \/ UNCHANGED vars
  BY <1>7, RunAgainMoves, StutterMoves
<1> QED BY <1>1, <1>2, <1>3, <1>4, <1>5, <1>6, <1>7, StepsByKind

LEMMA UnattendedKept ==
  ASSUME IInv, [Next]_vars
  PROVE  SkipMeansUnattended'
<1> USE DEF IInv, SkipMeansUnattended, FlowTyped
<1>1. CASE Moving
  BY <1>1, MovingMoves
<1>2. CASE Choosing
  BY <1>2, ChoosingMoves
<1>3. CASE Telling
  BY <1>3, TellingMoves
<1>4. CASE Calling
  BY <1>4, CallingMoves
<1>5. CASE Writing
  BY <1>5, WritingMoves
<1>6. CASE Enter
  BY <1>6, EnterMoves
<1>7. CASE RunAgain \/ UNCHANGED vars
  BY <1>7, RunAgainMoves, StutterMoves DEF PromptsPlaced
<1> QED BY <1>1, <1>2, <1>3, <1>4, <1>5, <1>6, <1>7, StepsByKind

LEMMA PathFirstKept ==
  ASSUME IInv, [Next]_vars
  PROVE  PathFirst'
<1> USE DEF IInv, PathFirst, After, FlowTyped
<1>1. CASE Moving
  BY <1>1, MovingMoves DEF MovingPairs
<1>2. CASE Choosing
  BY <1>2, ChoosingMoves
<1>3. CASE Telling
  BY <1>3, TellingMoves
<1>4. CASE Calling
  BY <1>4, CallingMoves
<1>5. CASE Writing
  BY <1>5, WritingMoves
<1>6. CASE Enter
  <2>1. UNCHANGED <<pathKnown, pc>>
    BY <1>6, EnterMoves
  <2> QED BY <2>1
<1>7. CASE RunAgain
  BY <1>7, RunAgainMoves
<1>8. CASE UNCHANGED vars
  BY <1>8, StutterMoves
<1> QED BY <1>1, <1>2, <1>3, <1>4, <1>5, <1>6, <1>7, <1>8, StepsByKind

LEMMA InitInv == Init => IInv
<1> SUFFICES ASSUME Init PROVE IInv
  OBVIOUS
<1>1. MemoryTyped
  BY DEF Init, MemoryTyped, Content
<1>2. FlowTyped /\ PromptsPlaced /\ Calls /\ Shown /\ SkipMeansUnattended /\ PathFirst
  BY DEF Init, FlowTyped, Points, Prompts, PromptsPlaced, Calls, Shown, After,
         SkipMeansUnattended, PathFirst
<1>3. Progress /\ NativeLeftAlone
  BY DEF Init, Progress, NativeLeftAlone, HandlerFound, Installing, Unlocking, Completed
<1>4. Silence
  BY DEF Init, Silence, Pristine, Completed, After
<1> QED BY <1>1, <1>2, <1>3, <1>4 DEF IInv

LEMMA InvHolds == Spec => []IInv
<1>1. IInv /\ [Next]_vars => IInv'
  BY MemoryTypedKept, FlowTypedKept, PromptsPlacedKept, CallsKept, ProgressKept,
     NativeLeftAloneKept, SilenceKept, ShownKept, UnattendedKept, PathFirstKept DEF IInv
<1> QED BY InitInv, <1>1, PTL DEF Spec

-----------------------------------------------------------------------------

(* Without force_fakevesa, a run that finds a handler beyond doubt ends    *)
(* with ROM and vector as it found them.                                   *)
THEOREM NativeIsPreserved == Spec => []NativePreserved
<1>1. IInv => NativePreserved
  BY DEF IInv, NativeLeftAlone, HandlerFound, NativePreserved
<1> QED BY InvHolds, <1>1, PTL

(* If no start reported a failure, Windows finds an int 10h that answers.  *)
THEOREM SilenceMeansService == Spec => []SilentMeansServed
<1>1. IInv => SilentMeansServed
  BY DEF IInv, Silence, After, SilentMeansServed
<1> QED BY InvHolds, <1>1, PTL

(* Windows is not started over a shim the vector does not lead to before   *)
(* the user has seen the message, unless skiperrors is set.                *)
THEOREM MispointingIsAcknowledged == Spec => []MispointingAcknowledged
<1>1. IInv => MispointingAcknowledged
  BY DEF IInv, Shown, After, MispointingAcknowledged
<1> QED BY InvHolds, <1>1, PTL

(* With skiperrors and outside verbose mode nothing but F8 or a missing    *)
(* boot manager makes the program wait.                                    *)
THEOREM SkipIsUnattended == Spec => []SkipMeansUnattended
<1>1. IInv => SkipMeansUnattended
  BY DEF IInv
<1> QED BY InvHolds, <1>1, PTL

(* The vector changes only after this run has completed the shim.          *)
THEOREM VectorOnlyAfterFill == Spec => VectorAfterFill
<1>1. IInv /\ [Next]_vars => [ivt' # ivt => filled /\ Serves(rom, "Entry")]_vars
  <2> SUFFICES ASSUME IInv, [Next]_vars, ivt' # ivt
               PROVE  filled /\ Serves(rom, "Entry")
    OBVIOUS
  <2> USE DEF IInv
  <2>1. Writing
    BY StepsByKind, MovingMoves, ChoosingMoves, TellingMoves, CallingMoves, EnterMoves,
       RunAgainMoves, StutterMoves
  <2>2. pc = "vector"
    BY <2>1, WritingMoves
  <2> QED BY <2>2 DEF Progress, Completed, ShimThere, Serves
<1> QED BY InvHolds, <1>1, PTL DEF Spec, VectorAfterFill

-----------------------------------------------------------------------------

(* Rewriting the ROM is what RegionLock allows its caller after an UNLOCK  *)
(* that succeeded, and everything else a call of it or no concern of it.   *)
LEMMA RegionStepOrStutter ==
  ASSUME IInv, [Next]_vars
  PROVE  [R!Next]_(R!vars)
<1> USE DEF IInv, R!vars
<1>1. CASE Moving
  BY <1>1, MovingMoves
<1>2. CASE Choosing
  BY <1>2, ChoosingMoves
<1>3. CASE Telling
  BY <1>3, TellingMoves
<1>4. CASE Calling
  BY <1>4 DEF Calling, Unlock, Lock, EnsureMemoryLock, RegionStep, R!Next, R!Operations
<1>5. CASE Writing
  <2>1. UNCHANGED <<writable, op, phase, result>> /\ rom' \in [Locations -> Content]
    BY <1>5, WritingMoves
  <2>2. pc = "vector" => rom' = rom
    BY <1>5, WritingMoves
  <2>3. pc # "vector" => phase = "done" /\ op = "UNLOCK" /\ result = "SUCCESS"
    BY <1>5, WritingMoves DEF Calls
  <2> QED BY <2>1, <2>2, <2>3 DEF R!Next, R!Rewrite
<1>6. CASE Enter
  BY <1>6, EnterMoves
<1>7. CASE RunAgain
  BY <1>7, RunAgainMoves
<1>8. CASE UNCHANGED vars
  BY <1>8, StutterMoves
<1> QED BY <1>1, <1>2, <1>3, <1>4, <1>5, <1>6, <1>7, <1>8, StepsByKind

(* UefiMain is a well-behaved caller of EnsureMemoryLock: the ROM is       *)
(* written only between a successful UNLOCK and the next call.             *)
THEOREM RomIsWrittenUnlocked == Spec => RomWrittenUnlocked
<1>1. Init => R!Init
  BY DEF Init, R!Init, Content
<1>2. IInv /\ [Next]_vars => [R!Next]_(R!vars)
  BY RegionStepOrStutter
<1> QED BY InvHolds, <1>1, <1>2, PTL DEF Spec, RomWrittenUnlocked, R!Behaviour

(* The stages of the promise about the boot manager. *)
LEMMA StageMoves ==
  ASSUME IInv, [Next]_vars
  PROVE  [Promise!Next]_(Promise!vars)
<1> USE DEF IInv, Promise!vars, Stage
<1>1. CASE Moving
  <2>1. pathKnown' = pathKnown /\ <<pc, pc'>> \in MovingPairs
    BY <1>1, MovingMoves
  <2>2. pc' = "start" => pathKnown = TRUE
    BY <1>1, MovingMoves DEF MovingPairs, FlowTyped
  <2> QED
    BY <2>1, <2>2 DEF MovingPairs, Promise!Next, Promise!Prepare, Promise!Install,
       Promise!LookForBootManager, Promise!Accept, Promise!Boot, Promise!Return
<1>2. CASE Choosing
  <2>1. \/ /\ pathKnown' = pathKnown
           /\ <<pc, pc'>> \in {<<"detect", "exit">>, <<"detect", "unlock">>, <<"sanity", "exit">>}
        \/ pathKnown' = TRUE /\ pc = "setup" /\ pc' = "switch"
    BY <1>2, ChoosingMoves
  <2> QED BY <2>1 DEF Promise!Next, Promise!Install, Promise!Prepare
<1>3. CASE Telling
  <2>1. /\ pathKnown' = pathKnown
        /\ <<pc, pc'>> \in {<<"setup", "exit">>, <<"unlocking", "exit">>, <<"fill", "exit">>,
                            <<"sanity", "exit">>, <<"vector", "sanity">>}
    BY <1>3, TellingMoves
  <2>2. pc = "setup" => pathKnown = FALSE
    BY DEF PathFirst, FlowTyped
  <2> QED BY <2>1, <2>2 DEF Promise!Next, Promise!Install, Promise!Prepare
<1>4. CASE Calling
  <2>1. /\ pathKnown' = pathKnown
        /\ pc' = pc \/ <<pc, pc'>> \in {<<"unlock", "unlocking">>, <<"lock", "locking">>}
    BY <1>4, CallingMoves
  <2> QED BY <2>1
<1>5. CASE Writing
  <2>1. /\ pathKnown' = pathKnown
        /\ <<pc, pc'>> \in {<<"unlocking", "fill">>, <<"fill", "exit">>, <<"fill", "lock">>,
                            <<"vector", "sanity">>}
    BY <1>5, WritingMoves
  <2> QED BY <2>1 DEF Promise!Next, Promise!Install
<1>6. CASE Enter
  <2>1. UNCHANGED <<pathKnown, pc>>
    BY <1>6, EnterMoves
  <2> QED BY <2>1
<1>7. CASE RunAgain
  BY <1>7, RunAgainMoves DEF Promise!Next, Promise!Again
<1>8. CASE UNCHANGED vars
  BY <1>8, StutterMoves
<1> QED BY <1>1, <1>2, <1>3, <1>4, <1>5, <1>6, <1>7, <1>8, StepsByKind

(* Whatever becomes of the installation, the boot manager is looked for    *)
(* after it, started at most once, and only when the own path is known.    *)
THEOREM PromiseIsKept == Spec => KeepsPromise
<1>1. Init => Promise!Init
  BY DEF Init, Promise!Init, Stage
<1>2. IInv /\ [Next]_vars => [Promise!Next]_(Promise!vars)
  BY StageMoves
<1> QED BY InvHolds, <1>1, <1>2, PTL DEF Spec, KeepsPromise, Promise!Behaviour
===============================================================================
