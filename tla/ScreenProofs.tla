----------------------------- MODULE ScreenProofs -----------------------------
(***************************************************************************)
(* Proofs about what UefiMain tells Windows of the screen.  They join the  *)
(* invariant of the display routines, proved in DisplayProofs, with that   *)
(* of UefiMain: its steps are the display's steps or leave the display     *)
(* alone, so both hold together.  DP!Op is the operator UefiSeven calls    *)
(* D!Op.                                                                   *)
(***************************************************************************)
EXTENDS UefiSevenProofs

DP == INSTANCE DisplayProofs

(* The arithmetic: the VBE mode information of a screen that has the       *)
(* offered resolution, and fits the fields, leads to the right pixels.     *)
LEMMA PixelsAddressed ==
  ASSUME NEW base \in Nat, NEW stride \in Nat, NEW x \in Nat, NEW y \in Nat
  PROVE  base + y * (stride * 4) + 4 * x = base + 4 * (y * stride + x)
<1>1. y * (stride * 4) = (y * stride) * 4 /\ y * stride \in Nat
  OBVIOUS
<1> QED BY <1>1

LEMMA BanksHold ==
  ASSUME NEW n \in Nat, NEW b \in Nat \ {0}, NEW w \in Nat \ {0}, n <= (w - 1) * b
  PROVE  (((n + b - 1) \div b) % w) * b >= n
<1> DEFINE q == (n + b - 1) \div b
           r == (n + b - 1) % b
<1>1. q \in Nat /\ r \in 0 .. b - 1 /\ n + b - 1 = b * q + r
  OBVIOUS
<1>2. b * q >= n
  BY <1>1
<1>3. q < w
  <2> SUFFICES ASSUME q >= w PROVE FALSE
    BY <1>1
  <2>1. b * q >= b * w
    BY <1>1
  <2>2. n + b - 1 >= b * w
    BY <1>1, <2>1
  <2>3. (w - 1) * b = b * w - b
    OBVIOUS
  <2> QED BY <2>2, <2>3
<1>4. q % w = q
  BY <1>1, <1>3
<1>5. q * b = b * q
  BY <1>1
<1> QED BY <1>2, <1>4, <1>5

LEMMA OffsetsVanish ==
  ASSUME NEW d \in DP!DisplayInfo, d.h = Width, d.v = Height
  PROVE  V!FrameBufferBaseWithOffset(d) = d.base
<1>1. W32 \in Nat \ {0} /\ Width \in Nat /\ Height \in Nat
  BY WidthsAssumption
<1>2. d.base \in Nat /\ d.stride \in Nat
  BY DEF DP!DisplayInfo
<1>3. 0 % W32 = 0 /\ 0 \div 2 = 0
  BY <1>1
<1>4. V!HorizontalOffsetPx(d) = 0
  BY <1>1, <1>3 DEF V!HorizontalOffsetPx
<1>5. V!VerticalOffsetPx(d) = 0
  BY <1>1, <1>2, <1>3 DEF V!VerticalOffsetPx
<1> QED BY <1>2, <1>3, <1>4, <1>5 DEF V!FrameBufferBaseWithOffset

LEMMA ModeInfoDescribes ==
  ASSUME NEW l \in DP!Geometry, l.h = Width, l.v = Height, V!FitsVbe(l)
  PROVE  V!Describes(V!ModeInfo(DP!FromLive(l)), l)
<1> DEFINE d == DP!FromLive(l)
<1>0. /\ l.base \in Nat /\ l.stride \in Nat /\ l.size \in Nat
      /\ W16 \in Nat \ {0} /\ W32 \in Nat \ {0} /\ Bank \in Nat \ {0}
      /\ Width \in Nat /\ Height \in Nat
  BY WidthsAssumption DEF DP!Geometry
<1>1. /\ d \in DP!DisplayInfo /\ d.h = l.h /\ d.v = l.v /\ d.base = l.base
      /\ d.stride = l.stride /\ d.size = l.size /\ d.format = l.format
  BY DEF DP!FromLive, DP!DisplayInfo, DP!Geometry
<1> HIDE DEF d
<1>2. V!ModeInfo(d).lfb = l.base
  <2>1. l.base < W32
    BY <1>0 DEF V!FitsVbe
  <2>2. l.base % W32 = l.base
    BY <1>0, <2>1
  <2> QED BY <1>1, <2>2, OffsetsVanish DEF V!ModeInfo
<1>3. V!ModeInfo(d).pitch = l.stride * 4
  <2>1. l.stride * 4 < W16 /\ l.stride < W16
    BY <1>0 DEF V!FitsVbe
  <2>2. l.stride % W16 = l.stride /\ (l.stride * 4) % W16 = l.stride * 4
    BY <1>0, <2>1
  <2> QED BY <1>1, <2>2 DEF V!ModeInfo, V!BytesPerScanLine
<1>4. V!ModeInfo(d).layout = l.format
  BY <1>1 DEF V!ModeInfo
<1>5. V!ModeInfo(d).memory * Bank >= 4 * l.size
  <2>1. l.size * 4 \in Nat /\ l.size * 4 <= (W16 - 1) * Bank
    BY <1>0 DEF V!FitsVbe
  <2>2. (((l.size * 4 + Bank - 1) \div Bank) % W16) * Bank >= l.size * 4
    BY <1>0, <2>1, BanksHold
  <2> QED BY <1>0, <1>1, <2>2 DEF V!ModeInfo, V!VideoMem64K
<1>6. ASSUME NEW x \in 0 .. Width - 1, NEW y \in 0 .. Height - 1
      PROVE  V!AddressByVbe(V!ModeInfo(d), x, y) = V!AddressOnScreen(l, x, y)
  <2>1. x \in Nat /\ y \in Nat
    BY <1>0
  <2> QED BY <1>0, <1>2, <1>3, <2>1, PixelsAddressed DEF V!AddressByVbe, V!AddressOnScreen
<1> QED BY <1>4, <1>5, <1>6 DEF V!Describes, d

-----------------------------------------------------------------------------

(* Both instances of Display say the same. *)
LEMMA MachinesAreDisplays ==
  /\ Width \in Nat \ {0} /\ Height \in Nat \ {0}
  /\ \A m \in Machines :
       /\ m.adapter \in DP!Adapters
       /\ m.modes \in Seq(DP!ModeRecord) /\ m.modes # <<>>
       /\ \A k \in DOMAIN m.modes : m.modes[k].stride >= m.modes[k].h
       /\ m.base \in Nat
BY WidthsAssumption, MachinesAssumption
   DEF D!Adapters, DP!Adapters, D!ModeRecord, DP!ModeRecord, D!Formats, DP!Formats

LEMMA SameInit == D!Init => DP!Init
BY DEF D!Init, DP!Init, D!Modes, DP!Modes, D!Truth, DP!Truth, D!Zeroed, DP!Zeroed

LEMMA SameStep == D!Step => DP!Step
BY DEF D!Step, DP!Step, D!QueryFails, DP!QueryFails, D!SkipMode, DP!SkipMode,
       D!Passed, DP!Passed, D!SetModeFails, DP!SetModeFails, D!SetModeWorks,
       DP!SetModeWorks, D!ScanEnds, DP!ScanEnds, D!Refresh, DP!Refresh, D!ScaleUp,
       DP!ScaleUp, D!ApplyHack, DP!ApplyHack, D!Overwrite, DP!Overwrite, D!Scanning,
       DP!Scanning, D!Usable, DP!Usable, D!Truth, DP!Truth, D!FromLive, DP!FromLive,
       D!screen, DP!screen

LEMMA SameEntries ==
  /\ D!StartSwitch => DP!StartSwitch
  /\ D!StartHack => DP!StartHack
  /\ D!Restarted => DP!Restarted
BY DEF D!StartSwitch, DP!StartSwitch, D!StartHack, DP!StartHack, D!Enter, DP!Enter,
       D!Ensured, DP!Ensured, D!Detected, DP!Detected, D!NotFound, DP!NotFound,
       D!Zeroed, DP!Zeroed, D!FromLive, DP!FromLive, D!screen, DP!screen,
       D!MatchCurrentResolution, DP!MatchCurrentResolution, D!Restarted, DP!Restarted,
       D!Modes, DP!Modes, D!Truth, DP!Truth

(* The steps of UefiMain that leave the display alone, and the others. *)
OffScreen == UNCHANGED <<display, vbe>>

LEMMA ScreenMoves ==
  ASSUME [Next]_vars
  PROVE  \/ OffScreen \/ SwitchVideoMode \/ DisplayStep \/ ForceVideoModeHack
         \/ Fill \/ FillUnsupported \/ RunAgain
BY DEF Next, Program, OffScreen, vars, Claim, SetupFails, Configure, ResolutionMatches,
       ResolutionDiffers, HackDone, AcceptHandler, Install, Unlock, Lock, EnsureMemoryLock,
       RegionStep, UnlockFailed, Erase, Erasing, FillUnavailable, Locked, PointVector, PointVectorAt, VectorAlreadyThere,
       VectorWrong, SanityPassed, SanityFailed, FindBootManager, LookForF8, LaunchRefused,
       LaunchPrepared, Boot, StartFailed, StartFailedThen, Enter

(* Every step is one of the display's, or none.                            *)
LEMMA DisplaySteps ==
  ASSUME [Next]_vars
  PROVE  [DP!AnyStep]_(DP!vars)
<1>1. CASE OffScreen
  BY <1>1 DEF OffScreen, display, DP!vars, DP!screen
<1>2. CASE Fill \/ FillUnsupported
  BY <1>2 DEF Fill, FillUnsupported, FillUnsupportedThen, display, DP!vars, DP!screen
<1>3. CASE SwitchVideoMode
  BY <1>3, SameEntries DEF SwitchVideoMode, DP!AnyStep
<1>4. CASE DisplayStep
  BY <1>4, SameStep DEF DisplayStep, DP!AnyStep
<1>5. CASE ForceVideoModeHack
  BY <1>5, SameEntries DEF ForceVideoModeHack, DP!AnyStep
<1>6. CASE RunAgain
  BY <1>6, SameEntries DEF RunAgain, DP!AnyStep
<1> QED BY <1>1, <1>2, <1>3, <1>4, <1>5, <1>6, ScreenMoves

LEMMA DisplayInvHolds == Spec => []DP!IInv
<1>1. Init => DP!IInv
  BY SameInit, DP!InitInv, MachinesAreDisplays DEF Init
<1>2. DP!IInv /\ [Next]_vars => DP!IInv'
  BY DisplaySteps, DP!InvKept, MachinesAreDisplays
<1> QED BY <1>1, <1>2, PTL DEF Spec

-----------------------------------------------------------------------------

(* From the detection on the display is ready, and what a completed shim   *)
(* says was computed from it.                                              *)
Settled ==
  /\ pc = "hacking" => call = "hack"
  /\ pc \in {"detect"} \cup Installing => DP!Ready
  /\ filled => vbe = V!ModeInfo(info) /\ DP!Ready

VbeTyped ==
  vbe \in [lfb : 0 .. W32 - 1, pitch : 0 .. W16 - 1, memory : 0 .. W16 - 1,
           layout : D!Formats \cup {"none"}]

LEMMA RemainderTyped ==
  ASSUME NEW n \in Int, NEW w \in Nat \ {0}
  PROVE  n % w \in 0 .. w - 1
OBVIOUS

LEMMA ModeInfoTyped ==
  ASSUME NEW d \in DP!DisplayInfo
  PROVE  V!ModeInfo(d) \in [lfb : 0 .. W32 - 1, pitch : 0 .. W16 - 1,
                            memory : 0 .. W16 - 1, layout : D!Formats]
<1>0. /\ d.h \in Nat /\ d.v \in Nat /\ d.stride \in Nat /\ d.size \in Nat /\ d.base \in Nat
      /\ d.format \in D!Formats
  BY DEF DP!DisplayInfo, DP!Formats, D!Formats
<1>1. /\ W16 \in Nat \ {0} /\ W32 \in Nat \ {0} /\ Bank \in Nat \ {0}
      /\ Width \in Nat /\ Height \in Nat
  BY WidthsAssumption
<1>2. V!HorizontalOffsetPx(d) \in Nat
  BY <1>0, <1>1 DEF V!HorizontalOffsetPx
<1>3. V!VerticalOffsetPx(d) \in Nat
  <2>1. ((d.v - Height) % W32) \div 2 \in Nat
    BY <1>0, <1>1
  <2>2. (((d.v - Height) % W32) \div 2) * d.stride \in Int
    BY <1>0, <2>1
  <2>3. V!VerticalOffsetPx(d) \in 0 .. W32 - 1
    BY <1>1, <2>2, RemainderTyped DEF V!VerticalOffsetPx
  <2> QED BY <1>1, <2>3
<1>4. V!FrameBufferBaseWithOffset(d) \in Nat
  <2>1. /\ (V!VerticalOffsetPx(d) * 4) % W32 \in Nat
        /\ (V!HorizontalOffsetPx(d) * 4) % W32 \in Nat
    BY <1>1, <1>2, <1>3
  <2> QED BY <1>0, <2>1 DEF V!FrameBufferBaseWithOffset
<1>5. V!BytesPerScanLine(d) \in 0 .. W16 - 1
  <2>1. (d.stride % W16) * 4 \in Int
    BY <1>0, <1>1
  <2> QED BY <1>1, <2>1, RemainderTyped DEF V!BytesPerScanLine
<1>6. V!VideoMem64K(d) \in 0 .. W16 - 1
  <2>1. (d.size * 4 + Bank - 1) \div Bank \in Int
    BY <1>0, <1>1
  <2> QED BY <1>1, <2>1, RemainderTyped DEF V!VideoMem64K
<1>7. V!FrameBufferBaseWithOffset(d) % W32 \in 0 .. W32 - 1
  BY <1>1, <1>4, RemainderTyped
<1> QED BY <1>0, <1>5, <1>6, <1>7 DEF V!ModeInfo

LEMMA VbeTypedKept ==
  ASSUME DP!IInv, VbeTyped, [Next]_vars
  PROVE  VbeTyped'
<1> USE DEF VbeTyped
<1>1. CASE Fill
  <2>1. vbe' = V!ModeInfo(info)
    BY <1>1 DEF Fill
  <2>2. info \in DP!DisplayInfo
    BY DEF DP!IInv, DP!TypeOK
  <2> QED BY <2>1, <2>2, ModeInfoTyped
<1>2. CASE FillUnsupported
  <2>1. vbe' = [V!ModeInfo(info) EXCEPT !.layout = "none"]
    BY <1>2 DEF FillUnsupported, FillUnsupportedThen
  <2>2. info \in DP!DisplayInfo
    BY DEF DP!IInv, DP!TypeOK
  <2> QED BY <2>1, <2>2, ModeInfoTyped
<1>3. vbe' = vbe \/ Fill \/ FillUnsupported
  BY ScreenMoves DEF OffScreen, SwitchVideoMode, DisplayStep, ForceVideoModeHack, RunAgain
<1> QED BY <1>1, <1>2, <1>3

(* The display's steps before the detection keep Settled, for nothing is   *)
(* filled in then; those after it leave the display alone.                 *)
LEMMA ReadyKept ==
  ASSUME UNCHANGED display
  PROVE  DP!Ready' = DP!Ready /\ call' = call /\ info' = info
BY DEF display, DP!Ready, DP!MatchCurrentResolution

LEMMA DetectReached ==
  ASSUME [Next]_vars, IInv, Settled, UNCHANGED display,
         pc' \in {"detect"} \cup Installing, pc \notin {"detect"} \cup Installing
  PROVE  DP!Ready
<1>1. CASE ResolutionMatches
  BY <1>1 DEF ResolutionMatches, D!MatchCurrentResolution, DP!MatchCurrentResolution, DP!Ready
<1>2. CASE HackDone
  BY <1>2 DEF HackDone, At, Settled, DP!Ready
<1>3. CASE Moving /\ ~ResolutionMatches /\ ~HackDone
  BY <1>3 DEF Moving, Claim, SwitchVideoMode, DisplayStep, ResolutionDiffers,
              ForceVideoModeHack, Locked, VectorAlreadyThere, FindBootManager, LookForF8,
              LaunchRefused, LaunchPrepared, Boot, StartFailed, StartFailedThen, At, Go,
              GoAsking, Installing, Unlocking, Completed
<1>4. CASE Choosing
  BY <1>4, ChoosingMoves DEF IInv, Installing, Unlocking, Completed
<1>5. CASE Telling
  BY <1>5, TellingMoves DEF IInv, Installing, Unlocking, Completed
<1>6. CASE Calling
  BY <1>6, CallingMoves DEF IInv, Installing, Unlocking, Completed
<1>7. CASE Writing
  BY <1>7, WritingMoves DEF IInv, Installing, Unlocking, Completed
<1>8. CASE Enter \/ RunAgain \/ UNCHANGED vars
  BY <1>8, EnterMoves, RunAgainMoves, StutterMoves DEF IInv, Installing, Unlocking, Completed
<1> QED BY <1>1, <1>2, <1>3, <1>4, <1>5, <1>6, <1>7, <1>8, StepsByKind

LEMMA HackingReached ==
  ASSUME [Next]_vars, IInv, Settled, pc' = "hacking"
  PROVE  call' = "hack"
<1>1. CASE ForceVideoModeHack
  BY <1>1 DEF ForceVideoModeHack, D!StartHack, D!Enter
<1>2. CASE DisplayStep
  BY <1>2 DEF DisplayStep, Settled, D!Step, D!QueryFails, D!SkipMode, D!Passed,
              D!SetModeFails, D!SetModeWorks, D!ScanEnds, D!Refresh, D!ScaleUp,
              D!ApplyHack, D!Overwrite
<1>3. CASE UNCHANGED <<pc, call>>
  BY <1>3 DEF Settled
<1>4. pc # "hacking" /\ ~ForceVideoModeHack => FALSE
  <2> SUFFICES ASSUME pc # "hacking", ~ForceVideoModeHack PROVE FALSE
    OBVIOUS
  <2>1. CASE Moving
    BY <2>1 DEF Moving, Claim, SwitchVideoMode, DisplayStep, ResolutionMatches,
                ResolutionDiffers, HackDone, Locked, VectorAlreadyThere, FindBootManager,
                LookForF8, LaunchRefused, LaunchPrepared, Boot, StartFailed,
                StartFailedThen, At, Go, GoAsking
  <2>2. CASE Choosing \/ Telling \/ Calling \/ Writing
    BY <2>2, ChoosingMoves, TellingMoves, CallingMoves, WritingMoves DEF IInv
  <2>3. CASE Enter \/ RunAgain \/ UNCHANGED vars
    BY <2>3, EnterMoves, RunAgainMoves, StutterMoves DEF IInv
  <2> QED BY <2>1, <2>2, <2>3, StepsByKind
<1>5. CASE pc = "hacking" /\ OffScreen
  BY <1>5 DEF OffScreen, display, Settled
<1>6. CASE pc = "hacking" /\ ~OffScreen /\ ~DisplayStep
  BY <1>6, ScreenMoves DEF SwitchVideoMode, ForceVideoModeHack, Fill, FillUnsupported,
                           FillUnsupportedThen, RunAgain, At, Go
<1> QED BY <1>1, <1>2, <1>4, <1>5, <1>6

LEMMA FilledOnlyByFill ==
  ASSUME IInv, [Next]_vars, ~Fill, filled' = TRUE
  PROVE  filled = TRUE
<1>1. CASE Moving
  BY <1>1, MovingMoves DEF IInv
<1>2. CASE Choosing
  BY <1>2, ChoosingMoves DEF IInv
<1>3. CASE Telling
  BY <1>3, TellingMoves DEF IInv
<1>4. CASE Calling
  BY <1>4, CallingMoves DEF IInv
<1>5. CASE Writing
  BY <1>5 DEF Writing, Erase, Erasing, FillUnsupported, FillUnsupportedThen, PointVector,
              PointVectorAt, history
<1>6. CASE Enter
  BY <1>6 DEF Enter
<1>7. CASE RunAgain
  BY <1>7 DEF RunAgain
<1>8. CASE UNCHANGED vars
  BY <1>8, StutterMoves
<1> QED BY <1>1, <1>2, <1>3, <1>4, <1>5, <1>6, <1>7, <1>8, StepsByKind

LEMMA SettledKept ==
  ASSUME IInv, Settled, [Next]_vars
  PROVE  Settled'
<1>1. pc' = "hacking" => call' = "hack"
  BY HackingReached
<1>2. info' = info => V!ModeInfo(info)' = V!ModeInfo(info)
  BY DEF V!ModeInfo, V!FrameBufferBaseWithOffset, V!HorizontalOffsetPx,
         V!VerticalOffsetPx, V!BytesPerScanLine, V!VideoMem64K
<1>3. CASE Fill
  <2>1. UNCHANGED display /\ vbe' = V!ModeInfo(info) /\ pc = "fill"
    BY <1>3 DEF Fill, At
  <2>2. DP!Ready
    BY <2>1 DEF Settled, Installing
  <2>3. DP!Ready' /\ info' = info
    BY <2>1, <2>2, ReadyKept
  <2> QED BY <1>1, <1>2, <2>1, <2>3 DEF Settled
<1>4. CASE OffScreen /\ ~Fill
  <2>1. UNCHANGED display /\ vbe' = vbe
    BY <1>4 DEF OffScreen
  <2>2. DP!Ready' = DP!Ready /\ info' = info
    BY <2>1, ReadyKept
  <2>3. pc' \in {"detect"} \cup Installing => DP!Ready
    BY <2>1, DetectReached DEF Settled
  <2>4. filled' => filled = TRUE
    BY <1>4, FilledOnlyByFill, FlowTypedKept DEF FlowTyped
  <2> QED BY <1>1, <1>2, <2>1, <2>2, <2>3, <2>4 DEF Settled
<1>5. CASE SwitchVideoMode \/ DisplayStep \/ ForceVideoModeHack \/ RunAgain
  <2>1. CASE RunAgain
    BY <1>1, <2>1, RunAgainMoves DEF Settled, Installing, Unlocking, Completed
  <2>2. CASE ~RunAgain
    <3>1. pc \in {"switch", "switching", "hack", "hacking"} /\ pc' \in {"switching", "hacking"}
      BY <1>5, <2>2 DEF SwitchVideoMode, DisplayStep, ForceVideoModeHack, At, Go
    <3>2. ~filled /\ filled' = filled
      BY <1>5, <2>2, <3>1 DEF IInv, Progress, Before, SwitchVideoMode, DisplayStep,
         ForceVideoModeHack, history
    <3> QED BY <1>1, <3>1, <3>2 DEF Settled, Installing, Unlocking, Completed
  <2> QED BY <2>1, <2>2
<1>6. CASE FillUnsupported
  <2>1. pc = "fill" /\ pc' = "exit" /\ filled' = filled
    BY <1>6 DEF FillUnsupported, FillUnsupportedThen, At, Go
  <2>2. ~filled
    BY <2>1 DEF IInv, Progress
  <2> QED BY <2>1, <2>2 DEF Settled, Installing, Unlocking, Completed
<1> QED BY <1>3, <1>4, <1>5, <1>6, ScreenMoves

(* The count of starts, and what the last one found. *)
RunTyped ==
  /\ run \in 1 .. MaxRuns
  /\ found \in [rom : [Locations -> Content], ivt : Targets]

LEMMA RunTypedKept ==
  ASSUME IInv, RunTyped, [Next]_vars
  PROVE  RunTyped'
<1> USE DEF IInv, RunTyped
<1>1. CASE Moving
  BY <1>1, MovingMoves
<1>2. CASE Choosing
  BY <1>2, ChoosingMoves
<1>3. CASE Telling
  BY <1>3, TellingMoves
<1>4. CASE Calling
  BY <1>4, CallingMoves
<1>5. CASE Writing
  BY <1>5, WritingMoves
<1>6. CASE Enter
  BY <1>6, EnterMoves
<1>7. CASE RunAgain
  <2>1. run' \in 1 .. MaxRuns
    BY <1>7, RunsAssumption DEF RunAgain
  <2>2. found' = [rom |-> rom, ivt |-> ivt]
    BY <1>7, RunAgainMoves
  <2> QED BY <2>1, <2>2 DEF MemoryTyped
<1>8. CASE UNCHANGED vars
  BY <1>8, StutterMoves
<1> QED BY <1>1, <1>2, <1>3, <1>4, <1>5, <1>6, <1>7, <1>8, StepsByKind

LEMMA ScreenInvHolds == Spec => [](IInv /\ DP!IInv /\ Settled /\ VbeTyped /\ RunTyped)
<1>1. Init => Settled
  BY DEF Init, Settled, Installing, Unlocking, Completed
<1>2. Init => VbeTyped
  BY WidthsAssumption DEF Init, VbeTyped, NoInfo, D!Formats
<1>3. IInv /\ Settled /\ [Next]_vars => Settled'
  BY SettledKept
<1>4. DP!IInv /\ VbeTyped /\ [Next]_vars => VbeTyped'
  BY VbeTypedKept
<1>5. Init => RunTyped
  BY RunsAssumption DEF Init, RunTyped, Content
<1>6. IInv /\ RunTyped /\ [Next]_vars => RunTyped'
  BY RunTypedKept
<1> QED BY InvHolds, DisplayInvHolds, <1>1, <1>2, <1>3, <1>4, <1>5, <1>6, PTL DEF Spec

-----------------------------------------------------------------------------

(* What a completed shim tells Windows is where the adapter says the       *)
(* pixels are, for every pixel of the offered mode, if the adapter is a    *)
(* GOP whose description fits the VBE fields.                              *)
THEOREM ScreenIsDescribed == Spec => []VbeDescribesScreen
<1>1. IInv /\ DP!IInv /\ Settled => VbeDescribesScreen
  <2> SUFFICES ASSUME IInv, DP!IInv, Settled, filled, machine.adapter = "GOP",
                      V!FitsVbe(live)
               PROVE  V!Describes(vbe, live)
    BY DEF VbeDescribesScreen
  <2>1. vbe = V!ModeInfo(info) /\ DP!Ready
    BY DEF Settled
  <2>2. info = DP!FromLive(live) /\ live \in DP!Geometry
    BY <2>1 DEF DP!IInv, DP!TypeOK, DP!Cached, DP!IsGOP, DP!Ready
  <2>3. info.h = live.h /\ info.v = live.v
    BY <2>2 DEF DP!FromLive
  <2>4. live.h = Width /\ live.v = Height
    BY <2>1, <2>3 DEF DP!IInv, DP!Described, DP!IsGOP, DP!Ready, DP!MatchCurrentResolution
  <2> QED BY <2>1, <2>2, <2>4, ModeInfoDescribes
<1> QED BY ScreenInvHolds, <1>1, PTL

(* Every variable of UefiMain and of the display keeps to its type.        *)
THEOREM TypeCorrect == Spec => []TypeOK
<1>1. IInv /\ DP!IInv /\ VbeTyped => D!TypeOK
  BY DEF DP!IInv, DP!TypeOK, D!TypeOK, DP!Modes, D!Modes, DP!Geometry, D!Geometry,
         DP!DisplayInfo, D!DisplayInfo, DP!Formats, D!Formats, DP!Error, D!Error
<1>2. IInv /\ DP!IInv /\ VbeTyped /\ RunTyped => TypeOK
  <2> SUFFICES ASSUME IInv, VbeTyped, RunTyped, D!TypeOK PROVE TypeOK
    BY <1>1
  <2>1. {skip, force, pathKnown, verbose, claimed, filled, told, acked} \subseteq BOOLEAN
    BY DEF IInv, FlowTyped
  <2> QED BY <2>1 DEF IInv, MemoryTyped, FlowTyped, VbeTyped, RunTyped, TypeOK, R!Operations
<1> QED BY ScreenInvHolds, <1>2, PTL

-----------------------------------------------------------------------------
(* The causes of the divergences.  The runs that expect a violation show   *)
(* one behaviour each; these theorems say that there is no other cause.    *)

(* An adapter that is there has been found once the display was looked at. *)
DisplayFound ==
  info.initialized /\ machine.adapter \in {"GOP", "UGA"} => info.protocol # "NONE"

LEMMA DisplayFoundKept ==
  ASSUME DisplayFound, [Next]_vars
  PROVE  DisplayFound'
<1> USE DEF DisplayFound
<1>1. CASE OffScreen \/ Fill \/ FillUnsupported
  BY <1>1 DEF OffScreen, Fill, FillUnsupported, FillUnsupportedThen, display
<1>2. CASE SwitchVideoMode \/ ForceVideoModeHack
  <2>1. info' = D!Ensured /\ machine' = machine
    BY <1>2 DEF SwitchVideoMode, ForceVideoModeHack, D!StartSwitch, D!StartHack, D!Enter,
                D!screen
  <2>2. machine.adapter \in {"GOP", "UGA"} => D!Detected.protocol # "NONE"
    BY DEF D!Detected, D!FromLive, D!NotFound, D!Zeroed
  <2> QED BY <2>1, <2>2 DEF D!Ensured
<1>3. CASE DisplayStep
  <2>1. machine' = machine /\ (info' = info \/ info'.protocol = "GOP")
    BY <1>3 DEF DisplayStep, D!Step, D!QueryFails, D!SkipMode, D!Passed, D!SetModeFails,
                D!SetModeWorks, D!ScanEnds, D!Refresh, D!ScaleUp, D!ApplyHack, D!Overwrite,
                D!FromLive, D!screen
  <2> QED BY <2>1
<1>4. CASE RunAgain
  BY <1>4 DEF RunAgain, D!Restarted, D!Zeroed
<1> QED BY <1>1, <1>2, <1>3, <1>4, ScreenMoves

(* Where every mode has a layout VBE knows, every description has it: no   *)
(* step makes up a format.                                                 *)
PlainFormats == {"BGR", "RGB"}
Plain == live.format \in PlainFormats /\ info.format \in PlainFormats

LEMMA PlainKept ==
  ASSUME \A m \in Machines : \A k \in DOMAIN m.modes : m.modes[k].format \in PlainFormats,
         DP!IInv, Plain, [Next]_vars
  PROVE  Plain'
<1> USE DEF Plain
<1>1. CASE OffScreen \/ Fill \/ FillUnsupported
  BY <1>1 DEF OffScreen, Fill, FillUnsupported, FillUnsupportedThen, display
<1>2. ASSUME NEW m \in D!Modes PROVE D!Truth(m).format \in PlainFormats
  BY DEF D!Modes, D!Truth, DP!IInv, DP!TypeOK
<1>3. CASE SwitchVideoMode \/ ForceVideoModeHack
  <2>1. info' = D!Ensured /\ live' = live
    BY <1>3 DEF SwitchVideoMode, ForceVideoModeHack, D!StartSwitch, D!StartHack, D!Enter,
                D!screen
  <2>2. D!Detected.format \in PlainFormats
    BY DEF D!Detected, D!FromLive, D!NotFound, D!Zeroed, PlainFormats
  <2> QED BY <2>1, <2>2 DEF D!Ensured
<1>4. CASE DisplayStep
  <2>1. CASE D!SetModeWorks
    <3>1. i \in D!Modes
      BY <2>1 DEF D!SetModeWorks, D!Scanning, D!Modes, DP!IInv, DP!TypeOK, DP!Modes
    <3> QED BY <2>1, <3>1, <1>2 DEF D!SetModeWorks
  <2>2. CASE D!ApplyHack
    BY <2>2 DEF D!ApplyHack, D!Overwrite, D!FromLive, DP!IInv, DP!TypeOK, DP!Geometry
  <2>3. CASE D!Refresh
    BY <2>3 DEF D!Refresh, D!FromLive, D!screen
  <2>4. CASE D!QueryFails \/ D!SkipMode \/ D!SetModeFails \/ D!ScanEnds \/ D!ScaleUp
    BY <2>4 DEF D!QueryFails, D!SkipMode, D!Passed, D!SetModeFails, D!ScanEnds, D!ScaleUp,
                D!screen
  <2> QED BY <1>4, <2>1, <2>2, <2>3, <2>4 DEF DisplayStep, D!Step
<1>5. CASE RunAgain
  <2>1. info'.format = "RGB"
    BY <1>5 DEF RunAgain, D!Restarted, D!Zeroed
  <2>2. live' = live \/ \E m \in D!Modes : live' = D!Truth(m)
    BY <1>5 DEF RunAgain, D!Restarted
  <2> QED BY <1>2, <2>1, <2>2 DEF PlainFormats
<1> QED BY <1>1, <1>3, <1>4, <1>5, ScreenMoves

(* ShimVesaInformation gets to its end. *)
Shimmable == pc = "fill" => V!Found(info) /\ V!Describable(info)

LEMMA FillCompletes ==
  ASSUME DP!IInv, Settled, DisplayFound, Plain, machine.adapter \in {"GOP", "UGA"}
  PROVE  Shimmable
<1> SUFFICES ASSUME pc = "fill" PROVE V!Found(info) /\ V!Describable(info)
  BY DEF Shimmable
<1>1. where = "done"
  BY DEF Settled, Installing, DP!Ready
<1>2. info.initialized
  BY <1>1 DEF DP!IInv, DP!Cached, DP!IsGOP, DP!FromLive
<1> QED BY <1>2 DEF DisplayFound, Plain, PlainFormats, V!Found, V!Describable

(* But between copying and filling in, code of the shim lies in the ROM    *)
(* only with complete VBE information before it.                           *)
Whole ==
  /\ rom["Tail"] # "shim"
  /\ pc # "fill" => rom["Inside"] # "shim" /\ (rom["Entry"] = "shim" => rom["Inside"] = "vbe")

LEMMA WholeKept ==
  ASSUME IInv, Whole, [Next]_vars, Shimmable
  PROVE  Whole'
<1> USE DEF IInv, Whole
<1>1. CASE Moving
  BY <1>1, MovingMoves DEF MovingPairs
<1>2. CASE Choosing
  BY <1>2, ChoosingMoves
<1>3. CASE Telling
  <2>1. pc # "fill"
    BY <1>3 DEF Telling, SetupFails, UnlockFailed, FillUnavailable, VectorWrong, SanityFailed,
                Shimmable, At
  <2> QED BY <1>3, <2>1, TellingMoves
<1>4. CASE Calling
  BY <1>4, CallingMoves
<1>5. CASE Erase
  BY <1>5 DEF Erase, Erasing, Go, MemoryTyped, Locations
<1>6. CASE Fill
  <2>1. rom' = [rom EXCEPT !["Inside"] = "vbe"] /\ rom \in [Locations -> Content]
    BY <1>6 DEF Fill, MemoryTyped
  <2> QED BY <2>1 DEF Locations
<1>7. CASE FillUnsupported
  BY <1>7 DEF FillUnsupported, FillUnsupportedThen, Shimmable, At
<1>8. CASE PointVector
  BY <1>8 DEF PointVector, PointVectorAt, region, At
<1>9. CASE Enter
  BY <1>9, EnterMoves
<1>10. CASE RunAgain
  BY <1>10, RunAgainMoves
<1>11. CASE UNCHANGED vars
  BY <1>11, StutterMoves
<1> QED BY <1>1, <1>2, <1>3, <1>4, <1>5, <1>6, <1>7, <1>8, <1>9, <1>10, <1>11, StepsByKind
        DEF Writing

LEMMA WholeServes ==
  ASSUME IInv, Whole
  PROVE  AcceptedHandlerServes
<1> SUFFICES ASSUME pc = "detect", HandlerDefined(rom, ivt) = {TRUE}
             PROVE  Serves(rom, ivt)
  BY DEF AcceptedHandlerServes, At
<1> USE DEF IInv
<1>1. ivt \in Locations /\ rom[ivt] \in Content
  BY DEF MemoryTyped, Targets, HandlerDefined
<1>2. rom[ivt] \notin {"protective", "partial", "vbe"}
  BY <1>1 DEF HandlerDefined
<1>3. ivt # "Outside"
  BY <1>1 DEF Locations
<1>4. rom[ivt] = "native" \/ rom[ivt] = "shim"
  BY <1>1, <1>2 DEF Content
<1>5. rom[ivt] = "shim" => ivt = "Entry" /\ rom["Inside"] = "vbe"
  BY <1>1 DEF Whole, Locations
<1> QED BY <1>3, <1>4, <1>5 DEF Serves

(* A handler that UefiMain accepts beyond doubt does not answer int 10h    *)
(* only if ShimVesaInformation gave up in the same start or an earlier one,*)
(* whatever else those starts left behind.                                 *)
THEOREM AcceptedServesIfShimmable ==
  Spec /\ []Shimmable => []AcceptedHandlerServes
<1>1. Init => Whole
  BY DEF Init, Whole, Locations
<1>2. IInv /\ Whole /\ Shimmable /\ [Next]_vars => Whole'
  BY WholeKept
<1> QED BY <1>1, <1>2, InvHolds, WholeServes, PTL DEF Spec

(* And it gives up only for want of an adapter or because of the format of *)
(* the pixels: with an adapter that can be used, all of whose modes have a *)
(* layout VBE knows, what UefiMain accepts does answer.                    *)
THEOREM AcceptedServesOnPlainScreens ==
  ASSUME \A m \in Machines :
           /\ m.adapter \in {"GOP", "UGA"}
           /\ \A k \in DOMAIN m.modes : m.modes[k].format \in PlainFormats
  PROVE  Spec => []AcceptedHandlerServes
<1>1. Init => DisplayFound /\ Plain
  BY DEF Init, D!Init, D!Zeroed, D!Truth, D!Modes, DisplayFound, Plain, PlainFormats
<1>2. DP!IInv => machine.adapter \in {"GOP", "UGA"}
  BY DEF DP!IInv, DP!TypeOK
<1>3. DP!IInv /\ DisplayFound /\ Plain /\ [Next]_vars => DisplayFound' /\ Plain'
  BY DisplayFoundKept, PlainKept
<1>4. DP!IInv /\ Settled /\ DisplayFound /\ Plain => Shimmable
  BY <1>2, FillCompletes
<1>5. Spec => []Shimmable
  BY <1>1, <1>3, <1>4, ScreenInvHolds, PTL DEF Spec
<1> QED BY <1>5, AcceptedServesIfShimmable, PTL

(* The installation meets no obstacle once the ROM has been rewritten: the *)
(* adapter can be described, and the vector be set or is set already.      *)
Completable ==
  /\ Shimmable
  /\ pc = "vector" => claimed \/ ivt = "Entry"

(* A run has left what it found, or replaced all of it.                    *)
Intact == rom = found.rom /\ ivt = found.ivt
Replaced == ShimThere /\ ivt = "Entry"
LeftOrReplaced ==
  /\ pc \in Before \cup Unlocking => Intact
  /\ pc = "sanity" => Replaced
  /\ pc \in After => Intact \/ Replaced

LEMMA LeftOrReplacedKept ==
  ASSUME IInv, LeftOrReplaced, Completable, [Next]_vars
  PROVE  LeftOrReplaced'
<1> USE DEF IInv, LeftOrReplaced, Before, Unlocking, After, Intact, Replaced
<1>1. CASE Moving
  <2>1. pc = "vector" => Replaced
    BY <1>1, MovingMoves DEF Progress, Completed
  <2> QED BY <1>1, <2>1, MovingMoves DEF MovingPairs, ShimThere
<1>2. CASE Choosing
  <2>1. /\ UNCHANGED <<rom, ivt, found>>
        /\ <<pc, pc'>> \in {<<"detect", "exit">>, <<"detect", "unlock">>,
                            <<"sanity", "exit">>, <<"setup", "switch">>}
    BY <1>2, ChoosingMoves
  <2> QED BY <2>1 DEF ShimThere
<1>3. CASE Telling
  <2>1. pc \notin {"fill", "vector"}
    BY <1>3 DEF Telling, SetupFails, UnlockFailed, FillUnavailable, VectorWrong, SanityFailed,
                Completable, Shimmable, At
  <2>2. /\ UNCHANGED <<rom, ivt, found>>
        /\ <<pc, pc'>> \in {<<"setup", "exit">>, <<"unlocking", "exit">>, <<"sanity", "exit">>}
    BY <1>3, <2>1, TellingMoves
  <2> QED BY <2>2 DEF ShimThere
<1>4. CASE Calling
  <2>1. UNCHANGED <<rom, ivt, found>>
    BY <1>4, CallingMoves
  <2>2. pc' = pc \/ <<pc, pc'>> \in {<<"unlock", "unlocking">>, <<"lock", "locking">>}
    BY <1>4, CallingMoves
  <2> QED BY <2>1, <2>2 DEF ShimThere
<1>5. CASE Writing
  <2>1. CASE pc = "vector"
    <3>1. pc' = "sanity" /\ ivt' = "Entry" /\ rom' = rom
      BY <1>5, <2>1, WritingMoves
    <3> QED BY <2>1, <3>1 DEF Progress, Completed, ShimThere
  <2>2. CASE pc # "vector"
    <3>1. ~FillUnsupported
      BY DEF FillUnsupported, FillUnsupportedThen, At, Completable, Shimmable
    <3>2. pc' \in {"fill", "lock"}
      BY <1>5, <2>2, <3>1 DEF Writing, Erase, Erasing, Fill, PointVector, PointVectorAt, At, Go
    <3> QED BY <3>2
  <2> QED BY <2>1, <2>2
<1>6. CASE Enter
  BY <1>6, EnterMoves DEF ShimThere
<1>7. CASE RunAgain
  BY <1>7, RunAgainMoves
<1>8. CASE UNCHANGED vars
  BY <1>8, StutterMoves DEF ShimThere
<1> QED BY <1>1, <1>2, <1>3, <1>4, <1>5, <1>6, <1>7, <1>8, StepsByKind

(* With force_fakevesa a handler that answered is lost only through a      *)
(* screen that cannot be described or a vector that cannot be set.         *)
THEOREM OverwrittenReplacedIfCompletable ==
  Spec /\ []Completable => []OverwrittenIsReplaced
<1>1. Init => LeftOrReplaced
  BY DEF Init, LeftOrReplaced, Before, Unlocking, After, Intact
<1>2. IInv /\ LeftOrReplaced /\ Completable /\ [Next]_vars => LeftOrReplaced'
  BY LeftOrReplacedKept
<1>3. LeftOrReplaced => OverwrittenIsReplaced
  BY DEF LeftOrReplaced, After, Intact, Replaced, ShimThere, OverwrittenIsReplaced, Serves
<1> QED BY <1>1, <1>2, <1>3, InvHolds, PTL DEF Spec

(* The adapter's description stays as it is while the ROM holds one.       *)
Told == rom["Inside"] = "vbe"
SameScreen == Told => live' = live

ToldScreen ==
  Told /\ DP!IsGOP =>
    vbe = V!ModeInfo(DP!FromLive(live)) /\ live.h = Width /\ live.v = Height

(* VBE information comes into the ROM by filling it in, and stays with the *)
(* numbers it was filled in with.                                          *)
LEMMA ToldByFill ==
  ASSUME IInv, [Next]_vars, ~Fill, Told'
  PROVE  Told /\ vbe' = vbe
<1> USE DEF IInv, Told
<1>1. ASSUME rom' = rom PROVE Told
  BY <1>1
<1>2. CASE Writing
  <2>1. CASE Erase
    BY <2>1 DEF Erase, Erasing, MemoryTyped, Locations, display
  <2>2. CASE FillUnsupported
    <3>1. rom' = [rom EXCEPT !["Inside"] = "partial"] /\ rom \in [Locations -> Content]
      BY <2>2 DEF FillUnsupported, FillUnsupportedThen, MemoryTyped
    <3> QED BY <3>1 DEF Locations
  <2>3. CASE PointVector
    BY <2>3 DEF PointVector, PointVectorAt, region
  <2> QED BY <1>2, <2>1, <2>2, <2>3 DEF Writing
<1>3. CASE ~Writing
  <2>1. rom' = rom
    BY <1>3, StepsByKind, MovingMoves, ChoosingMoves, TellingMoves, CallingMoves, EnterMoves,
       RunAgainMoves, StutterMoves
  <2>2. vbe' = vbe
    BY <1>3, ScreenMoves DEF Writing, OffScreen, SwitchVideoMode, DisplayStep,
       ForceVideoModeHack, RunAgain
  <2> QED BY <2>1, <2>2
<1> QED BY <1>2, <1>3

LEMMA ToldScreenKept ==
  ASSUME IInv, DP!IInv, Settled, ToldScreen, [Next]_vars, [SameScreen]_vars
  PROVE  ToldScreen'
<1>1. machine' = machine
  BY ScreenMoves DEF OffScreen, display, Fill, FillUnsupported, FillUnsupportedThen,
     SwitchVideoMode, DisplayStep, ForceVideoModeHack, RunAgain, D!StartSwitch, D!StartHack,
     D!Enter, D!Restarted, D!Step, D!QueryFails, D!SkipMode, D!Passed, D!SetModeFails,
     D!SetModeWorks, D!ScanEnds, D!Refresh, D!ScaleUp, D!ApplyHack, D!Overwrite, D!screen
<1>2. DP!IsGOP' = DP!IsGOP
  BY <1>1 DEF DP!IsGOP
<1>3. live' = live => V!ModeInfo(DP!FromLive(live))' = V!ModeInfo(DP!FromLive(live))
  BY DEF V!ModeInfo, V!FrameBufferBaseWithOffset, V!HorizontalOffsetPx,
         V!VerticalOffsetPx, V!BytesPerScanLine, V!VideoMem64K, DP!FromLive
<1>4. CASE Fill
  <2>1. UNCHANGED <<live, info>> /\ vbe' = V!ModeInfo(info) /\ pc = "fill"
    BY <1>4 DEF Fill, At, display
  <2>2. DP!Ready
    BY <2>1 DEF Settled, Installing
  <2>3. ASSUME DP!IsGOP
        PROVE  info = DP!FromLive(live) /\ live.h = Width /\ live.v = Height
    <3>1. info = DP!FromLive(live)
      BY <2>2, <2>3 DEF DP!IInv, DP!Cached, DP!Ready
    <3>2. info.h = live.h /\ info.v = live.v
      BY <3>1 DEF DP!FromLive
    <3> QED BY <2>2, <2>3, <3>1, <3>2
            DEF DP!IInv, DP!Described, DP!Ready, DP!MatchCurrentResolution
  <2> QED BY <1>2, <1>3, <2>1, <2>3 DEF ToldScreen
<1>5. CASE ~Fill
  <2> SUFFICES ASSUME Told', DP!IsGOP'
               PROVE  /\ vbe' = V!ModeInfo(DP!FromLive(live))'
                      /\ live'.h = Width /\ live'.v = Height
    BY DEF ToldScreen
  <2>1. Told /\ vbe' = vbe
    BY <1>5, ToldByFill
  <2>2. live' = live
    BY <2>1 DEF SameScreen, vars, display
  <2> QED BY <1>2, <1>3, <2>1, <2>2 DEF ToldScreen
<1> QED BY <1>4, <1>5

(* A shim that a later start accepts misleads Windows only if the mode or  *)
(* its description was changed after the shim was filled in.               *)
THEOREM AcceptedNeedsNothingOnSameScreen ==
  Spec /\ [][SameScreen]_vars => []AcceptedNeedsNothing
<1>1. Init => ToldScreen
  BY DEF Init, ToldScreen, Told, Locations
<1>2. IInv /\ DP!IInv /\ Settled /\ ToldScreen /\ [Next]_vars /\ [SameScreen]_vars
        => ToldScreen'
  BY ToldScreenKept
<1>3. DP!IInv /\ ToldScreen => AcceptedNeedsNothing
  <2> SUFFICES ASSUME DP!IInv, ToldScreen, Serves(rom, ivt), ivt = "Entry",
                      rom["Entry"] = "shim", machine.adapter = "GOP", V!FitsVbe(live)
               PROVE  V!Describes(vbe, live)
    BY DEF AcceptedNeedsNothing
  <2>1. live \in DP!Geometry
    BY DEF DP!IInv, DP!TypeOK
  <2>2. Told
    BY DEF Serves, Told
  <2> QED BY <2>1, <2>2, ModeInfoDescribes DEF ToldScreen, DP!IsGOP
<1> QED BY <1>1, <1>2, <1>3, ScreenInvHolds, PTL DEF Spec
===============================================================================
