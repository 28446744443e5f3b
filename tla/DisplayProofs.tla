---------------------------- MODULE DisplayProofs ----------------------------
(***************************************************************************)
(* Proofs about SwitchVideoMode and ForceVideoModeHack, for any resolution *)
(* and any machines: tables of any length, modes of any size.              *)
(*                                                                         *)
(* ReadyGeometry speaks of the moment UefiMain goes on.  To carry it there *)
(* one has to know where the cached mDisplayInfo agrees with the adapter   *)
(* (everywhere but right after a mode was set), that only a GOP gets into  *)
(* the loops, and that a described scan line always holds a row.           *)
(***************************************************************************)
EXTENDS Display, TLAPS

IsGOP == machine.adapter = "GOP"

(* Which routine a place belongs to; only with a GOP are there loops.      *)
Places ==
  /\ where = "idle" <=> call = "none"
  /\ where \in {"scan", "refresh"} => call = "switch" /\ IsGOP
  /\ where = "scale" => call = "hack" /\ IsGOP

(* The cache before the display is found, and from then on.                *)
Cached ==
  /\ where = "idle" => info = Zeroed
  /\ IsGOP /\ where \in {"scan", "scale", "done"} => info = FromLive(live)
  /\ where = "done" /\ ~IsGOP => info.protocol # "GOP" /\ info.initialized

(* The adapter's description: a scan line holds a row, and is a whole      *)
(* number of those the hardware scans out; the hack gives the wanted size. *)
Described ==
  IsGOP =>
    /\ live.stride >= live.h /\ live.stride > 0
    /\ \E k \in Nat : live.stride = k * machine.modes[mode].stride
    /\ where = "done" /\ call = "hack" => live.h = Width /\ live.v = Height

(* What is known of the modes left behind.                                 *)
AllRefused == \A m \in Modes : Usable(m) => m \in refused
Tried ==
  IsGOP =>
    /\ where = "scan" => \A m \in Modes : m < i /\ Usable(m) => m \in refused
    /\ where = "refresh" => AllRefused \/ (live.h = Width /\ live.v = Height)
    /\ where = "done" => AllRefused \/ (live.h = Width /\ live.v = Height /\ call = "switch")
    /\ call = "hack" => AllRefused

IInv == TypeOK /\ Places /\ Cached /\ Described /\ Tried

(* The steps, with a new start at any time: UefiMain may also leave before *)
(* it gets to the display.                                                 *)
AnyStep == Step \/ StartSwitch \/ StartHack \/ Restarted

-----------------------------------------------------------------------------

(* The modes of a machine. *)
LEMMA ModeTyped ==
  ASSUME machine \in Machines, NEW m \in Modes
  PROVE  /\ machine.modes[m] \in ModeRecord
         /\ machine.modes[m].stride >= machine.modes[m].h
         /\ Modes = 1 .. Len(machine.modes) /\ Len(machine.modes) \in Nat
BY MachinesAssumption DEF Modes

LEMMA TruthTyped ==
  ASSUME machine \in Machines, NEW m \in Modes
  PROVE  Truth(m) \in Geometry
<1>1. machine.modes[m] \in ModeRecord
  BY ModeTyped
<1>2. machine.modes[m].stride * machine.modes[m].v \in Nat
  BY <1>1 DEF ModeRecord
<1> QED BY <1>1, <1>2, MachinesAssumption DEF Truth, Geometry, ModeRecord

LEMMA FromLiveTyped ==
  ASSUME NEW l \in Geometry
  PROVE  FromLive(l) \in DisplayInfo
BY DEF FromLive, Geometry, DisplayInfo

LEMMA EnsuredTyped ==
  ASSUME TypeOK
  PROVE  /\ Ensured \in DisplayInfo
         /\ machine.adapter # "GOP" /\ info.protocol # "GOP" => Ensured.protocol # "GOP"
         /\ Ensured.initialized
<1>1. machine.modes[mode] \in ModeRecord
  BY ModeTyped DEF TypeOK
<1>2. CASE info.initialized
  BY <1>2 DEF Ensured, TypeOK
<1>3. CASE ~info.initialized
  <2>1. CASE machine.adapter = "GOP"
    BY <1>3, <2>1, FromLiveTyped DEF Ensured, Detected, TypeOK, FromLive
  <2>2. CASE machine.adapter = "UGA"
    BY <1>1, <1>3, <2>2 DEF Ensured, Detected, NotFound, Zeroed, DisplayInfo, ModeRecord, Formats
  <2>3. CASE machine.adapter \notin {"GOP", "UGA"}
    BY <1>3, <2>3 DEF Ensured, Detected, NotFound, Zeroed, DisplayInfo, Formats
  <2> QED BY <2>1, <2>2, <2>3
<1> QED BY <1>2, <1>3

LEMMA InitTyped == Init => TypeOK
<1> SUFFICES ASSUME Init PROVE TypeOK
  OBVIOUS
<1>1. live \in Geometry
  BY TruthTyped DEF Init
<1>2. info \in DisplayInfo
  BY DEF Init, Zeroed, DisplayInfo, Formats
<1>3. i \in 1 .. Len(machine.modes) + 1
  BY ModeTyped DEF Init
<1> QED BY <1>1, <1>2, <1>3 DEF Init, TypeOK

LEMMA StepTyped ==
  ASSUME TypeOK, [AnyStep]_vars
  PROVE  TypeOK'
<1> USE DEF TypeOK, screen, Modes, Error
<1>0. Modes = 1 .. Len(machine.modes) /\ Len(machine.modes) \in Nat
  BY ModeTyped
<1>1. CASE QueryFails
  BY <1>0, <1>1 DEF QueryFails, Scanning
<1>2. CASE SkipMode
  BY <1>0, <1>2 DEF SkipMode, Passed, Scanning
<1>3. CASE SetModeFails
  BY <1>0, <1>3 DEF SetModeFails, Scanning
<1>4. CASE SetModeWorks
  <2>1. i \in Modes
    BY <1>0, <1>4 DEF SetModeWorks, Scanning
  <2> QED BY <1>4, <2>1, TruthTyped DEF SetModeWorks
<1>5. CASE ScanEnds
  BY <1>5 DEF ScanEnds
<1>6. CASE Refresh
  BY <1>6, FromLiveTyped DEF Refresh
<1>7. CASE ScaleUp
  BY <1>7 DEF ScaleUp
<1>8. CASE ApplyHack
  <2>1. live.stride * scale \in Nat /\ (live.stride * scale) * Height \in Nat
    BY ResolutionAssumption DEF Geometry
  <2>2. live' \in Geometry
    BY <1>8, <2>1, ResolutionAssumption DEF ApplyHack, Overwrite, Geometry
  <2> QED BY <1>8, <2>2, FromLiveTyped DEF ApplyHack, Overwrite
<1>9. CASE StartSwitch
  <2>1. info' \in DisplayInfo
    BY <1>9, EnsuredTyped DEF StartSwitch, Enter
  <2>2. i' \in 1 .. Len(machine.modes) + 1
    BY <1>0, <1>9 DEF StartSwitch
  <2> QED BY <1>9, <2>1, <2>2 DEF StartSwitch, Enter
<1>10. CASE StartHack
  <2>1. info' \in DisplayInfo
    BY <1>10, EnsuredTyped DEF StartHack, Enter
  <2> QED BY <1>10, <2>1 DEF StartHack, Enter
<1>11. CASE Restarted
  <2>1. info' \in DisplayInfo
    BY <1>11 DEF Restarted, Zeroed, DisplayInfo, Formats
  <2>2. mode' \in Modes /\ live' \in Geometry
    BY <1>11, TruthTyped DEF Restarted
  <2>3. i' \in 1 .. Len(machine.modes) + 1
    BY <1>0, <1>11 DEF Restarted
  <2> QED BY <1>11, <2>1, <2>2, <2>3 DEF Restarted
<1>12. CASE UNCHANGED vars
  BY <1>12 DEF vars
<1> QED
  BY <1>1, <1>2, <1>3, <1>4, <1>5, <1>6, <1>7, <1>8, <1>9, <1>10, <1>11, <1>12 DEF AnyStep, Step

-----------------------------------------------------------------------------

(* What the head of the two routines does, by adapter. *)
LEMMA Entered ==
  ASSUME TypeOK, Cached, where \in {"idle", "done"},
         NEW routine, NEW start, Enter(routine, start)
  PROVE  /\ call' = routine /\ machine' = machine /\ mode' = mode /\ live' = live
         /\ IsGOP => where' = start /\ info' = FromLive(live)
         /\ ~IsGOP => where' = "done" /\ info'.protocol # "GOP" /\ info'.initialized
<1>1. IsGOP => Ensured = FromLive(live)
  <2>1. CASE where = "idle"
    BY <2>1 DEF Cached, Ensured, Detected, Zeroed, IsGOP
  <2>2. CASE where = "done"
    BY <2>2 DEF Cached, Ensured, FromLive
  <2> QED BY <2>1, <2>2
<1>2. ~IsGOP => Ensured.protocol # "GOP" /\ Ensured.initialized
  <2>1. CASE where = "idle"
    BY <2>1, EnsuredTyped DEF Cached, Zeroed, IsGOP
  <2>2. CASE where = "done"
    BY <2>2, EnsuredTyped DEF Cached, IsGOP
  <2> QED BY <2>1, <2>2
<1>3. FromLive(live).protocol = "GOP"
  BY DEF FromLive
<1> QED BY <1>1, <1>2, <1>3 DEF Enter, screen

LEMMA InitInv == Init => IInv
<1> SUFFICES ASSUME Init PROVE IInv
  OBVIOUS
<1>1. machine.modes[mode] \in ModeRecord /\ machine.modes[mode].stride >= machine.modes[mode].h
  BY ModeTyped DEF Init
<1>2. Described
  <2>1. live.stride = machine.modes[mode].stride /\ live.h = machine.modes[mode].h
    BY DEF Init, Truth
  <2>2. live.stride = 1 * machine.modes[mode].stride /\ 1 \in Nat
    BY <1>1, <2>1 DEF ModeRecord
  <2> QED BY <1>1, <2>1, <2>2 DEF Init, Described, ModeRecord
<1> QED BY <1>2, InitTyped DEF Init, IInv, Places, Cached, Tried

LEMMA PlacesKept ==
  ASSUME IInv, [AnyStep]_vars
  PROVE  Places'
<1> USE DEF IInv, Places, IsGOP
<1>1. CASE Step
  BY <1>1 DEF Step, QueryFails, SkipMode, Passed, SetModeFails, SetModeWorks, ScanEnds,
              Refresh, ScaleUp, ApplyHack, Overwrite, Scanning, screen
<1>2. CASE StartSwitch
  BY <1>2, Entered DEF StartSwitch
<1>3. CASE StartHack
  BY <1>3, Entered DEF StartHack
<1>4. CASE Restarted
  BY <1>4 DEF Restarted
<1>5. CASE UNCHANGED vars
  BY <1>5 DEF vars, screen
<1> QED BY <1>1, <1>2, <1>3, <1>4, <1>5 DEF AnyStep

LEMMA CachedKept ==
  ASSUME IInv, [AnyStep]_vars
  PROVE  Cached'
<1> USE DEF IInv, Cached, IsGOP, FromLive
<1>1. CASE QueryFails \/ SkipMode \/ SetModeFails \/ SetModeWorks \/ ScanEnds \/ ScaleUp
  BY <1>1 DEF QueryFails, SkipMode, Passed, SetModeFails, SetModeWorks, ScanEnds,
              ScaleUp, Scanning, screen
<1>2. CASE Refresh
  BY <1>2 DEF Refresh, screen, Places
<1>3. CASE ApplyHack
  BY <1>3 DEF ApplyHack, Overwrite, Places
<1>4. CASE StartSwitch
  BY <1>4, Entered DEF StartSwitch
<1>5. CASE StartHack
  BY <1>5, Entered DEF StartHack
<1>6. CASE Restarted
  BY <1>6 DEF Restarted
<1>7. CASE UNCHANGED vars
  BY <1>7 DEF vars, screen
<1> QED BY <1>1, <1>2, <1>3, <1>4, <1>5, <1>6, <1>7 DEF AnyStep, Step

(* The description of a mode just set, and of one the hack rewrote. *)
LEMMA TruthDescribed ==
  ASSUME machine \in Machines, NEW m \in Modes
  PROVE  /\ Truth(m).stride >= Truth(m).h /\ Truth(m).stride > 0
         /\ \E k \in Nat : Truth(m).stride = k * machine.modes[m].stride
<1>1. machine.modes[m] \in ModeRecord /\ machine.modes[m].stride >= machine.modes[m].h
  BY ModeTyped
<1>2. Truth(m).stride = machine.modes[m].stride /\ Truth(m).h = machine.modes[m].h
  BY DEF Truth
<1>3. Truth(m).stride = 1 * machine.modes[m].stride /\ 1 \in Nat
  BY <1>1, <1>2 DEF ModeRecord
<1> QED BY <1>1, <1>2, <1>3 DEF ModeRecord

LEMMA ScaledMultiple ==
  ASSUME NEW s \in Nat, NEW k \in Nat, NEW n \in Nat
  PROVE  k * n \in Nat /\ (k * s) * n = (k * n) * s
OBVIOUS

LEMMA DescribedKept ==
  ASSUME IInv, [AnyStep]_vars
  PROVE  Described'
<1> USE DEF Described, IsGOP
<1>0. TypeOK /\ Places /\ Described
  BY DEF IInv
<1>1. CASE QueryFails \/ SkipMode \/ SetModeFails \/ ScanEnds \/ ScaleUp \/ Refresh
  BY <1>0, <1>1 DEF QueryFails, SkipMode, Passed, SetModeFails, ScanEnds, Refresh,
              ScaleUp, Scanning, screen, Places
<1>2. CASE SetModeWorks
  <2>1. i \in Modes
    BY <1>0, <1>2, ModeTyped DEF SetModeWorks, Scanning, TypeOK, Modes
  <2>2. where' = "refresh" /\ machine' = machine /\ mode' = i /\ live' = Truth(i)
    BY <1>2 DEF SetModeWorks
  <2> QED BY <1>0, <2>1, <2>2, TruthDescribed DEF TypeOK
<1>3. CASE ApplyHack
  <2>1. /\ machine' = machine /\ mode' = mode
        /\ live'.h = Width /\ live'.v = Height /\ live'.stride = live.stride * scale
        /\ live.stride * scale >= Width
    BY <1>0, <1>3 DEF ApplyHack, Overwrite, TypeOK, Geometry
  <2>2. machine.modes[mode].stride \in Nat
    BY <1>0, ModeTyped DEF TypeOK, ModeRecord
  <2>3. ASSUME machine.adapter = "GOP"
        PROVE  \E k \in Nat : live'.stride = k * machine.modes[mode].stride
    <3>1. PICK k \in Nat : live.stride = k * machine.modes[mode].stride
      BY <1>0, <2>3
    <3>2. k * scale \in Nat /\ live'.stride = (k * scale) * machine.modes[mode].stride
      BY <1>0, <2>1, <2>2, <3>1, ScaledMultiple DEF TypeOK
    <3> QED BY <3>2
  <2>4. Width > 0
    BY ResolutionAssumption
  <2>5. live'.stride \in Nat /\ live'.stride >= live'.h /\ live'.stride > 0
    <3>1. live.stride * scale \in Nat
      BY <1>0 DEF TypeOK, Geometry
    <3> QED BY <2>1, <2>4, <3>1, ResolutionAssumption
  <2> QED BY <2>1, <2>3, <2>5
<1>4. CASE StartSwitch
  <2>1. call' = "switch"
    BY <1>4 DEF StartSwitch, Enter
  <2> QED BY <1>0, <1>4, <2>1 DEF StartSwitch, Enter, screen
<1>5. CASE StartHack
  <2>1. /\ UNCHANGED screen
        /\ machine.adapter = "GOP" => where' = "scale"
    BY <1>5, Entered DEF StartHack, IInv, Enter
  <2> QED BY <1>0, <2>1 DEF screen
<1>6. CASE Restarted
  <2>1. machine' = machine /\ call' = "none"
    BY <1>6 DEF Restarted
  <2>2. CASE UNCHANGED <<mode, live>>
    BY <1>0, <2>1, <2>2
  <2>3. CASE \E m \in Modes : mode' = m /\ live' = Truth(m)
    BY <1>0, <2>1, <2>3, TruthDescribed DEF TypeOK
  <2> QED BY <1>6, <2>2, <2>3 DEF Restarted
<1>7. CASE UNCHANGED vars
  BY <1>0, <1>7 DEF vars, screen
<1> QED BY <1>1, <1>2, <1>3, <1>4, <1>5, <1>6, <1>7 DEF AnyStep, Step

LEMMA TriedKept ==
  ASSUME IInv, [AnyStep]_vars
  PROVE  Tried'
<1> USE DEF Tried, AllRefused, IsGOP, Usable
<1>0. TypeOK /\ Places /\ Cached /\ Tried
  BY DEF IInv
<1>1. Modes = 1 .. Len(machine.modes) /\ Len(machine.modes) \in Nat /\ i \in Nat
  BY <1>0, ModeTyped DEF TypeOK
<1>2. CASE QueryFails \/ SkipMode \/ SetModeFails
  <2>1. /\ where' = "scan" /\ where = "scan" /\ UNCHANGED <<machine, call>>
        /\ i' = i + 1 /\ refused \subseteq refused'
        /\ i \in refused' \/ ~Usable(i)
    BY <1>2 DEF QueryFails, SkipMode, Passed, SetModeFails, Scanning, screen
  <2>2. call' # "hack"
    BY <1>0, <2>1 DEF Places
  <2>3. Modes' = Modes
    BY <2>1 DEF Modes
  <2>4. ASSUME machine.adapter = "GOP", NEW m \in Modes, m < i + 1, Usable(m)
        PROVE  m \in refused'
    BY <1>0, <1>1, <2>1, <2>4
  <2> QED BY <2>1, <2>2, <2>3, <2>4
<1>3. CASE SetModeWorks
  <2>1. i \in Modes
    BY <1>0, <1>1, <1>3 DEF SetModeWorks, Scanning, TypeOK
  <2>2. live'.h = Width /\ live'.v = Height
    BY <1>3, <2>1 DEF SetModeWorks, Truth
  <2>3. where' = "refresh" /\ call' # "hack"
    BY <1>0, <1>3 DEF SetModeWorks, Places, Scanning
  <2> QED BY <2>2, <2>3
<1>4. CASE ScanEnds
  <2>1. /\ where = "scan" /\ i > Len(machine.modes) /\ where' = "refresh" /\ call' # "hack"
        /\ UNCHANGED <<machine, refused>>
    BY <1>0, <1>4 DEF ScanEnds, Places, screen
  <2>2. machine.adapter = "GOP" => AllRefused
    BY <1>0, <1>1, <2>1
  <2> QED BY <2>1, <2>2 DEF Modes
<1>5. CASE Refresh
  BY <1>0, <1>5 DEF Refresh, Places, screen, Modes
<1>6. CASE ScaleUp \/ ApplyHack
  BY <1>0, <1>6 DEF ScaleUp, ApplyHack, Overwrite, Places, screen, Modes
<1>7. CASE StartSwitch
  <2>1. call' = "switch" /\ i' = 1 /\ (machine'.adapter = "GOP" => where' = "scan")
    BY <1>0, <1>7, Entered DEF StartSwitch
  <2>2. machine' = machine
    BY <1>7 DEF StartSwitch, Enter, screen
  <2>3. \A m \in Modes' : ~(m < i')
    BY <1>1, <2>1, <2>2 DEF Modes
  <2> QED BY <2>1, <2>3
<1>8. CASE StartHack
  <2>1. /\ UNCHANGED <<machine, refused, live>>
        /\ machine.adapter = "GOP" => where' = "scale"
    BY <1>0, <1>8, Entered DEF StartHack
  <2>2. machine.adapter = "GOP" => live.h # Width \/ live.v # Height
    BY <1>0, <1>8 DEF StartHack, MatchCurrentResolution, Cached, FromLive
  <2>3. machine.adapter = "GOP" => AllRefused
    BY <1>0, <1>8, <2>2 DEF StartHack
  <2> QED BY <2>1, <2>3 DEF Modes
<1>9. CASE Restarted
  BY <1>9 DEF Restarted
<1>10. CASE UNCHANGED vars
  BY <1>0, <1>10 DEF vars, screen, Modes
<1> QED BY <1>2, <1>3, <1>4, <1>5, <1>6, <1>7, <1>8, <1>9, <1>10 DEF AnyStep, Step

LEMMA InvKept ==
  ASSUME IInv, [AnyStep]_vars
  PROVE  IInv'
BY StepTyped, PlacesKept, CachedKept, DescribedKept, TriedKept DEF IInv

LEMMA InvHolds == Spec => []IInv
<1>1. IInv /\ [Next]_vars => IInv'
  BY InvKept DEF Next, NewRun, AnyStep
<1> QED BY InitInv, <1>1, PTL DEF Spec

-----------------------------------------------------------------------------

(* Every variable keeps to its type: neither the loop over the modes nor   *)
(* the scaling loop leaves its range, whatever tables the firmware has.    *)
THEOREM TypeCorrect == Spec => []TypeOK
<1>1. IInv => TypeOK
  BY DEF IInv
<1> QED BY InvHolds, <1>1, PTL

(* When UefiMain goes on after SwitchVideoMode and ForceVideoModeHack with *)
(* a GOP, mDisplayInfo is what the adapter says, has the wanted resolution *)
(* and scan lines that hold a row.                                         *)
THEOREM ReadyGeometryHolds == Spec => []ReadyGeometry
<1>1. IInv => ReadyGeometry
  <2> SUFFICES ASSUME IInv, Ready, IsGOP
               PROVE  /\ info = FromLive(live)
                      /\ info.h = Width /\ info.v = Height /\ info.stride >= Width
    BY DEF ReadyGeometry, IsGOP
  <2>1. info = FromLive(live)
    BY DEF IInv, Cached, Ready
  <2>2. info.h = live.h /\ info.v = live.v /\ info.stride = live.stride
    BY <2>1 DEF FromLive
  <2>3. live.h = Width /\ live.v = Height
    BY <2>2 DEF IInv, Described, Ready, MatchCurrentResolution
  <2>4. live.stride >= live.h
    BY DEF IInv, Described
  <2> QED BY <2>1, <2>2, <2>3, <2>4
<1> QED BY InvHolds, <1>1, PTL

(* ForceVideoModeHack runs only after the firmware refused every mode of   *)
(* the wanted resolution in a format the program can use.                  *)
THEOREM HackOnlyAsLastResort == Spec => []HackIsLastResort
<1>1. IInv => HackIsLastResort
  BY DEF IInv, Tried, AllRefused, IsGOP, HackIsLastResort
<1> QED BY InvHolds, <1>1, PTL

LEMMA MultipleLeavesNothing ==
  ASSUME NEW s \in Nat \ {0}, NEW k \in Nat
  PROVE  (k * s) % s = 0
OBVIOUS

(* A described scan line is a whole number of real ones, however many      *)
(* starts have overwritten the description.                                *)
THEOREM ScanlinesStayAligned == Spec => []ScanlinesAlign
<1>1. IInv => ScanlinesAlign
  <2> SUFFICES ASSUME IInv, IsGOP
               PROVE  live.stride % machine.modes[mode].stride = 0
    BY DEF ScanlinesAlign, IsGOP
  <2>1. machine.modes[mode].stride \in Nat \ {0}
    BY ModeTyped DEF IInv, TypeOK, ModeRecord
  <2>2. PICK k \in Nat : live.stride = k * machine.modes[mode].stride
    BY DEF IInv, Described
  <2> QED BY <2>1, <2>2, MultipleLeavesNothing
<1> QED BY InvHolds, <1>1, PTL
===============================================================================
