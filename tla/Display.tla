------------------------------- MODULE Display -------------------------------
(***************************************************************************)
(* The video side of Display.c: SwitchVideoMode looks for a mode of the    *)
(* wanted resolution, and where that did not help ForceVideoModeHack       *)
(* rewrites the adapter's own description of its mode.  Both leave their   *)
(* view of the screen in the global mDisplayInfo, from which the VBE       *)
(* information is filled in later.                                         *)
(*                                                                         *)
(* Sizes are in pixels; the program multiplies by four bytes throughout.   *)
(***************************************************************************)
EXTENDS Integers, Sequences

CONSTANTS
  Width, Height,  \* the resolution asked for; 1024 and 768 in UefiMain
  Machines        \* the machines considered: [adapter, modes, base]

Adapters == {"GOP", "UGA", "UGA without mode", "NONE"}
Formats == {"BGR", "RGB", "other"}

(* What a mode of the firmware's table looks like. *)
ModeRecord == [h : Nat \ {0}, v : Nat \ {0}, format : Formats, stride : Nat \ {0}]

ASSUME ResolutionAssumption == Width \in Nat \ {0} /\ Height \in Nat \ {0}
ASSUME MachinesAssumption ==
  \A m \in Machines :
    /\ m.adapter \in Adapters
    /\ m.modes \in Seq(ModeRecord) /\ m.modes # <<>>
    /\ \A k \in DOMAIN m.modes : m.modes[k].stride >= m.modes[k].h
    /\ m.base \in Nat

VARIABLES
  machine,   \* the adapter and the modes its firmware offers
  mode,      \* the mode the hardware scans out
  live,      \* GOP->Mode: what the adapter says of its current mode
  info,      \* mDisplayInfo
  call,      \* the routine running or last run: "none", "switch", "hack"
  where,     \* how far it has come
  i,         \* the mode SwitchVideoMode looks at
  status,    \* Status of the call
  scale,     \* ScanlineScale
  refused    \* history: modes this SwitchVideoMode failed to query or set

screen == <<machine, mode, live>>
vars == <<screen, info, call, where, i, status, scale, refused>>

Modes == DOMAIN machine.modes
Error == {"DEVICE_ERROR", "UNSUPPORTED"}

(* GOP->Mode after the firmware set mode m. *)
Truth(m) ==
  LET r == machine.modes[m]
  IN  [h |-> r.h, v |-> r.v, format |-> r.format, stride |-> r.stride,
       size |-> r.stride * r.v, base |-> machine.base]

(* mDisplayInfo before InitializeDisplay, and when no adapter was found. *)
Zeroed == [initialized |-> FALSE, protocol |-> "NONE", h |-> 0, v |-> 0,
           format |-> "RGB", stride |-> 0, size |-> 0, base |-> 0]
NotFound == [Zeroed EXCEPT !.initialized = TRUE]

(* mDisplayInfo filled from the GOP's own description of its mode. *)
FromLive(l) == [initialized |-> TRUE, protocol |-> "GOP", h |-> l.h, v |-> l.v,
                format |-> l.format, stride |-> l.stride, size |-> l.size,
                base |-> l.base]

(* InitializeDisplay; of a UGA adapter only the resolution is known. *)
Detected ==
  CASE machine.adapter = "GOP" -> FromLive(live)
    [] machine.adapter = "UGA" ->
         [NotFound EXCEPT !.protocol = "UGA", !.format = "BGR",
                          !.h = machine.modes[mode].h, !.v = machine.modes[mode].v]
    [] OTHER -> NotFound

(* EnsureDisplayAvailable initialises once. *)
Ensured == IF info.initialized THEN info ELSE Detected

(* MatchCurrentResolution; it has the display ensured by SwitchVideoMode. *)
MatchCurrentResolution ==
  info.protocol # "NONE" /\ info.h = Width /\ info.v = Height

(* The modes SwitchVideoMode is after. *)
Usable(m) ==
  LET r == machine.modes[m]
  IN  r.h = Width /\ r.v = Height /\ r.format \in {"BGR", "RGB"}

-----------------------------------------------------------------------------

Init ==
  /\ machine \in Machines
  /\ mode \in Modes
  /\ live = Truth(mode)
  /\ info = Zeroed
  /\ call = "none" /\ where = "idle" /\ status = "SUCCESS"
  /\ i = 1 /\ scale = 1 /\ refused = {}

(* The head both routines share: without a GOP there is nothing to do. *)
Enter(routine, start) ==
  /\ call' = routine
  /\ info' = Ensured
  /\ where' = IF info'.protocol = "GOP" THEN start ELSE "done"
  /\ status' = IF info'.protocol = "UGA" THEN "UNSUPPORTED" ELSE "DEVICE_ERROR"
  /\ UNCHANGED screen

StartSwitch ==
  /\ where = "idle"
  /\ Enter("switch", "scan")
  /\ i' = 1 /\ refused' = {}
  /\ UNCHANGED scale

(* One turn of the loop over the modes, by how it goes. *)
Scanning == where = "scan" /\ i <= Len(machine.modes)

QueryFails ==
  /\ Scanning
  /\ status' = "DEVICE_ERROR"
  /\ refused' = refused \cup {i}
  /\ i' = i + 1
  /\ UNCHANGED <<screen, info, call, where, scale>>

(* The mode is not one to switch to; a mutant counts it twice. *)
Passed(step) ==
  /\ Scanning /\ ~Usable(i)
  /\ status' = "SUCCESS"
  /\ i' = i + step
  /\ UNCHANGED <<screen, info, call, where, scale, refused>>

SkipModeTwice == Passed(2)
SkipMode == Passed(1)

SetModeFails ==
  /\ Scanning /\ Usable(i)
  /\ status' = "DEVICE_ERROR"
  /\ refused' = refused \cup {i}
  /\ i' = i + 1
  /\ UNCHANGED <<screen, info, call, where, scale>>

SetModeWorks ==
  /\ Scanning /\ Usable(i)
  /\ mode' = i /\ live' = Truth(i)
  /\ status' = "SUCCESS"
  /\ where' = "refresh"
  /\ UNCHANGED <<machine, info, call, i, scale, refused>>

(* The loop ends; a mutant stops before the last mode. *)
ScanStopsEarly ==
  /\ where = "scan" /\ i >= Len(machine.modes)
  /\ where' = "refresh"
  /\ UNCHANGED <<screen, info, call, i, status, scale, refused>>

ScanEnds ==
  /\ where = "scan" /\ i > Len(machine.modes)
  /\ where' = "refresh"
  /\ UNCHANGED <<screen, info, call, i, status, scale, refused>>

(* mDisplayInfo is read back, whether or not the mode changed. *)
RefreshForgotten ==
  /\ where = "refresh"
  /\ where' = "done"
  /\ UNCHANGED <<screen, info, call, i, status, scale, refused>>

Refresh ==
  /\ where = "refresh"
  /\ info' = FromLive(live)
  /\ where' = "done"
  /\ UNCHANGED <<screen, call, i, status, scale, refused>>

(* UefiMain falls back on the hack when the resolution does not match. *)
StartHack ==
  /\ where = "done" /\ call = "switch" /\ ~MatchCurrentResolution
  /\ Enter("hack", "scale")
  /\ scale' = 1
  /\ UNCHANGED <<i, refused>>

(* The loop that makes the scan line a multiple of the real one; a mutant  *)
(* forgets to count.                                                       *)
ScaleUpForgotten ==
  /\ where = "scale" /\ live.stride * scale < Width
  /\ scale' = scale
  /\ UNCHANGED <<screen, info, call, where, i, status, refused>>

ScaleUp ==
  /\ where = "scale" /\ live.stride * scale < Width
  /\ scale' = scale + 1
  /\ UNCHANGED <<screen, info, call, where, i, status, refused>>

(* The adapter's description is overwritten and read back. *)
Overwrite(stride) ==
  /\ where = "scale" /\ live.stride * scale >= Width
  /\ live' = [live EXCEPT !.h = Width, !.v = Height,
                          !.stride = stride, !.size = stride * Height]
  /\ info' = FromLive(live')
  /\ where' = "done"
  /\ UNCHANGED <<machine, mode, call, i, status, scale, refused>>

ApplyHackWidth == Overwrite(Width)
ApplyHack == Overwrite(live.stride * scale)

(* The program's own steps, and those of its caller. *)
Step ==
  \/ QueryFails \/ SkipMode \/ SetModeFails \/ SetModeWorks \/ ScanEnds
  \/ Refresh \/ ScaleUp \/ ApplyHack

Ready == where = "done" /\ (call = "hack" \/ MatchCurrentResolution)

(* The application returned and is started again: its globals are fresh,   *)
(* the adapter is not, unless the firmware's console set a mode meanwhile. *)
Restarted ==
  /\ info' = Zeroed
  /\ call' = "none" /\ where' = "idle"
  /\ i' = 1 /\ scale' = 1 /\ refused' = {} /\ status' = "SUCCESS"
  /\ UNCHANGED machine
  /\ \/ UNCHANGED <<mode, live>>
     \/ \E m \in Modes : mode' = m /\ live' = Truth(m)

NewRun == Ready /\ Restarted

Next == Step \/ StartSwitch \/ StartHack \/ NewRun

Spec == Init /\ [][Next]_vars /\ WF_vars(Step)

-----------------------------------------------------------------------------

Geometry ==
  [h : Nat, v : Nat, format : Formats, stride : Nat, size : Nat, base : Nat]
DisplayInfo ==
  [initialized : BOOLEAN, protocol : {"NONE", "GOP", "UGA"}, h : Nat, v : Nat,
   format : Formats, stride : Nat, size : Nat, base : Nat]

TypeOK ==
  /\ machine \in Machines /\ mode \in Modes
  /\ live \in Geometry
  /\ info \in DisplayInfo
  /\ call \in {"none", "switch", "hack"}
  /\ where \in {"idle", "scan", "refresh", "scale", "done"}
  /\ i \in 1 .. Len(machine.modes) + 1
  /\ status \in {"SUCCESS"} \cup Error
  /\ scale \in Nat \ {0}
  /\ refused \subseteq Modes

(* With a GOP, when UefiMain goes on after SwitchVideoMode and, if need    *)
(* be, ForceVideoModeHack, the cached mDisplayInfo is what the adapter     *)
(* now says, has the wanted resolution and scan lines that hold a row.     *)
ReadyGeometry ==
  Ready /\ machine.adapter = "GOP" =>
    /\ info = FromLive(live)
    /\ info.h = Width /\ info.v = Height /\ info.stride >= Width

(* A described scan line is a whole number of real ones, also after hacks  *)
(* on top of hacks in several runs: rows drawn at the described stride     *)
(* begin in the same column of the screen.                                 *)
ScanlinesAlign ==
  machine.adapter = "GOP" => live.stride % machine.modes[mode].stride = 0

(* The hack is the last resort: it runs only after the firmware refused    *)
(* every usable mode.                                                      *)
HackIsLastResort ==
  call = "hack" /\ machine.adapter = "GOP" =>
    {m \in Modes : Usable(m)} \subseteq refused

(* A routine once entered returns.                                         *)
RoutinesReturn == (where \in {"scan", "refresh", "scale"}) ~> (where = "done")

(* The prompt before the hack promises that "it will be able to provide a  *)
(* workable screen": every pixel described lies in the real frame buffer.  *)
WorkableScreen ==
  Ready /\ machine.adapter = "GOP" => live.size <= Truth(mode).size
===============================================================================
