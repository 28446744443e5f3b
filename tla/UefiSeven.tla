------------------------------ MODULE UefiSeven ------------------------------
(***************************************************************************)
(* UefiMain of UefiSeven.c: one run claims the interrupt vector table,     *)
(* brings the screen to 1024x768, and, unless a handler is already there,  *)
(* unlocks the VGA ROM area, writes the shim into it, fills in the VBE     *)
(* information, locks the area, points vector 10h at the shim and starts   *)
(* the Windows boot manager.  Any part may fail; a run that comes back to  *)
(* the firmware may be started again over what it left in memory.          *)
(*                                                                         *)
(* The display routines are Display's own actions.  EnsureMemoryLock is    *)
(* what RegionLock promises of it, which MemoryLock implements.            *)
(***************************************************************************)
EXTENDS Integers, Sequences

CONSTANTS
  Width, Height, Machines,  \* as in Display
  W16, W32, Bank,           \* as in VesaInfo
  MaxRuns                   \* starts of the application in one boot session

ASSUME RunsAssumption == MaxRuns \in Nat \ {0}
ASSUME WidthsAssumption == {Width, Height, W16, W32, Bank} \subseteq Nat \ {0}

VARIABLES
  machine, mode, live, info, call, where, i, status, scale, refused,  \* Display
  writable, rom, op, phase, result,                                   \* RegionLock
  skip, force,   \* skiperrors and force_fakevesa of UefiSeven.ini
  pc,            \* where UefiMain stands
  prompt,        \* the prompt waiting for Enter, or "none"
  pathKnown,     \* mEfiFilePath # NULL; the settings are read right after
  verbose,       \* mVerboseMode
  claimed,       \* IvtAllocationStatus is a success
  ivt,           \* where vector 10h points
  vbe,           \* the VBE mode information last filled in, in whole or in part
  run,           \* which start of the application this is
  filled,        \* history: this run completed the shim
  told,          \* history: a failure to install was reported since the machine was reset
  acked,         \* history: this run's prompt about the vector was answered
  found          \* history: ROM and vector at the start of this run

display == <<machine, mode, live, info, call, where, i, status, scale, refused>>
region == <<writable, rom, op, phase, result>>
settings == <<skip, force>>
session == <<pathKnown, verbose, claimed, run, found>>
history == <<filled, told, acked>>
vars == <<display, region, settings, session, history, pc, prompt, ivt, vbe>>

(* What of the VGA ROM area matters: the shim's entry point, a place in    *)
(* the VBE blocks before it, and a place past the end of the shim.         *)
Locations == {"Entry", "Inside", "Tail"}
Block == [Entry |-> "head", Inside |-> "head", Tail |-> "rest"]

(* A place holds code of a real VGA ROM, a protective opcode, the shim as  *)
(* it is compiled in, or VBE data written over it: all of it, or only what *)
(* comes before the layout of a pixel.                                     *)
Content == {"native", "protective", "shim", "partial", "vbe"}

(* Vector 10h leads outside the ROM area or to one of the places.          *)
Targets == Locations \cup {"Outside"}

D == INSTANCE Display

(* The machines Display is about; an INSTANCE does not assume it anew.     *)
ASSUME MachinesAssumption ==
  \A m \in Machines :
    /\ m.adapter \in D!Adapters
    /\ m.modes \in Seq(D!ModeRecord) /\ m.modes # <<>>
    /\ \A k \in DOMAIN m.modes : m.modes[k].stride >= m.modes[k].h
    /\ m.base \in Nat

V == INSTANCE VesaInfo
R == INSTANCE RegionLock WITH
       Blocks <- {"head", "rest"}, StartBlock <- "head",
       Contents <- [Locations -> Content], content <- rom

(* What IsInt10hHandlerDefined may answer: VBE data may begin with a       *)
(* protective opcode or not.                                               *)
HandlerDefined(contents, target) ==
  IF target = "Outside" THEN {FALSE}
  ELSE CASE contents[target] = "protective" -> {FALSE}
         [] contents[target] \in {"partial", "vbe"} -> BOOLEAN
         [] OTHER -> {TRUE}

(* A call of int 10h through this vector gets an answer: from the ROM the  *)
(* machine came with, or from a shim at its entry point whose VBE data is  *)
(* complete.                                                               *)
Serves(contents, target) ==
  /\ target # "Outside"
  /\ \/ contents[target] = "native"
     \/ target = "Entry" /\ contents["Entry"] = "shim" /\ contents["Inside"] = "vbe"

-----------------------------------------------------------------------------

NoInfo == [lfb |-> 0, pitch |-> 0, memory |-> 0, layout |-> "none"]

Init ==
  /\ D!Init
  /\ writable \in SUBSET {"head", "rest"}
  /\ rom \in [Locations -> {"native", "protective"}]
  /\ rom["Entry"] = rom["Inside"]
  /\ op = "UNLOCK" /\ phase = "idle" /\ result = "ERROR"
  /\ skip \in BOOLEAN /\ force \in BOOLEAN
  /\ ivt \in Targets
  /\ pc = "entry" /\ prompt = "none"
  /\ pathKnown = FALSE /\ verbose = FALSE /\ claimed = FALSE
  /\ vbe = NoInfo
  /\ run = 1
  /\ filled = FALSE /\ told = FALSE /\ acked = FALSE
  /\ found = [rom |-> rom, ivt |-> ivt]

(* UefiMain is at this point and not inside WaitForEnter. *)
At(point) == pc = point /\ prompt = "none"

Go(point) == pc' = point /\ UNCHANGED prompt

(* Go on after a message, waiting for Enter unless skiperrors is set; the  *)
(* mutant forgets skiperrors.                                              *)
GoAskingAlways(point, reason) ==
  /\ pc' = point
  /\ prompt' = reason

GoAsking(point, reason) ==
  /\ pc' = point
  /\ prompt' = IF skip THEN "none" ELSE reason

(* An error message that the shim could not be installed as intended. *)
Tell == told' = TRUE

(* FreePages and AllocatePages on the page of the vector table. *)
Claim ==
  /\ At("entry") /\ Go("setup")
  /\ claimed' \in BOOLEAN
  /\ UNCHANGED <<display, region, settings, pathKnown, verbose, run, found,
                 history, ivt, vbe>>

(* Loaded image, file system, volume or own path are not to be had. *)
SetupFails ==
  /\ At("setup") /\ Go("exit")
  /\ Tell
  /\ UNCHANGED <<display, region, settings, session, filled, acked, ivt, vbe>>

(* The settings are read; a 'v' already typed also sets verbose mode, and  *)
(* verbose mode begins with a prompt.                                      *)
Configure ==
  /\ At("setup")
  /\ pc' = "switch"
  /\ pathKnown' = TRUE
  /\ verbose' \in BOOLEAN
  /\ prompt' = IF verbose' THEN "verbose" ELSE "none"
  /\ UNCHANGED <<display, region, settings, claimed, run, found, history, ivt, vbe>>

(* SwitchVideoMode, MatchCurrentResolution and ForceVideoModeHack.         *)
SwitchVideoMode ==
  /\ At("switch") /\ Go("switching")
  /\ D!StartSwitch
  /\ UNCHANGED <<region, settings, session, history, ivt, vbe>>

DisplayStep ==
  /\ pc \in {"switching", "hacking"} /\ prompt = "none"
  /\ D!Step
  /\ UNCHANGED <<region, settings, session, history, pc, prompt, ivt, vbe>>

ResolutionMatches ==
  /\ At("switching") /\ where = "done" /\ D!MatchCurrentResolution
  /\ Go("detect")
  /\ UNCHANGED <<display, region, settings, session, history, ivt, vbe>>

ResolutionDiffers ==
  /\ At("switching") /\ where = "done" /\ ~D!MatchCurrentResolution
  /\ GoAsking("hack", "resolution")
  /\ UNCHANGED <<display, region, settings, session, history, ivt, vbe>>

ForceVideoModeHack ==
  /\ At("hack") /\ Go("hacking")
  /\ D!StartHack
  /\ UNCHANGED <<region, settings, session, history, ivt, vbe>>

HackDone ==
  /\ At("hacking") /\ where = "done"
  /\ Go("detect")
  /\ UNCHANGED <<display, region, settings, session, history, ivt, vbe>>

(* An existing handler ends the run here; the mutant goes on regardless.   *)
InstallRegardless ==
  /\ At("detect")
  /\ Go("unlock")
  /\ UNCHANGED <<display, region, settings, session, history, ivt, vbe>>

AcceptHandler ==
  /\ At("detect") /\ ~force /\ TRUE \in HandlerDefined(rom, ivt)
  /\ Go("exit")
  /\ UNCHANGED <<display, region, settings, session, history, ivt, vbe>>

Install ==
  /\ At("detect") /\ (force \/ FALSE \in HandlerDefined(rom, ivt))
  /\ Go("unlock")
  /\ UNCHANGED <<display, region, settings, session, history, ivt, vbe>>

(* EnsureMemoryLock, called twice; after a failed UNLOCK the run is given  *)
(* up, where a mutant tries again.                                         *)
EnsureMemoryLock(point, operation, next) ==
  /\ At(point) /\ Go(next)
  /\ R!Begin(operation)
  /\ UNCHANGED <<display, settings, session, history, ivt, vbe>>

Unlock == EnsureMemoryLock("unlock", "UNLOCK", "unlocking")
Lock == EnsureMemoryLock("lock", "LOCK", "locking")

RegionStep ==
  /\ R!Work \/ R!Finish
  /\ UNCHANGED <<display, settings, session, history, pc, prompt, ivt, vbe>>

UnlockRetried ==
  /\ At("unlocking") /\ phase = "done" /\ result = "ERROR"
  /\ Go("unlock")
  /\ Tell
  /\ UNCHANGED <<display, region, settings, session, filled, acked, ivt, vbe>>

UnlockFailed ==
  /\ At("unlocking") /\ phase = "done" /\ result = "ERROR"
  /\ Go("exit")
  /\ Tell
  /\ UNCHANGED <<display, region, settings, session, filled, acked, ivt, vbe>>

(* ZeroMem and CopyMem, once the area is unlocked; only what can be        *)
(* written changes.  The mutant does not wait for the unlocking to work.   *)
Erasing ==
  /\ At("unlocking")
  /\ Go("fill")
  /\ rom' = [l \in Locations |->
               IF Block[l] \notin writable THEN rom[l]
               ELSE IF l = "Tail" THEN "protective" ELSE "shim"]
  /\ UNCHANGED <<display, writable, op, phase, result, settings, session, history,
                 ivt, vbe>>

EraseUnasked == phase = "done" /\ Erasing
Erase == phase = "done" /\ result = "SUCCESS" /\ Erasing

(* ShimVesaInformation: it returns before the first write, or when only    *)
(* address, scan line and memory have been written, or at its end.  The    *)
(* mutant goes on after the failure to describe the pixel format.          *)
FillUnavailable ==
  /\ At("fill") /\ ~V!Found(info)
  /\ Go("exit")
  /\ Tell
  /\ UNCHANGED <<display, region, settings, session, filled, acked, ivt, vbe>>

FillUnsupportedThen(next) ==
  /\ At("fill") /\ V!Found(info) /\ ~V!Describable(info)
  /\ Go(next)
  /\ rom' = [rom EXCEPT !["Inside"] = "partial"]
  /\ vbe' = [V!ModeInfo(info) EXCEPT !.layout = "none"]
  /\ Tell
  /\ UNCHANGED <<display, writable, op, phase, result, settings, session, filled,
                 acked, ivt>>

FillUnsupportedGoesOn == FillUnsupportedThen("lock")
FillUnsupported == FillUnsupportedThen("exit")

Fill ==
  /\ At("fill") /\ V!Found(info) /\ V!Describable(info)
  /\ Go("lock")
  /\ rom' = [rom EXCEPT !["Inside"] = "vbe"]
  /\ vbe' = V!ModeInfo(info)
  /\ filled' = TRUE
  /\ UNCHANGED <<display, writable, op, phase, result, settings, session, told,
                 acked, ivt>>

(* The result of locking is not looked at. *)
Locked ==
  /\ At("locking") /\ phase = "done"
  /\ Go("vector")
  /\ UNCHANGED <<display, region, settings, session, history, ivt, vbe>>

(* Vector 10h is pointed at the shim if its page could be claimed; the     *)
(* mutant takes the mode information for the end of it.                    *)
PointVectorAt(target) ==
  /\ At("vector") /\ claimed
  /\ Go("sanity")
  /\ ivt' = target
  /\ UNCHANGED <<display, region, settings, session, history, vbe>>

PointVectorInside == PointVectorAt("Inside")
PointVector == PointVectorAt("Entry")

VectorAlreadyThere ==
  /\ At("vector") /\ ~claimed /\ ivt = "Entry"
  /\ Go("sanity")
  /\ UNCHANGED <<display, region, settings, session, history, ivt, vbe>>

VectorWrongSilently ==
  /\ At("vector") /\ ~claimed /\ ivt # "Entry"
  /\ Go("sanity")
  /\ Tell
  /\ UNCHANGED <<display, region, settings, session, filled, acked, ivt, vbe>>

VectorWrong ==
  /\ At("vector") /\ ~claimed /\ ivt # "Entry"
  /\ GoAsking("sanity", "vector")
  /\ Tell
  /\ UNCHANGED <<display, region, settings, session, filled, acked, ivt, vbe>>

(* The double check. *)
SanityPassed ==
  /\ At("sanity") /\ TRUE \in HandlerDefined(rom, ivt)
  /\ Go("exit")
  /\ UNCHANGED <<display, region, settings, session, history, ivt, vbe>>

SanityFailed ==
  /\ At("sanity") /\ FALSE \in HandlerDefined(rom, ivt)
  /\ GoAsking("exit", "sanity")
  /\ Tell
  /\ UNCHANGED <<display, region, settings, session, filled, acked, ivt, vbe>>

(* Exit: look for the Windows boot manager.  Its prompt is not skipped.    *)
FindBootManager ==
  /\ At("exit")
  /\ pc' = "f8"
  /\ \E exists \in BOOLEAN :
       prompt' = IF pathKnown /\ exists THEN "none" ELSE "bootmgr"
  /\ UNCHANGED <<display, region, settings, session, history, ivt, vbe>>

(* F8 has been pressed, which only matters outside verbose mode, or not.   *)
LookForF8 ==
  /\ At("f8")
  /\ pc' = "launch"
  /\ prompt' \in IF verbose THEN {"none"} ELSE {"none", "f8"}
  /\ UNCHANGED <<display, region, settings, session, history, ivt, vbe>>

(* Launch: without a path it is not called; an image that does not load or *)
(* is not the boot manager is refused.  It is called also when the boot    *)
(* manager was not found, and may have appeared during the prompt.         *)
LaunchRefused ==
  /\ At("launch")
  /\ Go("returned")
  /\ UNCHANGED <<display, region, settings, session, history, ivt, vbe>>

LaunchPrepared ==
  /\ At("launch") /\ pathKnown
  /\ pc' = "start"
  /\ prompt' = IF verbose THEN "start" ELSE "none"
  /\ UNCHANGED <<display, region, settings, session, history, ivt, vbe>>

(* StartImage hands over to Windows or comes back; a mutant then loads the *)
(* boot manager once more.                                                 *)
Boot ==
  /\ At("start") /\ Go("booted")
  /\ UNCHANGED <<display, region, settings, session, history, ivt, vbe>>

StartFailedThen(next) ==
  /\ At("start") /\ Go(next)
  /\ UNCHANGED <<display, region, settings, session, history, ivt, vbe>>

StartRetried == StartFailedThen("launch")
StartFailed == StartFailedThen("returned")

Program ==
  \/ Claim \/ SetupFails \/ Configure
  \/ SwitchVideoMode \/ DisplayStep \/ ResolutionMatches \/ ResolutionDiffers
  \/ ForceVideoModeHack \/ HackDone
  \/ AcceptHandler \/ Install
  \/ Unlock \/ RegionStep \/ UnlockFailed \/ Erase
  \/ FillUnavailable \/ FillUnsupported \/ Fill
  \/ Lock \/ Locked
  \/ PointVector \/ VectorAlreadyThere \/ VectorWrong
  \/ SanityPassed \/ SanityFailed
  \/ FindBootManager \/ LookForF8 \/ LaunchRefused \/ LaunchPrepared
  \/ Boot \/ StartFailed

(* WaitForEnter returns. *)
Enter ==
  /\ prompt # "none"
  /\ prompt' = "none"
  /\ acked' = (acked \/ prompt = "vector")
  /\ UNCHANGED <<display, region, settings, session, filled, told, pc, ivt, vbe>>

(* The firmware starts the application again in the same boot session: the *)
(* globals are fresh, memory is as it was left.                            *)
RunAgain ==
  /\ pc = "returned" /\ run < MaxRuns
  /\ run' = run + 1
  /\ pc' = "entry"
  /\ pathKnown' = FALSE /\ verbose' = FALSE /\ claimed' = FALSE
  /\ filled' = FALSE /\ acked' = FALSE
  /\ found' = [rom |-> rom, ivt |-> ivt]
  /\ D!Restarted
  /\ UNCHANGED <<region, settings, told, prompt, ivt, vbe>>

Next == Program \/ Enter \/ RunAgain

(* The firmware runs the application without pause; nothing makes the user *)
(* press Enter.                                                            *)
Spec == Init /\ [][Next]_vars /\ WF_vars(Program)

-----------------------------------------------------------------------------

Points == {"entry", "setup", "switch", "switching", "hack", "hacking", "detect",
           "unlock", "unlocking", "fill", "lock", "locking", "vector", "sanity",
           "exit", "f8", "launch", "start", "returned", "booted"}
Prompts == {"verbose", "resolution", "vector", "sanity", "bootmgr", "f8", "start"}

TypeOK ==
  /\ D!TypeOK
  /\ writable \subseteq {"head", "rest"}
  /\ rom \in [Locations -> Content]
  /\ op \in R!Operations /\ phase \in {"idle", "busy", "done"}
  /\ result \in {"SUCCESS", "ERROR"}
  /\ {skip, force, pathKnown, verbose, claimed, filled, told, acked} \subseteq BOOLEAN
  /\ pc \in Points /\ prompt \in Prompts \cup {"none"}
  /\ ivt \in Targets
  /\ vbe \in [lfb : 0 .. W32 - 1, pitch : 0 .. W16 - 1, memory : 0 .. W16 - 1,
              layout : D!Formats \cup {"none"}]
  /\ run \in 1 .. MaxRuns
  /\ found \in [rom : [Locations -> Content], ivt : Targets]

(* Unless force_fakevesa is set, a run that finds a handler it accepts     *)
(* beyond doubt leaves the ROM and the vector as it found them, whatever   *)
(* the display routines and the rest of the run do.                        *)
NativePreserved ==
  ~force /\ HandlerDefined(found.rom, found.ivt) = {TRUE}
    => rom = found.rom /\ ivt = found.ivt

(* The vector is pointed at the shim only when the shim is in the ROM and  *)
(* its VBE information was filled in by this run: the writes took effect   *)
(* because EnsureMemoryLock's EFI_SUCCESS can be trusted.                  *)
VectorAfterFill == [][ivt' # ivt => filled /\ Serves(rom, "Entry")]_vars

(* If no run since the machine was reset reported a failure to install the *)
(* shim, Windows is started with a working int 10h: native or the shim.    *)
SilentMeansServed == pc = "booted" /\ ~told => Serves(rom, ivt)

(* Without skiperrors, Windows is never started over a shim that vector    *)
(* 10h does not lead to before the user has been asked.                    *)
MispointingAcknowledged ==
  pc = "booted" /\ filled /\ ivt # "Entry" /\ ~skip => acked

(* What a completed shim tells Windows is where the adapter says the       *)
(* pixels are, for every pixel, if the adapter is a GOP and its frame      *)
(* buffer within reach of the VBE fields; until this run's application     *)
(* ends nothing moves the screen away from it again.                       *)
VbeDescribesScreen ==
  filled /\ machine.adapter = "GOP" /\ V!FitsVbe(live) => V!Describes(vbe, live)

(* With skiperrors and outside verbose mode only F8 or a missing boot      *)
(* manager can make the program wait.                                      *)
SkipMeansUnattended ==
  skip /\ ~verbose => prompt \in {"none", "f8", "bootmgr"}

(* The ROM is written only between a successful UNLOCK and the next call   *)
(* of EnsureMemoryLock: UefiMain is a well-behaved caller of RegionLock.   *)
RomWrittenUnlocked == R!Behaviour

(* A run always gets to its end or to a prompt: a failure on the way never *)
(* keeps the boot manager from being looked for.                           *)
EndsOrAsks == []<>(pc \in {"booted", "returned"} \/ prompt # "none")

(* Seen from the boot manager, a start keeps the promise that its work     *)
(* with files keeps as well: whatever becomes of the installation, Windows *)
(* is started once, late, and by a program that knows its own path.        *)
Stage ==
  CASE pc \in {"entry", "setup"} -> "starting"
    [] pc = "exit" -> "leaving"
    [] pc \in {"f8", "launch"} -> "launching"
    [] pc = "start" -> "accepted"
    [] pc = "booted" -> "booted"
    [] pc = "returned" -> "over"
    [] OTHER -> "installing"
Promise == INSTANCE Chainload WITH stage <- Stage, known <- pathKnown
KeepsPromise == Promise!Behaviour

(* The comment where UefiMain looks for a handler: "If an Int10h handler   *)
(* exists there either is a real VGA ROM in operation or we installed the  *)
(* shim before."  It looks unless force_fakevesa is set, and accepts what  *)
(* it finds.                                                               *)
AcceptedHandlerServes ==
  At("detect") /\ ~force /\ HandlerDefined(rom, ivt) = {TRUE} => Serves(rom, ivt)

(* UefiSeven.ini of force_fakevesa: "overwrite Int10h handler with         *)
(* fakevesa even when the native handler is present".  A handler that was  *)
(* overwritten has been replaced.                                          *)
OverwrittenIsReplaced ==
  pc = "booted" /\ force /\ Serves(found.rom, found.ivt) => Serves(rom, ivt)

(* The message when it finds one: "Int10h already has a handler, no        *)
(* further action required".  So Windows, started over a shim an earlier   *)
(* start completed and this one accepted, is told where the screen is.     *)
AcceptedNeedsNothing ==
  pc = "booted" /\ ~filled
      /\ rom = found.rom /\ Serves(rom, ivt) /\ ivt = "Entry" /\ rom["Entry"] = "shim"
      /\ machine.adapter = "GOP" /\ V!FitsVbe(live)
    => V!Describes(vbe, live)
===============================================================================
