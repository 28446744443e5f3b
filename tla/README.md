# UefiSeven: a TLA+ model

UefiSeven is a UEFI application that runs before the Windows 7 boot manager.
Windows 7 calls the legacy video interrupt, int 10h, which UEFI class 3 machines
do not have; UefiSeven writes a small handler (the *shim*) into the VGA ROM area
at 0xC0000, describes the screen in it, points vector 10h of the real mode
interrupt vector table (IVT) at it and starts the boot manager. This directory
holds TLA+ modules of the program, configurations that check them with TLC, and
proofs for the TLA+ proof system.

Source paths below are relative to `src/UefiSevenPkg/Platform/UefiSeven/`.

## The system

| Part | Source | State | Operations |
|---|---|---|---|
| Installation flow | `UefiSeven.c` `UefiMain` | the IVT entry 10h, the ROM, settings, `mVerboseMode`, `mEfiFilePath`, `IvtAllocationStatus` | claim the IVT page, configure, set the mode, detect, unlock, copy, fill, lock, point the vector, check, launch |
| Memory lock | `UefiSeven.c` `EnsureMemoryLock`, `CanWriteAtAddress` | chipset write forwarding, fixed MTRRs, the probed byte | probe, legacy region, legacy region 2, MTRR |
| Display | `Display.c` | `mDisplayInfo`, the adapter's `GOP->Mode` | `InitializeDisplay`, `SwitchVideoMode`, `ForceVideoModeHack`, `MatchCurrentResolution` |
| VESA information | `UefiSeven.c` `ShimVesaInformation` | the two VBE blocks at the head of the shim | fill in |
| Handler detection | `UefiSeven.c` `IsInt10hHandlerDefined` | none | look at vector and first opcode |
| Handler shim | `Int10hHandler.asm`, `.h` | registers, stack, the caller's buffer | VBE functions 00, 01, 02, 03, 10, 15 and legacy set mode |
| Launch | `Filesystem.c` `Launch`, `CheckBootMgrGuid` | image handle, loaded image, scan position | load, check, prompt, start |
| Files, paths | `Filesystem.c` | open handles, pool memory | read, delete, exists, file information; change extension, same directory |
| Settings, log | `UefiSeven.c` `ReadConfig`, `UefiMain` | `mSkipErrors`, `mForceFakeVesa`, `mVerboseMode`, `mLogToFile` | read ini, fall back to marker files, open the log |
| Messages, keyboard | `UefiSeven.c` `PrintFuncNameMessage`, `WaitForEnter` | the keyboard buffer, the console's mode, the log | print, wait, look for a key |
| Console switching | `Display.c` `SwitchToMode` | text or graphics | switch |
| Image drawing | `Display.c`, `ShowAnimatedLogo` | images in pool memory | import a bitmap, centre, draw, animate (the call in `UefiMain` is commented out) |

Everything runs on one thread. `UefiMain` calls the other parts in a fixed order
and they share globals (`mDisplayInfo`, the settings) and physical memory (ROM,
IVT). The interesting concurrency is with things that are not the program: the
firmware, whose calls fail, partly succeed or report success wrongly; the user,
who may or may not press Enter; Windows, which later enters the handler in any
register state; and *earlier starts of the program*, which return to the firmware
with memory changed and are started again.

What is hard, and what correctness means for each part:

* **Memory lock.** Return values of the firmware are deliberately ignored
  and a write probe decides. The status must be exact, the probe must be
  transparent (the byte may belong to a native ROM), and no setting may change
  once the area is as requested.
* **Display.** A cached copy of the adapter's description is refreshed by hand
  after a loop with several failure paths and after a routine that overwrites the
  adapter's own description. The cache must agree with the adapter when the VESA
  information is computed from it.
* **Installation flow.** Many early exits, most of them after something has
  already been changed. A native handler must survive, the vector must only ever
  lead to a complete shim, and no failure may keep the boot manager from starting.
* **VESA information.** 16-bit and 32-bit fields; the address of every pixel must
  come out as where the adapter put it.
* **Handler shim.** Hand-balanced stack in machine code, with the caller's
  direction flag and registers to be preserved.
* **Files and launch.** Ownership of handles and pool memory on error paths, settings
  that must not be mixed from two sources, pointers and handles that are used
  although a failed call never set them, and a scan that must not leave the image.
* **Messages and keyboard.** One console switched between text and graphics by
  two parts of the program, keys typed before anything asked for them, and a key
  that is compared although reading it may have failed.
* **Drawing.** Bitmaps from a file: padded lines stored bottom up, sizes that need
  not match, frames cut from a longer image.

## Modules

| Module | Models | Kind |
|---|---|---|
| `RegionLock` | what `EnsureMemoryLock` promises its caller | abstract specification |
| `MemoryLock` | `EnsureMemoryLock` and `CanWriteAtAddress`, one action per probe half, protocol call or MTRR call | detailed specification |
| `MemoryLockProofs` | the invariants of `MemoryLock` and its refinement of `RegionLock` | proofs |
| `Display`, `MC_Display` | detection, mode switching and the hack of `Display.c` | detailed specification, TLC instance |
| `DisplayProofs` | the invariants of `Display` | proofs |
| `VesaInfo` | the arithmetic of `ShimVesaInformation` | operators |
| `Chainload` | what a start promises about the boot manager | abstract specification |
| `UefiSeven`, `MC_UefiSeven` | `UefiMain`, composing `Display`, `VesaInfo` and `RegionLock` | composition, TLC instance |
| `UefiSevenProofs` | the invariants of `UefiSeven`, its refinement of `RegionLock` and `Chainload` | proofs |
| `ScreenProofs` | `VbeDescribesScreen`, from the invariants of `Display` and `UefiSeven` together; the causes of the divergences | proofs |
| `VbeService` | the service the handler's comments describe | abstract specification |
| `Int10hHandler`, `MC_Int10hHandler` | the handler's machine code and the instructions it uses | detailed specification, TLC instance |
| `Int10hProofs` | the stack's shape at each address; the refinement of `VbeService` | proofs |
| `Paths` | the path functions of `Filesystem.c`, and what they should mean | operators |
| `Filesystem` | `FileExists`, `FileDelete`, `FileRead`, `GetFileInfo`, one action per firmware call | detailed specification |
| `BootFiles`, `MC_BootFiles` | `ReadConfig`, the log, `Launch` and the cleanup, composing `Filesystem` and `Paths` | composition, TLC instance |
| `BootFilesProofs` | what the path functions compute; the invariants of `BootFiles`, its refinement of `Chainload` | proofs |
| `Console` | messages, prompts, keys and the console's mode | detailed specification |
| `Drawing`, `MC_Drawing` | the animated logo, composed with `Console` | composition, TLC instance |
| `DrawingProofs`, `DrawingGeometry` | the invariants of `Console` and `Drawing`; the bounds of import and drawing and what the pictures show | proofs |

`UefiMain` is seen three ways: `UefiSeven` has memory and display, `BootFiles` has
files and launch, `Console` has prompts and keys. What one view leaves to another is
one step in it (`Work` in `BootFiles` is the installation) or a free choice (the
outcome of the launch in `UefiSeven`). `UefiSeven` and `BootFiles` meet in
`Chainload`: both implement it, each under its own mapping.

### MemoryLock and RegionLock

`pam` says, per lockable block, whether the chipset forwards writes; `mtrr` is the
cache type of the fixed range; a write persists if the first allows it and the
second is not write-protected. `stage` is the position in `EnsureMemoryLock`
(`Check` is the opening test, then one stage per mechanism), `probing` the position
in `CanWriteAtAddress`, which takes two steps: remember and store, then compare and
restore. `UseProtocol` lets a mechanism change any subset of the blocks, which
covers partial success and a wrong success; `UseMtrr` may have no effect. The
caller's part (`CallUnlock`, `WriteRom`, `CallLock`) is what `UefiMain` does:
unlock, rewrite after success, lock.

The probe uses a plain pointer. A compiler that optimises may answer it without
touching memory, and `ReadsBack` says whether the build kept the accesses. The
build the README of the repository documents (GCC49, no optimisation flag) keeps
them; toolchains listed in the same `tools_def.txt` with `-Os` need not.

`RegionLock` is the promise: while a call is busy and the first byte is not as
requested, blocks may change in the requested direction only; the result says
whether it ended as requested; content survives. `MemoryLock` implements it
under `writable <- {b : Writable(b)}` and `content <- byteAtCall` while a call is
busy, and `UefiSeven` is built on `RegionLock`'s actions, not on `MemoryLock`'s.

### Display

`mode` is what the hardware scans out, `live` is `GOP->Mode` (which the hack
overwrites without touching the hardware), `info` is `mDisplayInfo`. A mode is a
width, a height, a pixel format and a scan line length. `SwitchVideoMode` is
`StartSwitch`, one of `QueryFails`, `SkipMode`, `SetModeFails`, `SetModeWorks` per
turn of the loop, `ScanEnds` and `Refresh`; `ForceVideoModeHack` is `StartHack`, one `ScaleUp` per turn
of its loop and `ApplyHack`. `Restarted` is a new start of the application: fresh
globals, the adapter as it was left or set to a mode by the firmware meanwhile.
`UGA without mode` is a UGA adapter whose `GetMode` fails.

### UefiSeven

`pc` is the position in `UefiMain`; `prompt` is the reason it waits for Enter, or
`none`. Of the ROM three places matter: the shim's entry, the VBE blocks before it
(`Inside`) and the rest (`Tail`), which a partly successful unlock may leave read-only. Each
holds native code, a protective opcode, the shim as compiled in, or VBE data: all of it, or
`partial`, the part `ShimVesaInformation` has written when it finds a pixel format it cannot
describe and returns. `Serves` counts only a shim with all of it. `vbe` is the mode information
last written, with `layout = "none"` when it broke off.
Vector 10h leads to one of the places or outside the ROM area. `HandlerDefined` is
`IsInt10hHandlerDefined`: nondeterministic for VBE data, whose first byte may or
may not look like a protective opcode. `RunAgain` starts the program once more over the memory the
last start left. `filled`, `told`, `acked` and `found` are history variables for
the properties and are never read by an action.

The display routines are the actions of an instance of `Display`, so a run of
`UefiSeven` interleaves nothing with them but takes each of their steps. The
settings are constant through a behaviour and of any value.

`Chainload` is what is promised about Windows whatever becomes of the installation:
a boot manager is looked for after the installation, started at most once, and only by
a start that knows its own path. The mapping takes the stage from `pc` and leaves
out the prompts.

### Paths, Filesystem and BootFiles

A path is a sequence of backslashes, dots and other characters. `LastIndexOf` is the
downward loop with its quirk of stopping at index 0 whatever is there, and
`ChangeExtension` accepts a dot in a directory name. `Directory` and
`Stem` say what was meant, without indices.

`Filesystem` has one routine under way at a time; each firmware call in it is an
action that works and one that fails. `handles`, `infos` and `buffers` count what is
open or allocated; `contents` tells a caller's pointer that was set from one that was
not. `stray` is a history variable: something never set was used. `faulted` is
another: a call failed that could have worked, as opposed to a file not being there.

`BootFiles` calls these routines for the ini file, the three marker files, the log
and the boot manager, each at the path `Paths` computes. `NameOf` is the file a
path leads to, so a wrongly computed path finds another file or none. `Launch` is
`ImageNotLoaded`, `ImageDistrusted` (a security status with a loaded image) or
`ImageLoaded`, then `HandleRefused` or `HandleAstray` when the handle was not set,
then the scan of `CheckBootMgrGuid` one word a step, refusal or `Boots`, and what
follows a boot manager that comes back. `strings` counts the paths of `UefiMain` and
`ReadConfig`; `devicePath` is the device path `Launch` makes for `LoadImage` and never frees.

### Console and Drawing

`keys` is what was typed and not read; `Type` may happen at any moment. `prompt` is
`none`, `asked` (the message is out) or `waiting` (the keyboard was reset, if it could be). `control` is the mode of the console, or `none` without the
Console Control protocol. `ReadNothing` is a `ReadKeyStroke` that fails and leaves
`Key` as it was. `place` says
whether `UefiMain` is before its look for V (`start`), before its look for F8
(`main`), in the launch or gone; between the two looks there is any number of messages (`Message`) and
prompts (`Ask`).

`Drawing` is the logo from `BmpFileToImage` to `DestroyImage`: `CopyLine` per line of
the bitmap, `ClearScreen`, `PlaceImage`, `DrawFrame` per frame. Pixels are not
values; `rows` says which byte of the file each line of the image came from and `blit`
which rectangle of the image went where on the screen. The call in `UefiMain` is
commented out, so `NoLogo` skips it; the code is in the program all the same. `LogoUnread` is
a bitmap that cannot be read: `FileRead` may then free `BmpFileContents`, which was never set
(`stray`).

### Int10hHandler and VbeService

`Code` is the release build's machine code at its addresses in `Int10hHandler.h`: a
set of instructions, each with its offset and the offset of the next, with jump
targets as assembled, so jump offsets and fall-through are part of what
is checked. `Execute(c)` is the processor at instruction `c`. The processor is modelled as far as the code uses it: the registers
pushed, copied or returned, the zero and the direction flag, and a stack of words.
`rep movsb` is one step that records source, destination and length with its
sign. A caller may have anything in its registers and on its stack, but does not run in the
shim's own segment (`RequestsAssumption`). `VbeService` has one action per documented function that returns, and `Hang`
for anything else: the handler loops on unknown requests. A hung call never
returns, in the code as in the model.

## Runs

| Run | Checks | Outcome |
|---|---|---|
| `memory_lock` | `TypeOK`, `StatusExact`, `ProbeTransparent`, `NoNeedlessChange`, `KeepsPromise` | pass, 8 448 states |
| `memory_lock_folded` | `StatusExact` with the probe folded by the compiler | violated |
| `memory_lock_beyond` | `OnlyRequestedArea` | violated |
| `display` | `TypeOK`, `ReadyGeometry`, `ScanlinesAlign`, `HackIsLastResort`, `RoutinesReturn` | pass |
| `display_workable` | `WorkableScreen` | violated |
| `uefimain` | `TypeOK` and five invariants, `VectorAfterFill`, `RomWrittenUnlocked`, `EndsOrAsks`, `KeepsPromise` | pass, 1.1 million states |
| `uefimain_accepted` | `AcceptedHandlerServes` | violated |
| `uefimain_forced` | `OverwrittenIsReplaced` | violated |
| `uefimain_stale` | `AcceptedNeedsNothing` | violated |
| `int10h` | `TypeOK`, `StackRestored`, `ImplementsService` | pass, 3 816 states |
| `bootfiles` | `TypeOK`, seven invariants, `ScanStaysInside`, `Ends`, `KeepsPromise` | pass, 0.5 million states |
| `drawing` | `TypeOK`, `MemoryRespected`, `PicturesFaithful`, `PromptIsSeen`, `OnlyEnterAnswers`, `EnterEndsPrompt` | pass, 0.2 million states |

### What the passing runs show

* `memory_lock`: whichever mechanisms exist and whatever they do, `EFI_SUCCESS`
  is returned exactly when the first byte is as requested, in a build that keeps the
  probe; each probe restores its byte also when the increment wraps; and the
  refinement of `RegionLock` holds with liveness.
* `display`: after `SwitchVideoMode` and, where needed, `ForceVideoModeHack`, the
  cache equals what the adapter says, the resolution is the wanted one, and a
  described scan line is a whole number of real ones also after several starts.
  The hack only runs if every usable mode was refused.
* `uefimain`: a native handler is preserved unless `force_fakevesa` asks
  otherwise; the vector changes only after a complete installation; if no start
  reported a failure Windows gets a working int 10h; a vector that could not be
  set is acknowledged by the user; the VBE block gives the right address for every
  pixel on a GOP adapter whose frame buffer fits the VBE fields; `UefiMain` is a
  well-behaved caller of `RegionLock` and keeps `Chainload`'s promise; every run ends
  or waits at a prompt.
* `int10h`: the machine code implements `VbeService`.
* `bootfiles`: the settings are those of the ini file or of the marker files and never
  a mixture, whichever call fails; between two calls nothing is open or
  allocated but the log and contents that could not be parsed; while logging is on
  the log is an open file; a run that comes back has freed the paths `UefiMain` and
  `ReadConfig` made, closed the volume, unloaded an image it refused and, if nothing failed
  and the log is no directory, closed the log; Windows is started
  only from a loaded image that bears the mark and lies beside the program; if nothing
  fails and it is there, it is started; the scan stays in the image, also for an
  image smaller than a GUID; something that was never set is used only after a
  failure or without an image. The exceptions written into these properties are
  what the code does lose: the device path that `Launch` allocates (`Filesystem.c:472`) is
  freed on none of its returns, so `ReturnsClean` only says that a run without a boot
  manager's path has not lost one; contents that could not be parsed are not freed; and
  `FileDelete` leaves its handle open when it meets a directory or no file information.
  Something unset *is* used in the runs that `UnsetOnlyWithoutImage` admits.
  `BootedIsVerified` and `OrdinaryStartBoots` say where the boot manager lies only for a
  program whose name has an extension: without one, `ChangeExtension` looks in the wrong
  place or refuses.
* `drawing`: a prompt is never waited at in graphics mode unless the console failed,
  whatever the logo did before; a key typed too early answers nothing, a stale `Key`
  neither, and an Enter does end the prompt; the logo's import stays in the file
  and its frames in the image and on the screen; once its file has been read, each buffer
  is freed once on every path; the image is upright and each frame of a tall image is its
  own square. A read that fails may free a pointer that was never set, and ends the logo.

### What the violated runs show

* `memory_lock_folded`: an optimised build can report an unlocked ROM that is not.
* `memory_lock_beyond`: the MTRR step covers 128 KiB for a 64 KiB request, and so
  changes the write protection of 0xD0000-0xDFFFF.
* `display_workable`: the hack's frame buffer may be larger than the real one.
* `uefimain_accepted`: without `force_fakevesa`, after a start that failed to fill in the
  VESA information, a vector that already led to the place of the shim's entry makes a
  second start accept the unfinished shim.
* `uefimain_forced`: the same failure after `force_fakevesa` erased a native ROM.
* `uefimain_stale`: a second start that switches the display to a better mode
  accepts the first start's shim, which still describes the old scan line.

### Bounds

* `MemoryLock`: two blocks in the area and one beyond it are enough for a
  mechanism to work on the probed block, on another one, on both or on none. Three
  byte values give a wrap and two increments that do not.
* `MC_Display`: the wanted resolution is 4 by 3. The mode tables have the wanted
  mode first, last, twice, only in an unusable format, and not at all; scan lines
  are as wide as the mode or padded; the narrowest mode needs three turns of the
  scaling loop.
* `MC_UefiSeven`: one machine per outcome of the display routines and of
  `ShimVesaInformation`, with `W16 = 64`, `W32 = 1024`, `Bank = 16` for 2^16, 2^32 and
  64 KiB, so that a scan line can be too long for its field. `MaxRuns = 2`: the second start meets
  everything the first can leave; a third would start from the same states.
* `MC_Int10hHandler`: 13 values of AX, with near misses of the known functions,
  4 of CX, 2 of BX, both direction flags; every other register has a value of its own, so any
  exchange shows.
* `MC_BootFiles`: every own path of up to four characters (backslash, dot, another), which
  has every order of the last slash and the last dot and each of them missing or at index
  0. On one path, volumes with a file, a directory or nothing as ini file and log,
  with and without the marker files. Boot managers with the mark inside, with marks only
  at odd offsets and at the end, with the wrong subsystem, smaller than a GUID, and empty.
  `Word = 2`, `GuidSize = 4` for 8 and 16; `ImageBase = 5` is larger than a GUID, as
  `SizesAssumption` says of every address at which firmware loads.
* `MC_Drawing`: `MaxKeys = 2` typed ahead is one that answers and one that must not. Images
  of 0 to 5 pixels a side have every padding of a line and every remainder of the longer
  side; files are exact, a byte short, or shorter than the header; the screens are odd
  and even, larger and smaller than the frames. `HeaderSize = 54`, as in the code;
  `Word32 = 2^20` for 2^32.

### Fairness

The program is straight-line code the firmware runs to completion, so weak fairness
of its own steps is justified: `WF_vars(Step)` in `MemoryLock`, `Display` and
`Int10hHandler`, `WF_vars(Program)` in `UefiSeven`, `WF_vars(Next)` in `BootFiles`. In
`Drawing` typing is the user's, so only the logo and, at a prompt, `Wait` and
`ReadKeyStroke` are fair: the firmware signals a key that is there. No firmware call is assumed
to succeed, the user is not assumed to press Enter, and no caller is assumed to call.
`uefimain` is checked without deadlock detection since Windows takes over
(`booted`) or the firmware does not start the program again; `bootfiles` for the
same reason (one start), and `drawing` because it stops when the dialogue is over or
the user has typed `MaxKeys` keys and none is Enter.

## Proofs

What follows is proved for every value of the constants that satisfies the module's
named assumptions: any blocks and width of a byte, adapters with any mode table, any wanted
resolution, any field widths, bitmaps and screens of any size, any number of starts, callers
of int 10h with anything in their registers and on their stack, paths of any length, any
volume, ini file and boot manager. Every safety property of a passing run is a theorem.

| Module | Theorem | States | Assumes |
|---|---|---|---|
| `MemoryLockProofs` | `TypeCorrect` | `Spec => []TypeOK` | |
| | `ProbeIsTransparent` | `Spec => []ProbeTransparent` | |
| | `StatusIsExact` | `Spec => []StatusExact` | `ReadsBack` |
| | `SettingsChangeOnlyIfNeeded` | `Spec => NoNeedlessChange` | `ReadsBack` |
| | `ImplementsRegionLock` | `Spec => Abstract!Behaviour` | `ReadsBack` |
| `DisplayProofs` | `TypeCorrect` | `Spec => []TypeOK` | |
| | `ReadyGeometryHolds` | `Spec => []ReadyGeometry` | |
| | `HackOnlyAsLastResort` | `Spec => []HackIsLastResort` | |
| | `ScanlinesStayAligned` | `Spec => []ScanlinesAlign` | |
| `UefiSevenProofs` | `NativeIsPreserved` | `Spec => []NativePreserved` | |
| | `SilenceMeansService` | `Spec => []SilentMeansServed` | |
| | `MispointingIsAcknowledged` | `Spec => []MispointingAcknowledged` | |
| | `SkipIsUnattended` | `Spec => []SkipMeansUnattended` | |
| | `VectorOnlyAfterFill` | `Spec => VectorAfterFill` | |
| | `RomIsWrittenUnlocked` | `Spec => RomWrittenUnlocked` (refines `RegionLock`) | |
| | `PromiseIsKept` | `Spec => KeepsPromise` (refines `Chainload`) | |
| `ScreenProofs` | `TypeCorrect` | `Spec => []TypeOK` | |
| | `ScreenIsDescribed` | `Spec => []VbeDescribesScreen` | |
| | `AcceptedServesIfShimmable` | `Spec /\ []Shimmable => []AcceptedHandlerServes` | |
| | `AcceptedServesOnPlainScreens` | `Spec => []AcceptedHandlerServes` | every machine has an adapter, every mode a BGR or RGB format |
| | `OverwrittenReplacedIfCompletable` | `Spec /\ []Completable => []OverwrittenIsReplaced` | |
| | `AcceptedNeedsNothingOnSameScreen` | `Spec /\ [][SameScreen]_vars => []AcceptedNeedsNothing` | |
| `DrawingProofs` | `TypeCorrect` | `Spec => []TypeOK` | |
| | `PromptsAreSeen` | `Spec => []PromptIsSeen` | |
| | `OnlyEnterEndsPrompt` | `Spec => OnlyEnterAnswers` | |
| `DrawingGeometry` | `MemoryIsRespected` | `Spec => []MemoryRespected` | |
| | `PicturesAreFaithful` | `Spec => []PicturesFaithful` | |
| `Int10hProofs` | `TypeCorrect` | `Spec => []TypeOK` | |
| | `StackIsRestored` | `Spec => []StackRestored` | |
| | `ServiceIsImplemented` | `Spec => Service!Behaviour` (refines `VbeService`) | |
| `BootFilesProofs` | `SameDirectory` | `GetFilenameInSameDirectory` is `Directory` and the new name if there is a backslash, and refuses if not | a path that is not empty |
| | `OtherExtension` | `ChangeExtension` is `Stem` and the new extension if a dot comes after the first character, and refuses if not | a path that is not empty |
| | `TypeCorrect` | `Spec => []TypeOK` | |
| | `OneSource` | `Spec => []SettingsFromOneSource` | |
| | `NothingLeft` | `Spec => []NothingLeftBetweenCalls` | |
| | `LogCanBeWritten` | `Spec => []LogIsAnOpenFile` | |
| | `CleanReturn` | `Spec => []ReturnsClean` | |
| | `OnlyVerifiedBoots` | `Spec => []BootedIsVerified` | |
| | `GenuineBoots` | `Spec => []OrdinaryStartBoots` | |
| | `UnsetRarelyUsed` | `Spec => []UnsetOnlyWithoutImage` | |
| | `ScanInside` | `Spec => ScanStaysInside` | |
| | `PromiseIsKept` | `Spec => KeepsPromise` (refines `Chainload`) | |

**Memory lock.** Two inductive invariants. `ProbeTransparent` speaks only of
moments between probes; to carry it through a probe, `IInv` adds *where* a probe can
be under way (`ProbeSites`) and *what the byte and `oldValue` hold* in the middle of it
(`ProbeBytes`): `oldValue` is the byte at the call, and the byte is its successor
exactly if the store took effect. That the successor of a byte value is another
byte value (`IncrementChanges`) is where `ByteValues > 1` is needed; it makes the
comparison equal to writability (`ProbeTells`). `ExactInv` adds that while a call is
past its probe and not done, the area is not as requested (`NotYetAchieved`), which
gives the exact status, the absence of needless changes and, step by step, the
refinement. `StatusIsExact` without `ReadsBack` is false: `memory_lock_folded` is
the counterexample.

**Display.** `ReadyGeometry` speaks only of the moment `UefiMain` goes on. `IInv` says
what holds on the way: which positions are possible with which protocol (`Places`), when
the cache equals the adapter's description and when it is allowed to lag (`Cached`), that
a description that was overwritten still is a multiple of what the hardware has
(`Described`), and that every usable mode before the loop's index was refused
(`Tried`). Each step lemma is stated for `AnyStep`, which lets a new start happen at
*any* position, more than `Display` itself does, so that the composition can
use it.

**UefiMain.** `IInv` places each prompt (`PromptsPlaced`), says what a protocol call has
to have done by which position (`Calls`), how far memory has been changed at each
position (`Progress`), and carries one part per property. The part behind
`SilentMeansServed` (`Silence`) says for every position what is in the ROM and where the
vector leads as long as nothing was reported, over all earlier starts.
`NativeIsPreserved` needs `PathFirst`: nothing is touched before the own path is known.
The two refinements follow from `IInv` step by step.

**The screen in the VBE block.** `ScreenProofs` composes the two: `DisplayProofs` is
instantiated with `UefiSeven`'s display (`DP`), a step of `UefiMain` is an `AnyStep` of
`Display` or leaves the display alone, so `Display`'s invariant holds in `UefiSeven`.
Between them stands `Settled`: once the display routines are over, the description the
VBE block was filled from is the adapter's. Arithmetic then gives the address of each
pixel. The proof would not go through at first: a frame buffer of less than
4 GiB by less than one 64 KiB bank needs 65 536 banks, which is zero in the 16-bit
field. `FitsVbe` therefore excludes that edge, which TLC's instances do not contain.

**The causes of the divergences.** A run that expects a violation shows one behaviour. The last
part of `ScreenProofs` shows that it is the only kind there is, over any number of starts. An accepted
handler does not answer only where `ShimVesaInformation` gave up, in this start or an earlier
one (`Whole`: as long as it does not, code of the shim never lies in the ROM without complete
VBE data outside of the stretch between copying and filling in). It gives up for two reasons:
no adapter is found, or the pixel format is none that VBE can describe
(`AcceptedServesOnPlainScreens` excludes both by the machines alone). A native handler is lost to `force_fakevesa` only if, after the erasure, the
pixel format cannot be described or the vector not be set (`Completable`). An accepted shim
misleads Windows only if mode or description changed since the VBE data was completed (`SameScreen`).

**Console and drawing.** The difficulty of `PromptIsSeen` is that the logo changes the
console between two prompts; `DrawingProofs` shows that the logo runs only where nothing
is asked (`LogoAlone`) and that a prompt that waits has switched to text since
(`PromptPrepared`). `OnlyEnterAnswers` needs that a key compared at a prompt was typed
after the buffer was reset (`PressedNoted`). `DrawingGeometry` is about numbers: a padded line
is a multiple of four that holds three bytes a pixel, so the one check of the
file's size covers each line read; a centred frame that fits is on the screen; a frame
before the last whole one ends inside the image. `Pictures` adds where each line of the file
has gone so far: the copy runs upwards in the file and downwards in the image, so after `y`
lines the last `y` lines of the image are in place (`LineGoesBelow`). With the buffer's lines
as long as a frame is wide, the pixel of a row and column comes out by quotient and remainder
(`PlaceInLine`).

**The handler.** `StackRestored` speaks of the caller's side only. `IInv` (`Running`) says for
each offset of the code, block by block, which words the shim has pushed, which
registers still hold what the caller had in them, what the zero flag tells and what is known
of the request because of the comparisons passed. The stack is given as a sequence, not by
its depth: a pop restores the right register only if the words come back in order. There
is one lemma for each instruction (`PushMoves`, `PopMoves`, ...) and one for each block. The two blocks
that copy are the same code at two places, and share `SavingStep` and `CopyingStep`.
In `ServiceIsImplemented` every instruction is a stutter of `VbeService` but three kinds:
`int`, which is its `Call`, the jump to the endless loop, and `iret`, where the
registers are compared with the answer of the function that was asked for. It must be
assumed that no caller runs in the shim's segment (`RequestsAssumption`): else the model could not
tell the two sides apart.

**Files and launch.** The path functions come first. What `LastIndexOf` computes is shown
without induction over the recursive function: its value at an index is the largest place at or
below where the character is, or 0 (`Found`), because a smallest index at which it were not
would have a smaller one (`Least`, from well-founded minima). `SameDirectory` and `OtherExtension` follow for every
path that is not empty. `OtherExtension` knows nothing of file names, as the code does not: if the
only dot is in a directory's name, what it keeps ends in that name. For a program whose file
name has a dot (`OwnExtension`), it is the dot meant. So it is known where the ini file, the
log and the boot manager are looked for.
`IInv` of `BootFiles` has a part for each concern: which routine may run where (`Calling`), what its
answer tells of the volume (`Answered`), what is open and allocated at each
stage of each routine (`Handles`, `Memory`, `Strings`), when a device path has been lost
(`Lost`), how far the settings have come
(`Chosen`), what the handle refers to (`Image`), what the scan has passed (`Passed`), that a
genuine boot manager is still on its way (`Hopeful`), and when something unset was used
(`Strays`). Each part has a lemma of its own that goes through the actions. `OrdinaryStartBoots` needs
`Passed`: no aligned mark lies before the scan's place, so with a mark in the image
the scan cannot run out of it. Before it was proved, `IInv` was checked with TLC on the
run's instance.

Only model-checked: liveness, that is the liveness half of `memory_lock`'s `KeepsPromise`,
`RoutinesReturn`, `EndsOrAsks`, `Ends`, `EnterEndsPrompt` and the return of
`ImplementsService`; fairness and ENABLED are beyond the provers used.

## Not modelled

* `FileWrite`, `GetBaseFilename`, `StrToLowercase`: nothing calls them. The ini parser is
  EDK II's and external: it parses a file or not, and turns on some settings.
* Wording, colours and layout of messages, the text of the log; the DEBUG build of the
  handler; the build configuration, except that it decides whether the compiler keeps
  the probe's accesses (`ReadsBack`).
* Constant fields, strings and far pointers of the VBE blocks.
* Firmware, adapters, chipset and MTRR library: external, modelled by what the
  code can observe of them. The CPU's caches are not: a probe's write is seen at once.
* An alias of the shim's entry (the same physical address through another
  segment) is not told from the entry itself.
* Adapters that report a scan line of zero pixels: `ForceVideoModeHack` would not
  end. `MachinesAssumption` excludes them, so `RoutinesReturn` says nothing of them.
* What Windows sees of a scan line or a frame buffer address that does not fit its VBE field:
  the description is wrong whatever the code does, and `FitsVbe` leaves the case out.
* The screen a UGA adapter describes: it has no frame buffer address, and when
  it is smaller than 1024 by 768 the unsigned difference in `ShimVesaInformation`
  (`UefiSeven.c:137`) wraps. `VesaInfo` computes the wrapped value; no property can be
  stated about it.
* The status of `SwitchVideoMode` (`Display.c:297`): it is that of the last mode it asked
  about and may be `EFI_SUCCESS` without a switch. `UefiMain` ignores it.
* Animations laid out left to right: `DrawImage` draws them with `Delta` 0
  (`Display.c:743`), which takes the lines of the image to be as long as the frame, so
  every frame of such an image is garbled. `PicturesFaithful` is stated for tall and
  square images. The logo's call is commented out.
* Bitmaps so wide that `3 * Width` wraps in 32 bits (`Display.c:564`): `CreateImage` would
  have to find more than 5 GiB for one line first. `ScenesAssumption` leaves them out.

## Plan

1. The causes of the two other divergences: `OnlyRequestedArea` and the MTRR step,
   `WorkableScreen` and the hack.
2. The ranking functions of the loops (modes, scaling, scan, lines, frames) as action properties.
