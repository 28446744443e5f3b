------------------------------ MODULE BootFiles ------------------------------
(***************************************************************************)
(* What UefiMain does with files: it reads its settings, opens its log,    *)
(* and in the end looks for the Windows boot manager, loads, examines and  *)
(* starts it and gives back what it holds.  Everything in between is one   *)
(* step here and is UefiSeven's subject; prompts are there too.            *)
(***************************************************************************)
EXTENDS Paths, FiniteSets

CONSTANTS
  Cases,     \* own path, volume, ini file and boot manager considered
  Images,    \* what LoadImage may have put into memory
  ImageBase, \* where
  Word, GuidSize  \* sizeof (VOID *) and sizeof (EFI_GUID)

Beside == {"ini", "skiperrors", "force_fakevesa", "verbose", "log"}
Names == Beside \cup {"boot", "elsewhere"}
Settings == {"skiperrors", "force_fakevesa", "verbose", "logfile"}
Markers == <<"skiperrors", "force_fakevesa", "verbose">>

VARIABLES
  case,       \* which of Cases this is
  pc,         \* where UefiMain stands
  known,      \* mEfiFilePath # NULL
  root,       \* the volume is open
  strings,    \* paths allocated and not freed, mEfiFilePath included
  settings,   \* the settings that are on
  k,          \* the marker file looked at
  logHandle,  \* mLogFileHandle # NULL
  handle,     \* FileImageHandle: "unset", "image" or "other"
  image,      \* what became of the image
  looked,     \* the loaded image the handle leads to
  address,    \* the place CheckBootMgrGuid looks at
  devicePath, \* FilePathOnDevice is allocated and not freed
  volume, handles, infos, buffers, contents, routine, name, at, answer,
  stray, faulted  \* Filesystem

F == INSTANCE Filesystem

files == <<volume, handles, infos, buffers, contents, routine, name, at, answer, stray>>
program == <<known, root, strings, settings, k, logHandle>>
launching == <<handle, image, looked, address, devicePath>>
vars == <<case, pc, program, launching, files, faulted>>

ASSUME CasesAssumption ==
  \A c \in Cases :
    /\ c.path \in Seq(STRING) /\ c.path # <<>>
    /\ c.files \in [Names -> F!Kinds]
    /\ c.asked \subseteq Settings /\ c.parses \in BOOLEAN
    /\ c.boot \in Images
ASSUME ImagesAssumption ==
  \A m \in Images : m.loader \in BOOLEAN /\ m.size \in Nat /\ m.guids \subseteq Nat
ASSUME SizesAssumption ==
  Word \in Nat \ {0} /\ GuidSize \in Nat \ {0} /\ ImageBase \in Nat /\ ImageBase > GuidSize

(* The file a path leads to. *)
NameOf(path) ==
  IF \E r \in Beside : path = Directory(case.path) \o <<r>>
    THEN path[Len(path)]
  ELSE IF HasExtension(case.path) /\ path = Stem(case.path) \o <<"boot">>
    THEN "boot"
  ELSE "elsewhere"

-----------------------------------------------------------------------------

Init ==
  /\ case \in Cases
  /\ pc = "setup"
  /\ known = FALSE /\ root = FALSE /\ strings = 0
  /\ settings = {} /\ k = 1 /\ logHandle = FALSE
  /\ handle = "unset" /\ image = "none" /\ looked = case.boot /\ address = ImageBase
  /\ devicePath = FALSE
  /\ volume = case.files /\ handles = [n \in Names |-> 0]
  /\ infos = 0 /\ buffers = 0 /\ contents = "unset"
  /\ routine = "none" /\ name = "none" /\ at = "idle" /\ answer = FALSE
  /\ stray = FALSE /\ faulted = FALSE

(* UefiMain is at this point and not inside a routine of Filesystem. *)
At(point) == pc = point /\ at = "idle"
Go(point) == pc' = point /\ UNCHANGED case

(* A path is made and a routine called on the file; or no path is made,    *)
(* because it has no directory or extension or memory is out.              *)
CallOn(path, r, next) ==
  /\ path # Invalid
  /\ strings' = strings + 1
  /\ F!Begin(r, NameOf(path))
  /\ Go(next)
  /\ UNCHANGED <<volume, handles, infos, buffers, contents, stray, faulted>>

NoPath(path, next) ==
  /\ faulted' = (faulted \/ path # Invalid)
  /\ Go(next)
  /\ UNCHANGED <<files, strings>>

OwnDirectory(r) == GetFilenameInSameDirectory(case.path, <<r>>)

(* FreePool of a path. *)
Freed == strings' = strings - 1

(* A call that goes on with a file already named. *)
CallAgain(r, next) ==
  /\ F!Begin(r, name)
  /\ Go(next)

FileStep ==
  /\ F!Step
  /\ UNCHANGED <<case, pc, program, launching>>

-----------------------------------------------------------------------------
(* Own path and settings. *)

SetupFails ==
  /\ At("setup") /\ Go("exit")
  /\ root' \in BOOLEAN
  /\ faulted' = TRUE
  /\ UNCHANGED <<known, strings, settings, k, logHandle, launching, files>>

Setup ==
  /\ At("setup") /\ Go("config")
  /\ root' = TRUE /\ known' = TRUE /\ strings' = 1
  /\ UNCHANGED <<settings, k, logHandle, launching, files, faulted>>

(* ReadConfig.  When it returns FALSE the marker files are asked.  The     *)
(* mutant reads the file although it was not found.                        *)
LookForIni ==
  /\ At("config")
  /\ \/ CallOn(OwnDirectory("ini"), "FileExists", "ini")
     \/ NoPath(OwnDirectory("ini"), "marker")
  /\ UNCHANGED <<known, root, settings, k, logHandle, launching>>

IniMissingRead ==
  /\ At("ini") /\ ~answer /\ CallAgain("FileRead", "reading")
  /\ UNCHANGED <<program, launching, volume, handles, infos, buffers, contents,
                 stray, faulted>>

IniMissing ==
  /\ At("ini") /\ ~answer /\ Go("marker")
  /\ Freed
  /\ UNCHANGED <<known, root, settings, k, logHandle, launching, files, faulted>>

ReadIni ==
  /\ At("ini") /\ answer /\ CallAgain("FileRead", "reading")
  /\ UNCHANGED <<program, launching, volume, handles, infos, buffers, contents,
                 stray, faulted>>

IniRead ==
  /\ At("reading") /\ Go(IF answer THEN "parse" ELSE "marker")
  /\ Freed
  /\ UNCHANGED <<known, root, settings, k, logHandle, launching, files, faulted>>

(* OpenIniFile makes nothing of the contents, which stay allocated.        *)
Parsable == case.parses /\ volume["ini"] = "file"

IniUnparsable ==
  /\ At("parse") /\ Go("marker")
  /\ faulted' = (faulted \/ Parsable)
  /\ UNCHANGED <<program, launching, files>>

(* A mutant, as if ReadConfig had reported what only the markers say.      *)
IniParsedThen(next) ==
  /\ At("parse") /\ Parsable /\ Go(next)
  /\ settings' = case.asked
  /\ buffers' = buffers - 1
  /\ UNCHANGED <<known, root, strings, k, logHandle, launching, volume, handles,
                 infos, contents, routine, name, at, answer, stray, faulted>>

IniParsedInVain == IniParsedThen("marker")
IniParsed == IniParsedThen("log")

(* The three marker files, of which each that exists turns a setting on;   *)
(* without a path to look at, the setting stays as it is.  A mutant        *)
(* forgets to free the path.                                               *)
AfterMarker == IF k = Len(Markers) THEN "log" ELSE "marker"

LookForMarker ==
  /\ At("marker")
  /\ \/ /\ CallOn(OwnDirectory(Markers[k]), "FileExists", "marked")
        /\ UNCHANGED k
     \/ /\ NoPath(OwnDirectory(Markers[k]), AfterMarker)
        /\ k' = k + 1
  /\ UNCHANGED <<known, root, settings, logHandle, launching>>

MarkerSeen ==
  /\ At("marked") /\ Go(AfterMarker)
  /\ settings' = IF answer THEN settings \cup {Markers[k]} ELSE settings \ {Markers[k]}
  /\ k' = k + 1
  /\ UNCHANGED <<known, root, logHandle, launching, files, faulted>>

MarkerPathLeaked == MarkerSeen /\ UNCHANGED strings
MarkerLookedFor == MarkerSeen /\ Freed

-----------------------------------------------------------------------------
(* The log: the old one is deleted, a new one created, and logging is on   *)
(* again only if it turns out to be a file.                                *)

NoLog ==
  /\ At("log") /\ "logfile" \notin settings /\ Go("keys")
  /\ UNCHANGED <<program, launching, files, faulted>>

ClearLog ==
  /\ At("log") /\ "logfile" \in settings
  /\ settings' = settings \ {"logfile"}
  /\ \/ CallOn(OwnDirectory("log"), "FileDelete", "clearing")
     \/ NoPath(OwnDirectory("log"), "keys")
  /\ UNCHANGED <<known, root, k, logHandle, launching>>

CreateLog ==
  /\ At("clearing") /\ CallAgain("OpenLog", "creating")
  /\ UNCHANGED <<program, launching, volume, handles, infos, buffers, contents,
                 stray, faulted>>

LogNotOpened ==
  /\ At("creating") /\ Go("keys")
  /\ Freed
  /\ UNCHANGED <<known, root, settings, k, logHandle, launching, files, faulted>>

(* The information on the log is never freed; its handle is not closed     *)
(* when logging stays off.  A mutant does not ask for the kind of file.    *)
LogOpenedAs(usable) ==
  /\ pc = "creating" /\ at \in {"informed", "uninformed"}
  /\ at' = "idle" /\ Go("keys")
  /\ logHandle' = TRUE
  /\ settings' = IF usable THEN settings \cup {"logfile"} ELSE settings
  /\ Freed
  /\ UNCHANGED <<known, root, k, launching, volume, handles, infos, buffers,
                 contents, routine, name, answer, stray, faulted>>

LogOpenedAnyhow == LogOpenedAs(TRUE)
LogOpened == LogOpenedAs(at = "informed" /\ volume["log"] = "file")

(* 'v' was typed, and the installation follows. *)
Work ==
  /\ At("keys") /\ Go("exit")
  /\ settings' \in {settings, settings \cup {"verbose"}}
  /\ UNCHANGED <<known, root, strings, k, logHandle, launching, files, faulted>>

-----------------------------------------------------------------------------
(* Exit and Launch. *)

BootManager == ChangeExtension(case.path, <<"boot">>)

LookForBootManager ==
  /\ At("exit") /\ known
  /\ \/ CallOn(BootManager, "FileExists", "looking")
     \/ NoPath(BootManager, "cleanup")
  /\ UNCHANGED <<known, root, settings, k, logHandle, launching>>

NothingToLaunch ==
  /\ At("exit") /\ ~known /\ Go("cleanup")
  /\ UNCHANGED <<program, launching, files, faulted>>

(* Launch is called whether or not the file was found.  It makes a device  *)
(* path for the firmware, and a text of it that it frees.  LoadImage may   *)
(* load an image and still report a security violation; when it loads      *)
(* none, FileImageHandle stays unset.  The result is not looked at.        *)
Loading(outcome, leadsTo, made, status) ==
  /\ At("looking") /\ Go("check")
  /\ image' = outcome /\ handle' = leadsTo
  /\ devicePath' = made
  /\ faulted' = (faulted \/ status)
  /\ UNCHANGED <<program, looked, address, files>>

ImageNotLoaded ==
  \E made \in BOOLEAN : Loading("none", "unset", made, volume[name] = "file" \/ ~made)
ImageDistrusted ==
  At("looking") /\ F!Present /\ Loading("distrusted", "image", TRUE, TRUE)
ImageLoaded ==
  At("looking") /\ F!Present /\ Loading("loaded", "image", TRUE, FALSE)

(* HandleProtocol on a handle that was never set: as a rule it is refused, *)
(* but it may be the handle of another image.                              *)
HandleRefused ==
  /\ At("check") /\ handle = "unset" /\ Go("refuse")
  /\ UNCHANGED <<program, launching, files, faulted>>

HandleAstray ==
  /\ At("check") /\ handle = "unset" /\ UNCHANGED <<case, pc>>
  /\ handle' = "other" /\ looked' \in Images
  /\ stray' = TRUE
  /\ UNCHANGED <<program, image, address, devicePath, volume, handles, infos, buffers, contents,
                 routine, name, at, answer, faulted>>

NotALoader ==
  /\ At("check") /\ handle # "unset" /\ (~looked.loader \/ looked.size = 0)
  /\ Go("refuse")
  /\ UNCHANGED <<program, launching, files, faulted>>

(* A mutant does not ask what kind of code the image is. *)
Scan(accepted) ==
  /\ At("check") /\ handle # "unset" /\ accepted /\ looked.size # 0
  /\ Go("scan")
  /\ UNCHANGED <<program, launching, files, faulted>>

ScanUnasked == Scan(TRUE)
StartScan == Scan(looked.loader)

(* CheckBootMgrGuid looks at every word of the image where a GUID still    *)
(* fits, save the very last place; a mutant looks up to the end, another   *)
(* one does not get on.                                                    *)
ScanLimitAtEnd == ImageBase + looked.size
ScanLimit == ImageBase + looked.size - GuidSize

GuidAt(a) == a - ImageBase \in looked.guids

ScanOn(n) ==
  /\ At("scan") /\ address < ScanLimit /\ ~GuidAt(address) /\ Go("scan")
  /\ address' = address + n
  /\ UNCHANGED <<program, handle, image, looked, devicePath, files, faulted>>

ScanStays == ScanOn(0)
ScanMiss == ScanOn(Word)

ScanHit ==
  /\ At("scan") /\ address < ScanLimit /\ GuidAt(address) /\ Go("start")
  /\ UNCHANGED <<program, launching, files, faulted>>

ScanEnds ==
  /\ At("scan") /\ address >= ScanLimit /\ Go("refuse")
  /\ UNCHANGED <<program, launching, files, faulted>>

(* UnloadImage on whatever the handle is; an unset one may stray. *)
Refuse ==
  /\ At("refuse") /\ Go("after")
  /\ image' = IF handle = "image" THEN "unloaded" ELSE image
  /\ UNCHANGED <<program, handle, looked, address, devicePath, files, faulted>>

(* StartImage: the firmware does not start a distrusted image, nor another *)
(* one, which has been started before.  A mutant tries again.              *)
Boots ==
  /\ At("start") /\ image = "loaded" /\ handle = "image" /\ Go("booted")
  /\ image' = "started"
  /\ UNCHANGED <<program, handle, looked, address, devicePath, files, faulted>>

StartFailsThen(next) ==
  /\ At("start") /\ Go(next)
  /\ image' = IF image = "loaded" /\ handle = "image" THEN "exited" ELSE image
  /\ faulted' = TRUE
  /\ UNCHANGED <<program, handle, looked, address, devicePath, files>>

StartRetried == StartFailsThen("check")
StartFails == StartFailsThen("after")

(* The boot manager's path is freed; FilePathOnDevice is not, on any of    *)
(* the ways out of Launch.                                                 *)
LaunchReturns ==
  /\ At("after") /\ Go("cleanup")
  /\ Freed
  /\ UNCHANGED <<known, root, settings, k, logHandle, launching, files, faulted>>

(* The log is closed only if logging is on; a mutant forgets it. *)
CleanUpClosing(n) ==
  /\ At("cleanup") /\ Go("returned")
  /\ strings' = strings - (IF known THEN 1 ELSE 0)
  /\ handles' = [handles EXCEPT !["log"] = @ - n]
  /\ root' = FALSE
  /\ UNCHANGED <<known, settings, k, logHandle, launching, volume, infos, buffers,
                 contents, routine, name, at, answer, stray, faulted>>

CleanUpKeepingLog == CleanUpClosing(0)
CleanUp == CleanUpClosing(IF "logfile" \in settings /\ logHandle THEN 1 ELSE 0)

Next ==
  \/ FileStep
  \/ SetupFails \/ Setup
  \/ LookForIni \/ IniMissing \/ ReadIni \/ IniRead \/ IniUnparsable \/ IniParsed
  \/ LookForMarker \/ MarkerLookedFor
  \/ NoLog \/ ClearLog \/ CreateLog \/ LogNotOpened \/ LogOpened
  \/ Work
  \/ LookForBootManager \/ NothingToLaunch
  \/ ImageNotLoaded \/ ImageDistrusted \/ ImageLoaded
  \/ HandleRefused \/ HandleAstray \/ NotALoader \/ StartScan
  \/ ScanMiss \/ ScanHit \/ ScanEnds \/ Refuse
  \/ Boots \/ StartFails \/ LaunchReturns \/ CleanUp

(* Straight-line code that the firmware runs to its end. *)
Spec == Init /\ [][Next]_vars /\ WF_vars(Next)

-----------------------------------------------------------------------------

TypeOK ==
  /\ F!TypeOK
  /\ pc \in {"setup", "config", "ini", "reading", "parse", "marker", "marked", "log",
             "clearing", "creating", "keys", "exit", "looking", "check", "scan",
             "refuse", "start", "after", "cleanup", "booted", "returned"}
  /\ {known, root, logHandle, devicePath} \subseteq BOOLEAN
  /\ strings \in 0 .. 2
  /\ settings \subseteq Settings /\ k \in 1 .. Len(Markers) + 1
  /\ handle \in {"unset", "image", "other"}
  /\ image \in {"none", "loaded", "distrusted", "unloaded", "started", "exited"}
  /\ looked \in Images /\ address \in Nat

(* What the volume says the settings are: the ini file if it can be read,  *)
(* otherwise the markers, and no log in a directory.                       *)
Marked == {m \in {Markers[j] : j \in DOMAIN Markers} : volume[m] # "absent"}
Asked ==
  IF ~HasDirectory(case.path) THEN {}
  ELSE IF ~Parsable THEN Marked
  ELSE IF volume["log"] = "directory" THEN case.asked \ {"logfile"}
  ELSE case.asked

(* The settings come from one source.  With no failure on the way they are *)
(* what the volume asks for; after a failure anywhere in ReadConfig, the   *)
(* markers or the log they are still never a mixture of ini and markers.   *)
SettingsFromOneSource ==
  pc = "keys" =>
    /\ settings = Asked \/ faulted
    /\ \/ Parsable /\ settings \ {"logfile"} = case.asked \ {"logfile"}
       \/ settings \subseteq Marked

(* Whatever fails in Filesystem's routines, between two calls they hold no *)
(* handle but on the log, no file information but the log's, and no        *)
(* contents but those waiting to be parsed or that could not be parsed.    *)
NothingLeftBetweenCalls ==
  at = "idle" =>
    /\ \A n \in Names \ {"log"} : handles[n] = 0
    /\ infos > 0 => infos = 1 /\ logHandle
    /\ buffers > 0 =>
         /\ buffers = 1 /\ contents = "buffer"
         /\ pc \in {"reading", "parse"} \/ faulted \/ ~Parsable

(* While logging is on, the log is an open file: PrintFuncNameMessage may  *)
(* write to mLogFileHandle at any time.                                    *)
Logging == "logfile" \in settings /\ pc \in {"keys", "exit", "looking", "check", "scan",
                                             "refuse", "start", "after", "cleanup"}
LogIsAnOpenFile == Logging => logHandle /\ handles["log"] > 0 /\ volume["log"] = "file"

(* A run that comes back to the firmware has freed the paths it made in    *)
(* UefiMain and ReadConfig, closed the volume, unloaded an image it        *)
(* refused, and, if nothing failed and the log is no directory, closed the *)
(* log.  The one path it has not freed is the device path of Launch, so a  *)
(* run that had no boot manager to launch has not lost that either.        *)
ReturnsClean ==
  pc = "returned" =>
    /\ strings = 0 /\ ~root /\ image # "loaded"
    /\ handles["log"] = 0 \/ faulted \/ volume["log"] = "directory"
    /\ devicePath => known /\ BootManager # Invalid

(* An image that CheckBootMgrGuid is there to recognise. *)
Genuine(m) ==
  m.loader /\ \E g \in m.guids : g % Word = 0 /\ g + GuidSize < m.size

(* Windows is started only from an image that was loaded without error and *)
(* bears the mark, and that lies beside the program under its own name, if *)
(* that has an extension to change; an unset image handle never gets there.*)
BootedIsVerified ==
  pc = "booted" =>
    /\ image = "started" /\ handle = "image" /\ Genuine(case.boot)
    /\ HasExtension(case.path) => name = "boot"

(* If nothing fails, a boot manager that is there is started.              *)
OrdinaryStartBoots ==
  pc = "returned" /\ ~faulted =>
    ~(HasExtension(case.path) /\ volume["boot"] = "file" /\ Genuine(case.boot))

(* Something that was never set is used only after a failure, or where     *)
(* there was no boot manager and Launch goes on without an image.          *)
UnsetOnlyWithoutImage == stray /\ ~faulted => image = "none" /\ handle = "other"

(* Each place CheckBootMgrGuid compares with the GUID lies in the image.   *)
ScanStaysInside ==
  [][address' # address => address + GuidSize <= ImageBase + looked.size]_vars

(* A run comes to its end, through every failure and every scan. *)
Ends == <>(pc \in {"booted", "returned"})

(* The files side of UefiMain keeps the promise about the boot manager. *)
Stage ==
  CASE pc \in {"exit"} -> "leaving"
    [] pc \in {"looking", "check", "scan"} -> "launching"
    [] pc = "start" -> "accepted"
    [] pc = "booted" -> "booted"
    [] pc \in {"refuse", "after", "cleanup", "returned"} -> "over"
    [] OTHER -> IF pc = "keys" THEN "installing" ELSE "starting"
Promise == INSTANCE Chainload WITH
             stage <- Stage, known <- known /\ Stage # "starting"
KeepsPromise == Promise!Behaviour
===============================================================================
