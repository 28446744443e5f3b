------------------------------ MODULE Filesystem ------------------------------
(***************************************************************************)
(* FileExists, FileDelete and FileRead of Filesystem.c, and GetFileInfo,   *)
(* which they share with the opening of the log in UefiMain.  One call is  *)
(* under way at a time; every call of the firmware in it may fail.  Open   *)
(* handles and pool memory are counted.                                    *)
(***************************************************************************)
EXTENDS Integers

CONSTANTS Names  \* the files the program has names for

VARIABLES
  volume,    \* what there is under each name
  handles,   \* open handles on each
  infos,     \* EFI_FILE_INFO blocks allocated
  buffers,   \* buffers for file contents allocated
  contents,  \* the caller's FileContents: "unset", "NULL" or "buffer"
  routine,   \* the routine running or last run
  name,      \* the file it was called for
  at,        \* where it stands
  answer,    \* whether it returned TRUE or EFI_SUCCESS
  stray,     \* history: a pointer or handle never set was put to use
  faulted    \* history: something failed that could have worked

resources == <<handles, infos, buffers, contents>>
running == <<routine, name, at, answer>>
vars == <<volume, resources, running, stray, faulted>>

Kinds == {"absent", "file", "directory"}
Routines == {"FileExists", "FileDelete", "FileRead", "OpenLog"}

(* A call of routine r for file n; FileExists and FileRead open for        *)
(* reading, FileDelete for writing, OpenLog creates what is not there.     *)
Begin(r, n) ==
  /\ at = "idle"
  /\ routine' = r /\ name' = n /\ at' = "open" /\ answer' = FALSE

Goto(step) == at' = step /\ UNCHANGED <<routine, name, answer>>
Return(value) == at' = "idle" /\ answer' = value /\ UNCHANGED <<routine, name>>
Fault == faulted' = TRUE

Present == volume[name] # "absent"
Held(change) == handles' = [handles EXCEPT ![name] = @ + change]

OpenFails ==
  /\ at = "open"
  /\ IF routine = "FileRead" THEN Goto("exit_unopened") ELSE Return(FALSE)
  /\ faulted' = (faulted \/ Present \/ routine = "OpenLog")
  /\ UNCHANGED <<volume, resources, stray>>

(* FileExists closes what it opened. *)
FileFound ==
  /\ at = "open" /\ routine = "FileExists" /\ Present
  /\ Return(TRUE)
  /\ UNCHANGED <<volume, resources, stray, faulted>>

OpenWorks ==
  /\ at = "open" /\ routine # "FileExists"
  /\ Present \/ routine = "OpenLog"
  /\ volume' = [volume EXCEPT ![name] = IF Present THEN @ ELSE "file"]
  /\ Held(1)
  /\ Goto("probe")
  /\ UNCHANGED <<infos, buffers, contents, stray, faulted>>

(* GetFileInfo asks for the size first, then for the information. *)
InfoUnavailable ==
  /\ at = "probe"
  /\ Goto("uninformed") /\ Fault
  /\ UNCHANGED <<volume, resources, stray>>

InfoAllocated ==
  /\ at = "probe"
  /\ infos' = infos + 1
  /\ Goto("info")
  /\ UNCHANGED <<volume, handles, buffers, contents, stray, faulted>>

InfoFails ==
  /\ at = "info"
  /\ infos' = infos - 1
  /\ Goto("uninformed") /\ Fault
  /\ UNCHANGED <<volume, handles, buffers, contents, stray>>

InfoWorks ==
  /\ at = "info"
  /\ Goto("informed")
  /\ UNCHANGED <<volume, resources, stray, faulted>>

(* FileDelete: only Delete closes the handle, and it may leave the file.   *)
DeleteUninformed ==
  /\ at = "uninformed" /\ routine = "FileDelete"
  /\ Return(TRUE)
  /\ UNCHANGED <<volume, resources, stray, faulted>>

DeleteDirectory ==
  /\ at = "informed" /\ routine = "FileDelete" /\ volume[name] = "directory"
  /\ infos' = infos - 1
  /\ Return(TRUE)
  /\ UNCHANGED <<volume, handles, buffers, contents, stray, faulted>>

DeleteFile ==
  /\ at = "informed" /\ routine = "FileDelete" /\ volume[name] = "file"
  /\ \/ volume' = [volume EXCEPT ![name] = "absent"] /\ UNCHANGED faulted
     \/ UNCHANGED volume /\ Fault
  /\ Held(-1)
  /\ infos' = infos - 1
  /\ Return(TRUE)
  /\ UNCHANGED <<buffers, contents, stray>>

(* FileRead: a buffer of the file's size, and the file in it. *)
ReadUninformed ==
  /\ at = "uninformed" /\ routine = "FileRead"
  /\ Goto("exit")
  /\ UNCHANGED <<volume, resources, stray, faulted>>

BufferUnavailable ==
  /\ at = "informed" /\ routine = "FileRead"
  /\ infos' = infos - 1
  /\ contents' = "NULL"
  /\ Goto("exit") /\ Fault
  /\ UNCHANGED <<volume, handles, buffers, stray>>

BufferAllocated ==
  /\ at = "informed" /\ routine = "FileRead"
  /\ infos' = infos - 1
  /\ contents' = "buffer" /\ buffers' = buffers + 1
  /\ Goto("read")
  /\ UNCHANGED <<volume, handles, stray, faulted>>

(* Reading a directory may fail without anything being wrong. *)
ReadFails ==
  /\ at = "read"
  /\ Goto("exit")
  /\ faulted' = (faulted \/ volume[name] = "file")
  /\ UNCHANGED <<volume, resources, stray>>

ReadWorks ==
  /\ at = "read"
  /\ at' = "exit" /\ answer' = TRUE
  /\ UNCHANGED <<volume, resources, routine, name, stray, faulted>>

(* Exit: the file is closed if it was opened, and after an error contents  *)
(* that are not NULL are freed, also when they were never set: whatever    *)
(* the caller's variable held is then NULL or an address to be freed.      *)
(* The mutant closes the file only after success.                          *)
FreeContents ==
  \/ /\ answer
     /\ UNCHANGED <<contents, buffers, stray>>
  \/ /\ ~answer /\ contents = "buffer"
     /\ contents' = "NULL" /\ buffers' = buffers - 1
     /\ UNCHANGED stray
  \/ /\ ~answer /\ contents # "buffer"
     /\ contents' = "NULL"
     /\ stray' \in {stray} \cup {contents = "unset" \/ stray}
     /\ UNCHANGED buffers

ReadExitForgetful ==
  /\ at \in {"exit", "exit_unopened"}
  /\ Return(answer)
  /\ IF at = "exit" /\ answer THEN Held(-1) ELSE UNCHANGED handles
  /\ FreeContents
  /\ UNCHANGED <<volume, infos, faulted>>

ReadExit ==
  /\ at \in {"exit", "exit_unopened"}
  /\ Return(answer)
  /\ IF at = "exit" THEN Held(-1) ELSE UNCHANGED handles
  /\ FreeContents
  /\ UNCHANGED <<volume, infos, faulted>>

Step ==
  \/ OpenFails \/ FileFound \/ OpenWorks
  \/ InfoUnavailable \/ InfoAllocated \/ InfoFails \/ InfoWorks
  \/ DeleteUninformed \/ DeleteDirectory \/ DeleteFile
  \/ ReadUninformed \/ BufferUnavailable \/ BufferAllocated
  \/ ReadFails \/ ReadWorks \/ ReadExit

TypeOK ==
  /\ volume \in [Names -> Kinds]
  /\ handles \in [Names -> Nat]
  /\ infos \in Nat /\ buffers \in Nat
  /\ contents \in {"unset", "NULL", "buffer"}
  /\ routine \in Routines \cup {"none"} /\ name \in Names \cup {"none"}
  /\ at \in {"idle", "open", "probe", "info", "informed", "uninformed", "read",
             "exit", "exit_unopened"}
  /\ {answer, stray, faulted} \subseteq BOOLEAN
===============================================================================
