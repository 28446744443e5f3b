------------------------------ MODULE MemoryLock ------------------------------
(***************************************************************************)
(* EnsureMemoryLock and CanWriteAtAddress of UefiSeven.c: the VGA ROM area *)
(* (64 KiB at 0xC0000) is made writable or read-only by trying, in turn,   *)
(* the legacy region protocol, its successor and the fixed MTRRs, and by   *)
(* probing one byte after each try.  The values the firmware calls return  *)
(* are ignored by the code; only the probe decides.                        *)
(*                                                                         *)
(* The probe works on a plain pointer, so a compiler may answer it without *)
(* touching memory (OldValue + 1 never equals OldValue in a UINT8) and     *)
(* drop the three accesses; ReadsBack says whether the build kept them.    *)
(*                                                                         *)
(* The two call sites always pass VGA_ROM_ADDRESS and VGA_ROM_SIZE, so the *)
(* parameter checks at the head of the function never fire and             *)
(* FIXED_MTRR_SIZE >= Length always holds.                                 *)
(***************************************************************************)
EXTENDS Integers

CONSTANTS
  RomBlocks,     \* the separately lockable blocks of the VGA ROM area
  BeyondBlocks,  \* those FIXED_MTRR_SIZE covers past VGA_ROM_SIZE
  StartBlock,    \* the block holding the byte at VGA_ROM_ADDRESS
  ByteValues,    \* how many values a UINT8 has; 256 in the program
  ReadsBack      \* whether the build kept the memory accesses of the probe

ASSUME BlocksAssumption ==
  /\ StartBlock \in RomBlocks
  /\ RomBlocks \cap BeyondBlocks = {}
ASSUME ByteAssumption == ByteValues \in Nat /\ ByteValues > 1
ASSUME BuildAssumption == ReadsBack \in BOOLEAN

VARIABLES
  have,        \* the mechanisms this machine has
  pam,         \* per block: what the chipset does with writes
  mtrr,        \* cache type the fixed MTRRs give the whole covered range
  byte,        \* the byte at VGA_ROM_ADDRESS
  op,          \* Operation of the current or last call
  stage,       \* how far the call has come
  probing,     \* where CanWriteAtAddress stands
  oldValue,    \* its local OldValue
  status,      \* Status of the call
  byteAtCall   \* history: the byte when the call began

hardware == <<pam, mtrr>>
callVars == <<op, stage, probing, oldValue, status, byteAtCall>>
vars == <<have, pam, mtrr, byte, callVars>>

Blocks == RomBlocks \cup BeyondBlocks
Byte == 0 .. ByteValues - 1
Protocols == {"LegacyRegion", "LegacyRegion2"}
Providers == Protocols \cup {"Mtrr"}
Operations == {"LOCK", "UNLOCK"}
Statuses == {"SUCCESS", "NOT_READY", "NOT_FOUND", "DEVICE_ERROR"}

(* A write to a block persists if the chipset forwards it and the MTRRs do *)
(* not write-protect it.                                                   *)
Writable(b) == pam[b] = "RW" /\ mtrr # "WriteProtected"

(* What the byte holds after the program stores v to it. *)
Store(v) == IF Writable(StartBlock) THEN v ELSE byte

(* UINT8 increment, and a mutant that forgets the width. *)
IncrementUnbounded(v) == v + 1
Increment(v) == IF v = ByteValues - 1 THEN 0 ELSE v + 1

(* The first byte of the area is in the state the operation asks for. *)
Achieved == Writable(StartBlock) <=> op = "UNLOCK"

(* The mechanism tried after each; the mutant retries without end. *)
FollowingLoops == [Check |-> "LegacyRegion", LegacyRegion |-> "LegacyRegion2",
                   LegacyRegion2 |-> "Mtrr", Mtrr |-> "LegacyRegion"]
Following == [Check |-> "LegacyRegion", LegacyRegion |-> "LegacyRegion2",
              LegacyRegion2 |-> "Mtrr", Mtrr |-> "done"]

-----------------------------------------------------------------------------

Init ==
  /\ have \in SUBSET Providers
  /\ pam \in [Blocks -> {"RW", "RO"}]
  /\ mtrr \in {"WriteBack", "Uncacheable", "WriteProtected"}
  /\ byte \in Byte
  /\ op = "UNLOCK" /\ stage = "idle" /\ probing = "no"
  /\ oldValue = byte /\ byteAtCall = byte
  /\ status = "NOT_READY"

(* The call; the first thing it does is probe whether there is work to do. *)
Call(operation) ==
  /\ op' = operation
  /\ stage' = "Check"
  /\ probing' = "write"
  /\ status' = "NOT_READY"
  /\ byteAtCall' = byte
  /\ UNCHANGED <<have, hardware, byte, oldValue>>

(* CanWriteAtAddress: remember the byte and store its successor. *)
ProbeWrite ==
  /\ probing = "write"
  /\ oldValue' = byte
  /\ byte' = IF ReadsBack THEN Store(Increment(byte)) ELSE byte
  /\ probing' = "compare"
  /\ UNCHANGED <<have, hardware, op, stage, status, byteAtCall>>

(* CanWriteAtAddress compares, stores the old value back and returns; the  *)
(* caller turns the answer into Status and, on an error, goes on to the    *)
(* next mechanism.  The mutants forget to store the old value back, and    *)
(* go on to the next mechanism after a success.                            *)
Answered(restored, onSuccess) ==
  LET canWrite == ~ReadsBack \/ oldValue # byte
      success == canWrite <=> op = "UNLOCK"
  IN  /\ probing = "compare"
      /\ byte' = restored
      /\ probing' = "no"
      /\ status' = IF success THEN "SUCCESS"
                   ELSE IF stage = "Check" THEN status ELSE "DEVICE_ERROR"
      /\ stage' = IF success THEN onSuccess ELSE Following[stage]
      /\ UNCHANGED <<have, hardware, op, oldValue, byteAtCall>>

ProbeCompareKeepsByte == Answered(byte, "done")
ProbeCompareGoesOn == Answered(Store(oldValue), Following[stage])
ProbeCompare == Answered(IF ReadsBack THEN Store(oldValue) ELSE byte, "done")

(* LocateProtocol failed: its status becomes the call's. *)
ProtocolMissing(p) ==
  /\ stage = p /\ probing = "no"
  /\ p \notin have
  /\ status' = "NOT_FOUND"
  /\ stage' = Following[p]
  /\ UNCHANGED <<have, hardware, byte, op, probing, oldValue, byteAtCall>>

(* Lock or UnLock of the located protocol; it may change all, some or none *)
(* of the blocks it was asked to, whatever it returns.                     *)
UseProtocol(p) ==
  /\ stage = p /\ probing = "no"
  /\ p \in have
  /\ \E done \in SUBSET RomBlocks :
       pam' = [b \in Blocks |-> IF b \notin done THEN pam[b]
                                ELSE IF op = "UNLOCK" THEN "RW" ELSE "RO"]
  /\ status' = "SUCCESS"
  /\ probing' = "write"
  /\ UNCHANGED <<have, mtrr, byte, op, stage, oldValue, byteAtCall>>

MtrrMissing ==
  /\ stage = "Mtrr" /\ probing = "no"
  /\ "Mtrr" \notin have
  /\ stage' = "done"
  /\ UNCHANGED <<have, hardware, byte, op, probing, oldValue, status, byteAtCall>>

(* Mutant: the MTRR step believes the library instead of probing. *)
UseMtrrTrusting ==
  /\ stage = "Mtrr" /\ probing = "no"
  /\ "Mtrr" \in have
  /\ mtrr' \in {mtrr, IF op = "UNLOCK" THEN "Uncacheable" ELSE "WriteProtected"}
  /\ status' = "SUCCESS"
  /\ stage' = "done"
  /\ UNCHANGED <<have, pam, byte, op, probing, oldValue, byteAtCall>>

(* MtrrSetMemoryAttribute over FIXED_MTRR_SIZE; it may fail. *)
UseMtrr ==
  /\ stage = "Mtrr" /\ probing = "no"
  /\ "Mtrr" \in have
  /\ mtrr' \in {mtrr, IF op = "UNLOCK" THEN "Uncacheable" ELSE "WriteProtected"}
  /\ probing' = "write"
  /\ UNCHANGED <<have, pam, byte, op, stage, oldValue, status, byteAtCall>>

Step ==
  \/ ProbeWrite
  \/ ProbeCompare
  \/ \E p \in Protocols : ProtocolMissing(p) \/ UseProtocol(p)
  \/ MtrrMissing
  \/ UseMtrr

(* The caller, UefiMain: it unlocks once per start of the application; if  *)
(* that succeeded it rewrites the area and locks it again.                 *)
CallUnlock == stage \in {"idle", "done"} /\ Call("UNLOCK")

WriteRom ==
  /\ stage = "done" /\ op = "UNLOCK" /\ status = "SUCCESS"
  /\ stage' = "written"
  /\ \E v \in Byte : byte' = Store(v)
  /\ UNCHANGED <<have, hardware, op, probing, oldValue, status, byteAtCall>>

CallLock == stage = "written" /\ Call("LOCK")

Next == Step \/ CallUnlock \/ WriteRom \/ CallLock

(* The firmware runs the application as straight-line code. *)
Spec == Init /\ [][Next]_vars /\ WF_vars(Step)

-----------------------------------------------------------------------------

TypeOK ==
  /\ have \in SUBSET Providers
  /\ pam \in [Blocks -> {"RW", "RO"}]
  /\ mtrr \in {"WriteBack", "Uncacheable", "WriteProtected"}
  /\ byte \in Byte /\ oldValue \in Byte /\ byteAtCall \in Byte
  /\ op \in Operations
  /\ stage \in {"idle", "Check", "done", "written"} \cup Providers
  /\ probing \in {"no", "write", "compare"}
  /\ status \in Statuses

(* EnsureMemoryLock returns EFI_SUCCESS exactly when the first byte of the *)
(* area is writable after UNLOCK and protected after LOCK, whichever of    *)
(* the mechanisms exist, fail or lie about their result: what the comment  *)
(* on CanWriteAtAddress promises, passed on.  It takes a build that reads  *)
(* the byte back.                                                          *)
StatusExact == stage = "done" => (status = "SUCCESS" <=> Achieved)

(* However many times the call probes, between probes the byte under test  *)
(* has the value it had when the call began, also when incrementing wraps. *)
ProbeTransparent ==
  stage \notin {"idle", "written"} /\ probing = "no" => byte = byteAtCall

(* A mechanism is only used while the area is not yet as requested: a call *)
(* that finds nothing to do, or has already succeeded, changes no          *)
(* chipset or MTRR setting.                                                *)
NoNeedlessChange == [][Achieved => UNCHANGED hardware]_vars

(* What the comment on EnsureMemoryLock says of Length, "Number of bytes   *)
(* from StartAddress that need to be locked or unlocked": no call changes  *)
(* whether memory past the area can be written.  The MTRR step does.       *)
OnlyRequestedArea == [][\A b \in BeyondBlocks : Writable(b)' = Writable(b)]_vars

-----------------------------------------------------------------------------
(* The promise this module keeps, in a build that reads the byte back.     *)

Phase == IF stage = "idle" THEN "idle"
         ELSE IF stage \in {"done", "written"} THEN "done" ELSE "busy"

Abstract == INSTANCE RegionLock WITH
  writable <- {b \in Blocks : Writable(b)},
  content <- IF Phase = "busy" THEN byteAtCall ELSE byte,
  phase <- Phase,
  result <- IF Phase = "done" /\ status = "SUCCESS" THEN "SUCCESS" ELSE "ERROR",
  Contents <- Byte

(* EnsureMemoryLock keeps the promise UefiMain relies on, RegionLock: each *)
(* of its steps is a step of the promise or none, and calls return.        *)
KeepsPromise == Abstract!Spec
===============================================================================
