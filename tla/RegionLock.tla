------------------------------ MODULE RegionLock ------------------------------
(***************************************************************************)
(* What EnsureMemoryLock of UefiSeven.c promises its caller: a call makes  *)
(* the memory area writable or read-only and its status says whether the   *)
(* first byte of the area is as requested.  While the area is as requested *)
(* nothing is changed, changes go in the requested direction only, and the *)
(* content of the area survives the call.  MemoryLock implements this;     *)
(* UefiSeven is built on it.                                               *)
(***************************************************************************)
CONSTANTS
  Blocks,      \* the separately lockable blocks a call may affect
  StartBlock,  \* the block at the start of the area
  Contents     \* what the area may hold

VARIABLES
  writable,  \* the blocks in which writes persist
  content,   \* what the area holds
  op,        \* Operation of the current or last call
  phase,     \* "idle", "busy" with a call, or "done" with it
  result     \* "SUCCESS" or "ERROR": what the last call returned

vars == <<writable, content, op, phase, result>>

Operations == {"LOCK", "UNLOCK"}

Achieved == (StartBlock \in writable) <=> op = "UNLOCK"

Init ==
  /\ writable \in SUBSET Blocks
  /\ content \in Contents
  /\ op = "UNLOCK" /\ phase = "idle" /\ result = "ERROR"

(* The caller asks for an operation. *)
Begin(operation) ==
  /\ phase # "busy"
  /\ op' = operation /\ phase' = "busy" /\ result' = "ERROR"
  /\ UNCHANGED <<writable, content>>

(* The call works on the area, for as long as it is not as requested. *)
Work ==
  /\ phase = "busy" /\ ~Achieved
  /\ writable' \in SUBSET Blocks
  /\ IF op = "UNLOCK" THEN writable \subseteq writable' ELSE writable' \subseteq writable
  /\ UNCHANGED <<content, op, phase, result>>

(* The call returns; a mutant believes the mechanisms it used. *)
FinishTrusting ==
  /\ phase = "busy"
  /\ phase' = "done" /\ result' = "SUCCESS"
  /\ UNCHANGED <<writable, content, op>>

Finish ==
  /\ phase = "busy"
  /\ phase' = "done"
  /\ result' = IF Achieved THEN "SUCCESS" ELSE "ERROR"
  /\ UNCHANGED <<writable, content, op>>

(* Between calls the caller writes to the area it has unlocked. *)
Rewrite ==
  /\ phase = "done" /\ op = "UNLOCK" /\ result = "SUCCESS"
  /\ content' \in Contents
  /\ UNCHANGED <<writable, op, phase, result>>

Next == (\E operation \in Operations : Begin(operation)) \/ Work \/ Finish \/ Rewrite

Behaviour == Init /\ [][Next]_vars

Spec == Behaviour /\ WF_vars(Finish)
===============================================================================
