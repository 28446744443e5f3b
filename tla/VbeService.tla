------------------------------ MODULE VbeService ------------------------------
(***************************************************************************)
(* What the shim's int 10h handler offers its caller, as the comments of   *)
(* Int10hHandler.asm list it: the VBE functions with their outputs, every  *)
(* other register as it was, and no return at all from what is not known.  *)
(***************************************************************************)
EXTENDS Integers

CONSTANTS
  Requests,  \* the register contents callers use
  Info,      \* the block holding the controller information
  ModeInfo   \* the block holding the mode information

VARIABLES
  state,   \* "idle", "called" or "hung"
  regs,    \* the caller's registers
  buffer   \* what was last copied, and where to

vars == <<state, regs, buffer>>

Nothing == [from |-> "none"]

(* The one mode there is, and its number with the bit that asks for a      *)
(* linear frame buffer (bit 14), which function 4F01 ignores.              *)
ModeNumber == 241
LfbBit == 16384
LfbModeNumber == ModeNumber + LfbBit
WithoutLfbBit(n) == (n \div (2 * LfbBit)) * 2 * LfbBit + (n % LfbBit)

VbeOk == 79          \* 004F
VbeFailed == 335     \* 014F

Copied(block, r) == [from |-> block, to |-> <<r.es, r.di>>, bytes |-> 256]

Init ==
  /\ state = "idle"
  /\ regs \in Requests
  /\ buffer = Nothing

Call ==
  /\ state = "idle"
  /\ state' = "called"
  /\ regs' \in Requests
  /\ buffer' = Nothing

Reply(newRegs, newBuffer) ==
  /\ state = "called"
  /\ state' = "idle"
  /\ regs' = newRegs /\ buffer' = newBuffer

ReturnControllerInformation ==
  /\ regs.ax = 20224
  /\ Reply([regs EXCEPT !.ax = VbeOk], Copied(Info, regs))

ReturnModeInformation ==
  /\ regs.ax = 20225 /\ WithoutLfbBit(regs.cx) = ModeNumber
  /\ Reply([regs EXCEPT !.ax = VbeOk], Copied(ModeInfo, regs))

SetMode ==
  /\ regs.ax = 20226 /\ regs.bx = LfbModeNumber
  /\ Reply([regs EXCEPT !.ax = VbeOk], buffer)

ReturnCurrentMode ==
  /\ regs.ax = 20227
  /\ Reply([regs EXCEPT !.ax = VbeOk, !.bx = LfbModeNumber], buffer)

PowerManagementOrEdid ==
  /\ regs.ax \in {20240, 20245}
  /\ Reply([regs EXCEPT !.ax = VbeFailed], buffer)

(* Legacy modes 03h and 12h; AX is 00xx and becomes the mode's flag. *)
SetModeLegacy ==
  \/ regs.ax = 3 /\ Reply([regs EXCEPT !.ax = 48], buffer)
  \/ regs.ax = 18 /\ Reply([regs EXCEPT !.ax = 32], buffer)

Known ==
  \/ regs.ax \in {20224, 20227, 20240, 20245, 3, 18}
  \/ regs.ax = 20225 /\ WithoutLfbBit(regs.cx) = ModeNumber
  \/ regs.ax = 20226 /\ regs.bx = LfbModeNumber

Hang ==
  /\ state = "called" /\ ~Known
  /\ state' = "hung"
  /\ UNCHANGED <<regs, buffer>>

Answer ==
  \/ ReturnControllerInformation \/ ReturnModeInformation \/ SetMode
  \/ ReturnCurrentMode \/ PowerManagementOrEdid \/ SetModeLegacy

Next == Call \/ Answer \/ Hang

Behaviour == Init /\ [][Next]_vars

Spec == Behaviour /\ WF_vars(Answer \/ Hang)
===============================================================================
