----------------------------- MODULE Int10hHandler -----------------------------
(***************************************************************************)
(* The int 10h handler as it lies in memory after installation: the code   *)
(* of Int10hHandler.asm at the addresses and with the jump targets it was  *)
(* assembled to in Int10hHandler.h, run one instruction at a time, from    *)
(* the int instruction of the caller to the iret.                          *)
(***************************************************************************)
EXTENDS Integers, Sequences

CONSTANTS
  Requests,      \* the caller's registers at the int instruction
  RomSegment,    \* CS of the shim
  CallerStack    \* the caller's stack, top first

VARIABLES
  regs,     \* register contents; zf and df are the flags that matter
  ip,       \* offset of the next instruction
  stack,    \* 16-bit words, top first
  buffer,   \* what rep movsb last copied, and where to
  request   \* history: the registers the caller passed

vars == <<regs, ip, stack, buffer, request>>

Word == {n \in Nat : n < 65536}
RegisterFile ==
  [ax : Word, bx : Word, cx : Word, dx : Word, si : Word, di : Word,
   ds : Word, es : Word, cs : Word, zf : 0 .. 1, df : 0 .. 1]

(* No caller runs in the shim's own segment. *)
ASSUME RequestsAssumption ==
  Requests \subseteq RegisterFile /\ \A r \in Requests : r.cs # RomSegment
ASSUME StackAssumption == RomSegment \in Word /\ CallerStack \in Seq(Word)

ReturnAddress == 7     \* of the caller
CallerSegment == 4096
HangAddress == 547     \* 0223

-----------------------------------------------------------------------------
(* The code, as <<offset, offset of what follows, operation, operands>>;   *)
(* movsb stands for rep movsb and clear14 for and cx,0xbfff.               *)

EntryCode == {
  <<512, 515, "cmp", "ax", 20224>>, <<515, 517, "jz", 549>>,     \* 4F00 GetInfo
  <<517, 520, "cmp", "ax", 20225>>, <<520, 522, "jz", 572>>,     \* 4F01 GetModeInfo
  <<522, 525, "cmp", "ax", 20226>>, <<525, 527, "jz", 607>>,     \* 4F02 SetMode
  <<527, 530, "cmp", "ax", 20227>>, <<530, 532, "jz", 621>>,     \* 4F03 GetMode
  <<532, 535, "cmp", "ax", 20240>>, <<535, 537, "jz", 626>>,     \* 4F10 GetPmCapabilities
  <<537, 540, "cmp", "ax", 20245>>, <<540, 542, "jz", 628>>,     \* 4F15 ReadEdid
  <<542, 545, "cmp", "ah", 0>>, <<545, 547, "jz", 630>>}            \* SetModeLegacy

HangCodeOff == {<<547, 549, "jmp", 548>>}
HangCode == {<<547, 549, "jmp", 547>>}

(* The mutant restores two registers in the wrong order. *)
GetInfoCodeSwapped == {
  <<549, 550, "push", "es">>, <<550, 551, "push", "di">>, <<551, 552, "push", "ds">>,
  <<552, 553, "push", "si">>, <<553, 554, "push", "cx">>, <<554, 555, "push", "cs">>,
  <<555, 556, "pop", "ds">>, <<556, 559, "mov", "si", 0>>, <<559, 562, "mov", "cx", 256>>,
  <<562, 563, "cld">>, <<563, 565, "movsb">>, <<565, 566, "pop", "si">>,
  <<566, 567, "pop", "cx">>, <<567, 568, "pop", "ds">>, <<568, 569, "pop", "di">>,
  <<569, 570, "pop", "es">>, <<570, 572, "jmp", 647>>}

GetInfoCode == {
  <<549, 550, "push", "es">>, <<550, 551, "push", "di">>, <<551, 552, "push", "ds">>,
  <<552, 553, "push", "si">>, <<553, 554, "push", "cx">>, <<554, 555, "push", "cs">>,
  <<555, 556, "pop", "ds">>, <<556, 559, "mov", "si", 0>>, <<559, 562, "mov", "cx", 256>>,
  <<562, 563, "cld">>, <<563, 565, "movsb">>, <<565, 566, "pop", "cx">>,
  <<566, 567, "pop", "si">>, <<567, 568, "pop", "ds">>, <<568, 569, "pop", "di">>,
  <<569, 570, "pop", "es">>, <<570, 572, "jmp", 647>>}

GetModeInfoCode == {
  <<572, 573, "push", "es">>, <<573, 574, "push", "di">>, <<574, 575, "push", "ds">>,
  <<575, 576, "push", "si">>, <<576, 577, "push", "cx">>, <<577, 581, "clear14", "cx">>,
  <<581, 585, "cmp", "cx", 241>>, <<585, 587, "jz", 589>>, <<587, 589, "jmp", 547>>,
  <<589, 590, "push", "cs">>, <<590, 591, "pop", "ds">>, <<591, 594, "mov", "si", 256>>,
  <<594, 597, "mov", "cx", 256>>, <<597, 598, "cld">>, <<598, 600, "movsb">>,
  <<600, 601, "pop", "cx">>, <<601, 602, "pop", "si">>, <<602, 603, "pop", "ds">>,
  <<603, 604, "pop", "di">>, <<604, 605, "pop", "es">>, <<605, 607, "jmp", 647>>}

(* The mutant leaves a word on the stack. *)
SetModeCodeUnbalanced == {
  <<607, 608, "push", "dx">>, <<608, 609, "push", "ax">>, <<609, 613, "cmp", "bx", 16625>>,
  <<613, 615, "jz", 618>>, <<615, 617, "jmp", 547>>, <<618, 619, "pop", "dx">>,
  <<619, 621, "jmp", 647>>}

SetModeCode == {
  <<607, 608, "push", "dx">>, <<608, 609, "push", "ax">>, <<609, 613, "cmp", "bx", 16625>>,
  <<613, 615, "jz", 617>>, <<615, 617, "jmp", 547>>, <<617, 618, "pop", "ax">>,
  <<618, 619, "pop", "dx">>, <<619, 621, "jmp", 647>>}

OtherVbeCode == {
  <<621, 624, "mov", "bx", 16625>>, <<624, 626, "jmp", 647>>,     \* GetMode
  <<626, 628, "jmp", 651>>,                                       \* GetPmCapabilities
  <<628, 630, "jmp", 651>>}                                       \* ReadEdid

SetModeLegacyCode == {
  <<630, 632, "cmp", "al", 3>>, <<632, 634, "jz", 640>>, <<634, 636, "cmp", "al", 18>>,
  <<636, 638, "jz", 644>>, <<638, 640, "jmp", 547>>, <<640, 642, "mov", "al", 48>>,
  <<642, 644, "jmp", 646>>, <<644, 646, "mov", "al", 32>>, <<646, 647, "iret">>}

ExitCode == {
  <<647, 650, "mov", "ax", 79>>, <<650, 651, "iret">>,             \* Success
  <<651, 654, "mov", "ax", 335>>, <<654, 655, "iret">>}            \* Unsupported

Code == EntryCode \cup HangCode \cup GetInfoCode \cup GetModeInfoCode \cup SetModeCode
          \cup OtherVbeCode \cup SetModeLegacyCode \cup ExitCode

Offsets == {c[1] : c \in Code}

-----------------------------------------------------------------------------
(* The processor, as far as the code uses it; c is the instruction it is   *)
(* at.                                                                     *)

InRom == regs.cs = RomSegment

Executing(c, operation) == InRom /\ ip = c[1] /\ c[3] = operation

High(word) == word \div 256
Low(word) == word % 256

Read(register) ==
  CASE register = "ah" -> High(regs.ax)
    [] register = "al" -> Low(regs.ax)
    [] OTHER -> regs[register]

Written(register, value) ==
  IF register = "al" THEN [regs EXCEPT !.ax = High(regs.ax) * 256 + value]
  ELSE [regs EXCEPT ![register] = value]

GoOn(c) == ip' = c[2] /\ UNCHANGED request

Compare(c) ==
  /\ Executing(c, "cmp") /\ GoOn(c)
  /\ regs' = [regs EXCEPT !.zf = IF Read(c[4]) = c[5] THEN 1 ELSE 0]
  /\ UNCHANGED <<stack, buffer>>

JumpIfZero(c) ==
  /\ Executing(c, "jz")
  /\ ip' = IF regs.zf = 1 THEN c[4] ELSE c[2]
  /\ UNCHANGED <<regs, stack, buffer, request>>

Jump(c) ==
  /\ Executing(c, "jmp")
  /\ ip' = c[4]
  /\ UNCHANGED <<regs, stack, buffer, request>>

Move(c) ==
  /\ Executing(c, "mov") /\ GoOn(c)
  /\ regs' = Written(c[4], c[5])
  /\ UNCHANGED <<stack, buffer>>

(* and cx,0xbfff sets the flags like a comparison with zero. *)
ClearBit14(c) ==
  LET masked == (regs.cx \div 32768) * 32768 + (regs.cx % 16384)
  IN  /\ Executing(c, "clear14") /\ GoOn(c)
      /\ regs' = [regs EXCEPT !.cx = masked, !.zf = IF masked = 0 THEN 1 ELSE 0]
      /\ UNCHANGED <<stack, buffer>>

Push(c) ==
  /\ Executing(c, "push") /\ GoOn(c)
  /\ stack' = <<Read(c[4])>> \o stack
  /\ UNCHANGED <<regs, buffer>>

Pop(c) ==
  /\ Executing(c, "pop") /\ GoOn(c)
  /\ regs' = Written(c[4], Head(stack))
  /\ stack' = Tail(stack)
  /\ UNCHANGED buffer

ClearDirection(c) ==
  /\ Executing(c, "cld") /\ GoOn(c)
  /\ regs' = [regs EXCEPT !.df = 0]
  /\ UNCHANGED <<stack, buffer>>

(* With the direction flag set the copy would run downwards. *)
Copy(c) ==
  LET step == IF regs.df = 0 THEN regs.cx ELSE -regs.cx
  IN  /\ Executing(c, "movsb") /\ GoOn(c)
      /\ buffer' = [from |-> <<regs.ds, regs.si>>, to |-> <<regs.es, regs.di>>,
                    bytes |-> step]
      /\ regs' = [regs EXCEPT !.cx = 0, !.si = (@ + step) % 65536,
                              !.di = (@ + step) % 65536]
      /\ UNCHANGED stack

InterruptReturn(c) ==
  /\ Executing(c, "iret")
  /\ ip' = stack[1]
  /\ regs' = [regs EXCEPT !.cs = stack[2], !.zf = stack[3] % 2, !.df = stack[3] \div 2]
  /\ stack' = SubSeq(stack, 4, Len(stack))
  /\ UNCHANGED <<buffer, request>>

Execute(c) ==
  \/ Compare(c) \/ JumpIfZero(c) \/ Jump(c) \/ Move(c) \/ ClearBit14(c)
  \/ Push(c) \/ Pop(c) \/ ClearDirection(c) \/ Copy(c) \/ InterruptReturn(c)

Step == \E c \in Code : Execute(c)

(* The caller's int 10h. *)
Interrupt ==
  /\ ~InRom
  /\ request' \in Requests
  /\ regs' = [request' EXCEPT !.cs = RomSegment]
  /\ stack' = <<ReturnAddress, request'.cs, request'.zf + 2 * request'.df>> \o stack
  /\ ip' = 512
  /\ buffer' = [from |-> "none"]

Init ==
  /\ request \in Requests /\ regs = request
  /\ ip = ReturnAddress
  /\ stack = CallerStack
  /\ buffer = [from |-> "none"]

Next == Step \/ Interrupt

Spec == Init /\ [][Next]_vars /\ WF_vars(Step)

-----------------------------------------------------------------------------

TypeOK ==
  /\ regs \in RegisterFile
  /\ ip \in IF InRom THEN Offsets ELSE Word
  /\ stack \in Seq(Word)
  /\ Len(stack) <= Len(CallerStack) + 9

(* When control is back at the caller it is where the caller left off,     *)
(* with the caller's stack as it was, whichever way through the handler    *)
(* was taken.                                                              *)
StackRestored == ~InRom => ip = ReturnAddress /\ stack = CallerStack

Service == INSTANCE VbeService WITH
  Info <- <<RomSegment, 0>>,
  ModeInfo <- <<RomSegment, 256>>,
  state <- IF ~InRom THEN "idle" ELSE IF ip = HangAddress THEN "hung" ELSE "called",
  regs <- IF InRom THEN request ELSE regs,
  buffer <- IF InRom THEN [from |-> "none"] ELSE buffer

(* The machine code gives the documented answers, touches no register but  *)
(* the documented outputs, restores the caller's flags, copies upwards     *)
(* whatever the caller's direction flag, and returns unless it hangs.      *)
ImplementsService == Service!Spec
===============================================================================
