------------------------------ MODULE Int10hProofs ------------------------------
(***************************************************************************)
(* The machine code of the int 10h handler, proved for every content of    *)
(* the caller's registers and stack: it gives the caller's stack back and  *)
(* implements VbeService.  The invariant says for each offset what has     *)
(* been found out about the request, which registers hold what the caller  *)
(* had in them, and what lies on the stack.                                *)
(***************************************************************************)
EXTENDS Int10hHandler, SequenceTheorems, TLAPS

-----------------------------------------------------------------------------
(* The invariant.                                                          *)

Nothing == [from |-> "none"]
Copied(offset) ==
  [from |-> <<RomSegment, offset>>, to |-> <<request.es, request.di>>, bytes |-> 256]
Masked == (request.cx \div 32768) * 32768 + (request.cx % 16384)

Registers == {"ax", "bx", "cx", "dx", "si", "di", "ds", "es", "cs", "zf", "df"}

(* Every register but these holds what the caller had in it. *)
Kept(changed) == \A f \in Registers \ changed : regs[f] = request[f]

(* The flag says whether something holds. *)
Tells(what) == regs.zf = 1 <=> what

(* The stack at the int instruction, and after each push of the code.      *)
On(word, words) == <<word>> \o words
Frame == <<ReturnAddress, request.cs, request.zf + 2 * request.df>> \o CallerStack
Pushed1 == On(request.es, Frame)
Pushed2 == On(request.di, Pushed1)
Pushed3 == On(request.ds, Pushed2)
Pushed4 == On(request.si, Pushed3)
Pushed5 == On(request.cx, Pushed4)
Pushed6 == On(RomSegment, Pushed5)
PushedDx == On(request.dx, Frame)
PushedAx == On(request.ax, PushedDx)

Typed ==
  /\ regs \in RegisterFile /\ request \in Requests
  /\ stack \in Seq(Word) /\ Len(stack) <= Len(CallerStack) + 9

Holds(changed, words) == Kept(changed) /\ stack = words /\ buffer = Nothing
Asked == Holds({"cs", "zf"}, Frame)

(* The comparisons with the function numbers, in their order.              *)
Dispatching ==
  ip \in 512 .. 545 =>
    /\ Asked
    /\ ip = 515 => Tells(request.ax = 20224)
    /\ ip = 520 => Tells(request.ax = 20225)
    /\ ip = 525 => Tells(request.ax = 20226)
    /\ ip = 530 => Tells(request.ax = 20227)
    /\ ip = 535 => Tells(request.ax = 20240)
    /\ ip = 540 => Tells(request.ax = 20245)
    /\ ip = 545 => Tells(High(request.ax) = 0)
    /\ ip >= 517 => request.ax # 20224
    /\ ip >= 522 => request.ax # 20225
    /\ ip >= 527 => request.ax # 20226
    /\ ip >= 532 => request.ax # 20227
    /\ ip >= 537 => request.ax # 20240
    /\ ip >= 542 => request.ax # 20245

Known ==
  \/ request.ax \in {20224, 20227, 20240, 20245, 3, 18}
  \/ request.ax = 20225 /\ Masked = 241
  \/ request.ax = 20226 /\ request.bx = 16625
Hung == ip = 547 => ~Known

(* Five pushes from offset b.                                              *)
Saving(b) ==
  /\ ip = b => Holds({"cs", "zf"}, Frame)
  /\ ip = b + 1 => Holds({"cs", "zf"}, Pushed1)
  /\ ip = b + 2 => Holds({"cs", "zf"}, Pushed2)
  /\ ip = b + 3 => Holds({"cs", "zf"}, Pushed3)
  /\ ip = b + 4 => Holds({"cs", "zf"}, Pushed4)
  /\ ip = b + 5 => Holds({"cs", "zf"}, Pushed5)

(* From offset b a block is copied and the five registers are restored.    *)
Copying(b, block) ==
  /\ ip = b => Holds({"cs", "zf", "cx"}, Pushed5)
  /\ ip = b + 1 => Holds({"cs", "zf", "cx"}, Pushed6)
  /\ ip \in {b + 2, b + 5, b + 8} =>
       Holds({"cs", "zf", "cx", "ds", "si"}, Pushed5) /\ regs.ds = RomSegment
  /\ ip = b + 9 =>
       Holds({"cs", "zf", "cx", "ds", "si", "df"}, Pushed5) /\ regs.ds = RomSegment
  /\ ip \in {b + 5, b + 8, b + 9} => regs.si = block
  /\ ip \in {b + 8, b + 9} => regs.cx = 256
  /\ ip = b + 9 => regs.df = 0
  /\ ip = b + 11 => Kept({"cs", "zf", "df", "di", "ds", "si", "cx"}) /\ stack = Pushed5
  /\ ip = b + 12 => Kept({"cs", "zf", "df", "di", "ds", "si"}) /\ stack = Pushed4
  /\ ip = b + 13 => Kept({"cs", "zf", "df", "di", "ds"}) /\ stack = Pushed3
  /\ ip = b + 14 => Kept({"cs", "zf", "df", "di"}) /\ stack = Pushed2
  /\ ip = b + 15 => Kept({"cs", "zf", "df"}) /\ stack = Pushed1
  /\ ip = b + 16 => Kept({"cs", "zf", "df"}) /\ stack = Frame
  /\ ip \in b + 11 .. b + 16 => buffer = Copied(block)

Information ==
  /\ Saving(549) /\ Copying(554, 0)
  /\ ip \in 549 .. 570 => request.ax = 20224

ModeInformation ==
  /\ Saving(572) /\ Copying(589, 256)
  /\ ip \in 572 .. 605 => request.ax = 20225
  /\ ip \in {581, 585, 587} => Holds({"cs", "zf", "cx"}, Pushed5)
  /\ ip \in {581, 585} => regs.cx = Masked
  /\ ip = 585 => Tells(Masked = 241)
  /\ ip = 587 => Masked # 241
  /\ ip \in 589 .. 605 => Masked = 241

ModeSetting ==
  /\ ip \in 607 .. 619 => request.ax = 20226
  /\ ip \in {607, 619} => Asked
  /\ ip \in {608, 618} => Holds({"cs", "zf"}, PushedDx)
  /\ ip \in {609, 613, 615, 617} => Holds({"cs", "zf"}, PushedAx)
  /\ ip = 613 => Tells(request.bx = 16625)
  /\ ip = 615 => request.bx # 16625
  /\ ip \in 617 .. 619 => request.bx = 16625

Others ==
  /\ ip \in {621, 624} => request.ax = 20227
  /\ ip \in {621, 626, 628} => Asked
  /\ ip = 624 => Holds({"cs", "zf", "bx"}, Frame) /\ regs.bx = 16625
  /\ ip = 626 => request.ax = 20240
  /\ ip = 628 => request.ax = 20245

Legacy ==
  /\ ip \in 630 .. 640 => Asked
  /\ ip = 644 => Asked
  /\ ip \in 630 .. 638 => High(request.ax) = 0
  /\ ip = 632 => Tells(request.ax = 3)
  /\ ip \in 634 .. 638 => request.ax # 3
  /\ ip = 636 => Tells(request.ax = 18)
  /\ ip = 638 => request.ax # 18
  /\ ip \in {640, 642} => request.ax = 3
  /\ ip = 644 => request.ax = 18
  /\ ip \in {642, 646} => Holds({"cs", "zf", "ax"}, Frame)
  /\ ip = 642 => regs.ax = 48
  /\ ip = 646 => \/ request.ax = 3 /\ regs.ax = 48
                 \/ request.ax = 18 /\ regs.ax = 32

(* What the two ends of the VBE functions are reached with.                *)
Done ==
  \/ request.ax = 20224 /\ regs.bx = request.bx /\ buffer = Copied(0)
  \/ request.ax = 20225 /\ Masked = 241 /\ regs.bx = request.bx /\ buffer = Copied(256)
  \/ request.ax = 20226 /\ request.bx = 16625 /\ regs.bx = request.bx /\ buffer = Nothing
  \/ request.ax = 20227 /\ regs.bx = 16625 /\ buffer = Nothing
Ending ==
  /\ ip = 647 => Done /\ stack = Frame /\ Kept({"cs", "zf", "df", "bx"})
  /\ ip = 650 => /\ Done /\ stack = Frame /\ Kept({"cs", "zf", "df", "bx", "ax"})
                 /\ regs.ax = 79
  /\ ip \in {651, 654} => request.ax \in {20240, 20245}
  /\ ip = 651 => Asked
  /\ ip = 654 => Holds({"cs", "zf", "ax"}, Frame) /\ regs.ax = 335

Running ==
  /\ ip \in Offsets
  /\ Dispatching /\ Hung /\ Information /\ ModeInformation /\ ModeSetting
  /\ Others /\ Legacy /\ Ending

IInv == Typed /\ StackRestored /\ (InRom => Running)

-----------------------------------------------------------------------------
(* What one instruction does.                                              *)

LEMMA OnTop ==
  ASSUME NEW word \in Word, NEW words \in Seq(Word)
  PROVE  /\ On(word, words) \in Seq(Word) /\ Len(On(word, words)) = Len(words) + 1
         /\ Head(On(word, words)) = word /\ Tail(On(word, words)) = words
<1> DEFINE s == On(word, words)
<1>1. s \in Seq(Word) /\ Len(s) = Len(words) + 1 /\ s[1] = word
  BY DEF On
<1>2. \A n \in 1 .. Len(words) : s[n + 1] = words[n]
  BY DEF On
<1>3. Tail(s) \in Seq(Word) /\ Len(Tail(s)) = Len(words)
  BY <1>1
<1>4. \A n \in 1 .. Len(words) : Tail(s)[n] = words[n]
  BY <1>1, <1>2, <1>3
<1>5. Tail(s) = words
  <2> HIDE DEF s
  <2> QED BY <1>3, <1>4, SeqEqual
<1> QED BY <1>1, <1>5

LEMMA Grows ==
  ASSUME NEW word \in Word, NEW words \in Seq(Word), NEW new, new = On(word, words)
  PROVE  new \in Seq(Word) /\ Len(new) = Len(words) + 1
BY OnTop

LEMMA Joined ==
  ASSUME NEW a \in Word, NEW b \in Word, NEW d \in Word, NEW words \in Seq(Word)
  PROVE  /\ <<a, b, d>> \o words \in Seq(Word)
         /\ Len(<<a, b, d>> \o words) = Len(words) + 3
         /\ (<<a, b, d>> \o words)[1] = a /\ (<<a, b, d>> \o words)[2] = b
         /\ (<<a, b, d>> \o words)[3] = d
         /\ \A n \in 1 .. Len(words) : (<<a, b, d>> \o words)[n + 3] = words[n]
<1>1. \A n \in 1 .. Len(words) : (<<a, b, d>> \o words)[n + 3] = words[n]
  OBVIOUS
<1>2. /\ <<a, b, d>> \o words \in Seq(Word)
      /\ Len(<<a, b, d>> \o words) = Len(words) + 3
  OBVIOUS
<1>3. /\ (<<a, b, d>> \o words)[1] = a /\ (<<a, b, d>> \o words)[2] = b
      /\ (<<a, b, d>> \o words)[3] = d
  OBVIOUS
<1> QED BY <1>1, <1>2, <1>3

(* The caller's registers are words, its flags bits. *)
LEMMA RequestTyped ==
  ASSUME request \in Requests
  PROVE  /\ request.ax \in Word /\ request.bx \in Word /\ request.cx \in Word
         /\ request.dx \in Word /\ request.si \in Word /\ request.di \in Word
         /\ request.ds \in Word /\ request.es \in Word /\ request.cs \in Word
         /\ request.zf \in 0 .. 1 /\ request.df \in 0 .. 1
         /\ request.cs # RomSegment
<1>1. request \in RegisterFile /\ request.cs # RomSegment
  BY RequestsAssumption
<1> QED BY <1>1 DEF RegisterFile

(* The interrupt pushes three words; iret takes them off again. *)
LEMMA FrameTyped ==
  ASSUME request \in Requests
  PROVE  /\ Frame \in Seq(Word) /\ Len(Frame) = Len(CallerStack) + 3
         /\ Frame[1] = ReturnAddress /\ Frame[2] = request.cs
         /\ Frame[3] = request.zf + 2 * request.df
         /\ SubSeq(Frame, 4, Len(Frame)) = CallerStack
<1> DEFINE a == ReturnAddress
           b == request.cs
           d == request.zf + 2 * request.df
<1>1. a \in Word /\ b \in Word /\ d \in Word
  BY RequestTyped DEF ReturnAddress, Word
<1> HIDE DEF a, b, d
<1>2. Frame = <<a, b, d>> \o CallerStack
  BY DEF Frame, a, b, d
<1>3. /\ Frame \in Seq(Word) /\ Len(Frame) = Len(CallerStack) + 3
      /\ Frame[1] = a /\ Frame[2] = b /\ Frame[3] = d
      /\ \A n \in 1 .. Len(CallerStack) : Frame[n + 3] = CallerStack[n]
  <2>1. CallerStack \in Seq(Word)
    BY StackAssumption
  <2> QED BY <1>1, <1>2, <2>1, Joined
<1> DEFINE rest == SubSeq(Frame, 4, Len(Frame))
<1>4. rest \in Seq(Word) /\ Len(rest) = Len(CallerStack)
  BY <1>3, StackAssumption
<1>5. \A n \in 1 .. Len(CallerStack) : rest[n] = CallerStack[n]
  BY <1>3, StackAssumption
<1>6. rest = CallerStack
  <2> HIDE DEF rest
  <2>1. CallerStack \in Seq(Word)
    BY StackAssumption
  <2> QED BY <1>4, <1>5, <2>1, SeqEqual
<1> QED BY <1>3, <1>6 DEF a, b, d

Fits(words) == words \in Seq(Word) /\ Len(words) <= Len(CallerStack) + 9

LEMMA PushedTyped ==
  ASSUME request \in Requests
  PROVE  /\ Fits(Frame) /\ Fits(Pushed1) /\ Fits(Pushed2) /\ Fits(Pushed3)
         /\ Fits(Pushed4) /\ Fits(Pushed5) /\ Fits(Pushed6)
         /\ Fits(PushedDx) /\ Fits(PushedAx)
<1>0. Len(CallerStack) \in Nat
  BY StackAssumption
<1>1. Frame \in Seq(Word) /\ Len(Frame) = Len(CallerStack) + 3
  BY FrameTyped
<1>2. /\ request.es \in Word /\ request.di \in Word /\ request.ds \in Word
      /\ request.si \in Word /\ request.cx \in Word
      /\ request.dx \in Word /\ request.ax \in Word
  BY RequestTyped
<1>3. Pushed1 \in Seq(Word) /\ Len(Pushed1) = Len(CallerStack) + 4
  <2>1. Pushed1 = On(request.es, Frame) /\ request.es \in Word
    BY <1>2, StackAssumption DEF Pushed1
  <2>2. Pushed1 \in Seq(Word) /\ Len(Pushed1) = Len(Frame) + 1
    BY <2>1, <1>1, Grows
  <2> QED BY <2>2, <1>1, <1>0
<1>4. Pushed2 \in Seq(Word) /\ Len(Pushed2) = Len(CallerStack) + 5
  <2>1. Pushed2 = On(request.di, Pushed1) /\ request.di \in Word
    BY <1>2, StackAssumption DEF Pushed2
  <2>2. Pushed2 \in Seq(Word) /\ Len(Pushed2) = Len(Pushed1) + 1
    BY <2>1, <1>3, Grows
  <2> QED BY <2>2, <1>3, <1>0
<1>5. Pushed3 \in Seq(Word) /\ Len(Pushed3) = Len(CallerStack) + 6
  <2>1. Pushed3 = On(request.ds, Pushed2) /\ request.ds \in Word
    BY <1>2, StackAssumption DEF Pushed3
  <2>2. Pushed3 \in Seq(Word) /\ Len(Pushed3) = Len(Pushed2) + 1
    BY <2>1, <1>4, Grows
  <2> QED BY <2>2, <1>4, <1>0
<1>6. Pushed4 \in Seq(Word) /\ Len(Pushed4) = Len(CallerStack) + 7
  <2>1. Pushed4 = On(request.si, Pushed3) /\ request.si \in Word
    BY <1>2, StackAssumption DEF Pushed4
  <2>2. Pushed4 \in Seq(Word) /\ Len(Pushed4) = Len(Pushed3) + 1
    BY <2>1, <1>5, Grows
  <2> QED BY <2>2, <1>5, <1>0
<1>7. Pushed5 \in Seq(Word) /\ Len(Pushed5) = Len(CallerStack) + 8
  <2>1. Pushed5 = On(request.cx, Pushed4) /\ request.cx \in Word
    BY <1>2, StackAssumption DEF Pushed5
  <2>2. Pushed5 \in Seq(Word) /\ Len(Pushed5) = Len(Pushed4) + 1
    BY <2>1, <1>6, Grows
  <2> QED BY <2>2, <1>6, <1>0
<1>8. Pushed6 \in Seq(Word) /\ Len(Pushed6) = Len(CallerStack) + 9
  <2>1. Pushed6 = On(RomSegment, Pushed5) /\ RomSegment \in Word
    BY <1>2, StackAssumption DEF Pushed6
  <2>2. Pushed6 \in Seq(Word) /\ Len(Pushed6) = Len(Pushed5) + 1
    BY <2>1, <1>7, Grows
  <2> QED BY <2>2, <1>7, <1>0
<1>9. PushedDx \in Seq(Word) /\ Len(PushedDx) = Len(CallerStack) + 4
  <2>1. PushedDx = On(request.dx, Frame) /\ request.dx \in Word
    BY <1>2, StackAssumption DEF PushedDx
  <2>2. PushedDx \in Seq(Word) /\ Len(PushedDx) = Len(Frame) + 1
    BY <2>1, <1>1, Grows
  <2> QED BY <2>2, <1>1, <1>0
<1>10. PushedAx \in Seq(Word) /\ Len(PushedAx) = Len(CallerStack) + 5
  <2>1. PushedAx = On(request.ax, PushedDx) /\ request.ax \in Word
    BY <1>2, StackAssumption DEF PushedAx
  <2>2. PushedAx \in Seq(Word) /\ Len(PushedAx) = Len(PushedDx) + 1
    BY <2>1, <1>9, Grows
  <2> QED BY <2>2, <1>9, <1>0
<1> QED
  BY <1>1, <1>3, <1>4, <1>5, <1>6, <1>7, <1>8, <1>9, <1>10, <1>0 DEF Fits

(* As long as the handler runs, what was asked for stays as it is. *)
LEMMA RequestKept ==
  ASSUME request' = request
  PROVE  /\ Frame' = Frame /\ Pushed1' = Pushed1 /\ Pushed2' = Pushed2
         /\ Pushed3' = Pushed3 /\ Pushed4' = Pushed4 /\ Pushed5' = Pushed5
         /\ Pushed6' = Pushed6 /\ PushedDx' = PushedDx /\ PushedAx' = PushedAx
         /\ Masked' = Masked /\ Known' = Known
         /\ Copied(0)' = Copied(0) /\ Copied(256)' = Copied(256)
  BY DEF Frame, Pushed1, Pushed2, Pushed3, Pushed4, Pushed5, Pushed6, PushedDx,
         PushedAx, Masked, Known, Copied

(* An instruction is executed by the action of its operation. *)
LEMMA OneOperation ==
  ASSUME NEW c, Execute(c)
  PROVE  /\ InRom /\ ip = c[1] /\ request' = request
         /\ c[3] = "cmp" => Compare(c)
         /\ c[3] = "jz" => JumpIfZero(c)
         /\ c[3] = "jmp" => Jump(c)
         /\ c[3] = "mov" => Move(c)
         /\ c[3] = "clear14" => ClearBit14(c)
         /\ c[3] = "push" => Push(c)
         /\ c[3] = "pop" => Pop(c)
         /\ c[3] = "cld" => ClearDirection(c)
         /\ c[3] = "movsb" => Copy(c)
         /\ c[3] = "iret" => InterruptReturn(c)
  BY DEF Execute, Executing, GoOn, Compare, JumpIfZero, Jump, Move, ClearBit14,
         Push, Pop, ClearDirection, Copy, InterruptReturn

(* Writing one register leaves the others alone. *)
LEMMA Writes ==
  ASSUME Typed, InRom, request' = request,
         NEW f \in Registers \ {"cs"}, NEW value \in Word,
         f \in {"zf", "df"} => value \in 0 .. 1,
         regs' = [regs EXCEPT ![f] = value]
  PROVE  /\ regs' \in RegisterFile /\ InRom'
         /\ regs'[f] = value
         /\ \A g \in Registers \ {f} : regs'[g] = regs[g]
         /\ \A changed : Kept(changed) => Kept(changed \cup {f})'
         /\ \A changed : Kept(changed) /\ value = request[f] => Kept(changed \ {f})'
<1>1. regs' \in RegisterFile
  <2> USE DEF Typed, RegisterFile
  <2>1. regs \in RegisterFile
    OBVIOUS
  <2>2. f \in {"ax", "bx", "cx"} => regs' \in RegisterFile
    BY <2>1
  <2>3. f \in {"dx", "si", "di"} => regs' \in RegisterFile
    BY <2>1
  <2>4. f \in {"ds", "es"} => regs' \in RegisterFile
    BY <2>1
  <2>5. f \in {"zf", "df"} => regs' \in RegisterFile
    BY <2>1
  <2> QED BY <2>2, <2>3, <2>4, <2>5 DEF Registers
<1>2. regs'[f] = value /\ \A g \in Registers \ {f} : regs'[g] = regs[g]
  BY DEF Typed, RegisterFile, Registers
<1>3. InRom'
  BY <1>2 DEF InRom, Registers
<1> QED BY <1>1, <1>2, <1>3 DEF Kept

LEMMA PushMoves ==
  ASSUME Typed, NEW c, Execute(c), c[3] = "push", c[4] \in Registers,
         NEW value, regs[c[4]] = value,
         NEW words, stack = words, Fits(On(value, words))
  PROVE  /\ ip = c[1] /\ ip' = c[2] /\ request' = request
         /\ Typed' /\ InRom'
         /\ regs' = regs /\ buffer' = buffer /\ stack' = On(value, words)
         /\ \A changed : Kept(changed) => Kept(changed)'
<1>1. Push(c) /\ InRom /\ request' = request
  BY OneOperation
<1>2. Read(c[4]) = regs[c[4]]
  BY DEF Read, Registers
<1>3. /\ ip = c[1] /\ ip' = c[2] /\ regs' = regs /\ buffer' = buffer
      /\ stack' = On(value, words)
  BY <1>1, <1>2 DEF Push, Executing, GoOn, On
<1>4. Typed' /\ InRom'
  BY <1>1, <1>3 DEF Typed, Fits, InRom
<1>5. \A changed : Kept(changed) => Kept(changed)'
  BY <1>1, <1>3 DEF Kept
<1> QED BY <1>1, <1>3, <1>4, <1>5

LEMMA PopMoves ==
  ASSUME Typed, NEW c, Execute(c), c[3] = "pop",
         c[4] \in Registers \ {"cs", "zf", "df"},
         NEW value \in Word, NEW words, Fits(words), stack = On(value, words)
  PROVE  /\ ip = c[1] /\ ip' = c[2] /\ request' = request
         /\ Typed' /\ InRom'
         /\ buffer' = buffer /\ stack' = words
         /\ regs'[c[4]] = value
         /\ \A g \in Registers \ {c[4]} : regs'[g] = regs[g]
         /\ \A changed : Kept(changed) => Kept(changed \cup {c[4]})'
         /\ \A changed : Kept(changed) /\ value = request[c[4]] => Kept(changed \ {c[4]})'
<1>1. Pop(c) /\ InRom /\ request' = request
  BY OneOperation
<1>2. Head(stack) = value /\ Tail(stack) = words
  BY OnTop DEF Fits
<1>3. Written(c[4], value) = [regs EXCEPT ![c[4]] = value]
  BY DEF Written, Registers
<1>4. /\ ip = c[1] /\ ip' = c[2] /\ buffer' = buffer /\ stack' = words
      /\ regs' = [regs EXCEPT ![c[4]] = value]
  BY <1>1, <1>2, <1>3 DEF Pop, Executing, GoOn
<1>5. c[4] \in Registers \ {"cs"} /\ c[4] \notin {"zf", "df"}
  OBVIOUS
<1>6. /\ regs' \in RegisterFile /\ InRom' /\ regs'[c[4]] = value
      /\ \A g \in Registers \ {c[4]} : regs'[g] = regs[g]
      /\ \A changed : Kept(changed) => Kept(changed \cup {c[4]})'
      /\ \A changed : Kept(changed) /\ value = request[c[4]] => Kept(changed \ {c[4]})'
  BY <1>1, <1>4, <1>5, Writes
<1>7. Typed'
  BY <1>1, <1>4, <1>6 DEF Typed, Fits
<1> QED BY <1>1, <1>4, <1>6, <1>7

(* A comparison writes the zero flag and nothing else. *)
LEMMA CompareMoves ==
  ASSUME Typed, NEW c, Execute(c), c[3] = "cmp"
  PROVE  /\ ip = c[1] /\ ip' = c[2] /\ request' = request
         /\ Typed' /\ InRom' /\ stack' = stack /\ buffer' = buffer
         /\ regs'.zf = 1 <=> Read(c[4]) = c[5]
         /\ \A g \in Registers \ {"zf"} : regs'[g] = regs[g]
         /\ \A changed : Kept(changed) => Kept(changed \cup {"zf"})'
<1>1. Compare(c) /\ InRom /\ request' = request
  BY OneOperation
<1> DEFINE flag == IF Read(c[4]) = c[5] THEN 1 ELSE 0
<1>2. /\ ip = c[1] /\ ip' = c[2] /\ buffer' = buffer /\ stack' = stack
      /\ regs' = [regs EXCEPT !["zf"] = flag]
  BY <1>1 DEF Compare, Executing, GoOn
<1>3. flag \in Word /\ flag \in 0 .. 1 /\ (flag = 1 <=> Read(c[4]) = c[5])
  BY DEF Word
<1> HIDE DEF flag
<1>4. "zf" \in Registers \ {"cs"}
  BY DEF Registers
<1>5. /\ regs' \in RegisterFile /\ InRom' /\ regs'["zf"] = flag
      /\ \A g \in Registers \ {"zf"} : regs'[g] = regs[g]
      /\ \A changed : Kept(changed) => Kept(changed \cup {"zf"})'
  BY <1>1, <1>2, <1>3, <1>4, Writes
<1>6. Typed'
  BY <1>1, <1>2, <1>5 DEF Typed
<1> QED BY <1>1, <1>2, <1>3, <1>5, <1>6

(* A jump writes nothing. *)
LEMMA JumpMoves ==
  ASSUME Typed, NEW c, Execute(c), c[3] \in {"jmp", "jz"}
  PROVE  /\ ip = c[1] /\ request' = request
         /\ c[3] = "jmp" => ip' = c[4]
         /\ c[3] = "jz" => ip' = IF regs.zf = 1 THEN c[4] ELSE c[2]
         /\ Typed' /\ InRom' /\ regs' = regs /\ stack' = stack /\ buffer' = buffer
         /\ \A changed : Kept(changed) => Kept(changed)'
<1>1. InRom /\ request' = request /\ (Jump(c) \/ JumpIfZero(c)) /\ ip = c[1]
  BY OneOperation
<1>2. regs' = regs /\ stack' = stack /\ buffer' = buffer
  BY <1>1 DEF Jump, JumpIfZero
<1>3. c[3] = "jmp" => ip' = c[4]
  BY OneOperation DEF Jump
<1>4. c[3] = "jz" => ip' = IF regs.zf = 1 THEN c[4] ELSE c[2]
  BY OneOperation DEF JumpIfZero
<1>5. Typed' /\ InRom'
  BY <1>1, <1>2 DEF Typed, InRom
<1>6. \A changed : Kept(changed) => Kept(changed)'
  BY <1>1, <1>2 DEF Kept
<1> QED BY <1>1, <1>2, <1>3, <1>4, <1>5, <1>6

(* A move writes one register. *)
LEMMA MoveMoves ==
  ASSUME Typed, NEW c, Execute(c), c[3] = "mov",
         c[4] \in Registers \ {"cs", "zf", "df"}, c[5] \in Word
  PROVE  /\ ip = c[1] /\ ip' = c[2] /\ request' = request
         /\ Typed' /\ InRom' /\ stack' = stack /\ buffer' = buffer
         /\ regs'[c[4]] = c[5]
         /\ \A g \in Registers \ {c[4]} : regs'[g] = regs[g]
         /\ \A changed : Kept(changed) => Kept(changed \cup {c[4]})'
<1>1. Move(c) /\ InRom /\ request' = request
  BY OneOperation
<1>2. Written(c[4], c[5]) = [regs EXCEPT ![c[4]] = c[5]]
  BY DEF Written, Registers
<1>3. /\ ip = c[1] /\ ip' = c[2] /\ buffer' = buffer /\ stack' = stack
      /\ regs' = [regs EXCEPT ![c[4]] = c[5]]
  BY <1>1, <1>2 DEF Move, Executing, GoOn
<1>4. c[4] \in Registers \ {"cs"} /\ c[4] \notin {"zf", "df"}
  OBVIOUS
<1>5. /\ regs' \in RegisterFile /\ InRom' /\ regs'[c[4]] = c[5]
      /\ \A g \in Registers \ {c[4]} : regs'[g] = regs[g]
      /\ \A changed : Kept(changed) => Kept(changed \cup {c[4]})'
  BY <1>1, <1>3, <1>4, Writes
<1>6. Typed'
  BY <1>1, <1>3, <1>5 DEF Typed
<1> QED BY <1>1, <1>3, <1>5, <1>6

(* A move to al keeps the high byte of ax. *)
LEMMA MoveLowMoves ==
  ASSUME Typed, NEW c, Execute(c), c[3] = "mov", c[4] = "al", c[5] \in 0 .. 255
  PROVE  /\ ip = c[1] /\ ip' = c[2] /\ request' = request
         /\ Typed' /\ InRom' /\ stack' = stack /\ buffer' = buffer
         /\ regs'.ax = High(regs.ax) * 256 + c[5]
         /\ \A changed : Kept(changed) => Kept(changed \cup {"ax"})'
<1> DEFINE value == High(regs.ax) * 256 + c[5]
<1>1. Move(c) /\ InRom /\ request' = request
  BY OneOperation
<1>2. /\ ip = c[1] /\ ip' = c[2] /\ buffer' = buffer /\ stack' = stack
      /\ regs' = [regs EXCEPT !["ax"] = value]
  BY <1>1 DEF Move, Executing, GoOn, Written
<1>3. regs.ax \in Word
  BY DEF Typed, RegisterFile
<1>4. value \in Word
  BY <1>3 DEF High, Word
<1>5. "ax" \in Registers \ {"cs"} /\ "ax" \notin {"zf", "df"}
  BY DEF Registers
<1> HIDE DEF value
<1>6. /\ regs' \in RegisterFile /\ InRom' /\ regs'["ax"] = value
      /\ \A changed : Kept(changed) => Kept(changed \cup {"ax"})'
  BY <1>1, <1>2, <1>4, <1>5, Writes
<1>7. Typed'
  BY <1>1, <1>2, <1>6 DEF Typed
<1> QED BY <1>1, <1>2, <1>6, <1>7 DEF value

LEMMA ClearDirectionMoves ==
  ASSUME Typed, NEW c, Execute(c), c[3] = "cld"
  PROVE  /\ ip = c[1] /\ ip' = c[2] /\ request' = request
         /\ Typed' /\ InRom' /\ stack' = stack /\ buffer' = buffer
         /\ regs'.df = 0
         /\ \A g \in Registers \ {"df"} : regs'[g] = regs[g]
         /\ \A changed : Kept(changed) => Kept(changed \cup {"df"})'
<1>1. ClearDirection(c) /\ InRom /\ request' = request
  BY OneOperation
<1>2. /\ ip = c[1] /\ ip' = c[2] /\ buffer' = buffer /\ stack' = stack
      /\ regs' = [regs EXCEPT !["df"] = 0]
  BY <1>1 DEF ClearDirection, Executing, GoOn
<1>3. "df" \in Registers \ {"cs"} /\ 0 \in Word /\ 0 \in 0 .. 1
  BY DEF Registers, Word
<1>4. /\ regs' \in RegisterFile /\ InRom' /\ regs'["df"] = 0
      /\ \A g \in Registers \ {"df"} : regs'[g] = regs[g]
      /\ \A changed : Kept(changed) => Kept(changed \cup {"df"})'
  BY <1>1, <1>2, <1>3, Writes
<1>5. Typed'
  BY <1>1, <1>2, <1>4 DEF Typed
<1> QED BY <1>1, <1>2, <1>4, <1>5

LEMMA MaskedIsWord ==
  ASSUME NEW n \in Word
  PROVE  (n \div 32768) * 32768 + (n % 16384) \in Word
BY DEF Word

LEMMA ClearBit14Moves ==
  ASSUME Typed, NEW c, Execute(c), c[3] = "clear14"
  PROVE  /\ ip = c[1] /\ ip' = c[2] /\ request' = request
         /\ Typed' /\ InRom' /\ stack' = stack /\ buffer' = buffer
         /\ regs'.cx = (regs.cx \div 32768) * 32768 + (regs.cx % 16384)
         /\ \A changed : Kept(changed) => Kept(changed \cup {"cx", "zf"})'
<1> DEFINE masked == (regs.cx \div 32768) * 32768 + (regs.cx % 16384)
           flag == IF masked = 0 THEN 1 ELSE 0
<1>1. ClearBit14(c) /\ InRom /\ request' = request
  BY OneOperation
<1>2. /\ ip = c[1] /\ ip' = c[2] /\ buffer' = buffer /\ stack' = stack
      /\ regs' = [regs EXCEPT !.cx = masked, !.zf = flag]
  BY <1>1 DEF ClearBit14, Executing, GoOn
<1>3. regs \in RegisterFile
  BY DEF Typed
<1>4. masked \in Word
  <2>1. regs.cx \in Word
    BY <1>3 DEF RegisterFile
  <2> QED BY <2>1, MaskedIsWord
<1>5. flag \in 0 .. 1
  OBVIOUS
<1> HIDE DEF masked, flag
<1>6. regs' \in RegisterFile
  BY <1>2, <1>3, <1>4, <1>5 DEF RegisterFile
<1>7. regs'.cx = masked /\ \A g \in Registers \ {"cx", "zf"} : regs'[g] = regs[g]
  BY <1>2, <1>3 DEF RegisterFile, Registers
<1>8. InRom'
  BY <1>1, <1>7 DEF InRom, Registers
<1>9. \A changed : Kept(changed) => Kept(changed \cup {"cx", "zf"})'
  BY <1>1, <1>7 DEF Kept
<1>10. Typed'
  BY <1>1, <1>2, <1>6 DEF Typed
<1> QED BY <1>1, <1>2, <1>7, <1>8, <1>9, <1>10 DEF masked

(* The copy goes upwards once the direction flag is clear. *)
LEMMA CopyMoves ==
  ASSUME Typed, NEW c, Execute(c), c[3] = "movsb", regs.df = 0
  PROVE  /\ ip = c[1] /\ ip' = c[2] /\ request' = request
         /\ Typed' /\ InRom' /\ stack' = stack
         /\ buffer' = [from |-> <<regs.ds, regs.si>>, to |-> <<regs.es, regs.di>>,
                       bytes |-> regs.cx]
         /\ \A changed : Kept(changed) => Kept(changed \cup {"cx", "si", "di"})'
<1> DEFINE source == (regs.si + regs.cx) % 65536
           target == (regs.di + regs.cx) % 65536
<1>1. Copy(c) /\ InRom /\ request' = request
  BY OneOperation
<1>2. regs \in RegisterFile
  BY DEF Typed
<1>3. /\ ip = c[1] /\ ip' = c[2] /\ stack' = stack
      /\ buffer' = [from |-> <<regs.ds, regs.si>>, to |-> <<regs.es, regs.di>>,
                    bytes |-> regs.cx]
      /\ regs' = [regs EXCEPT !.cx = 0, !.si = source, !.di = target]
  BY <1>1, <1>2 DEF Copy, Executing, GoOn, RegisterFile
<1>4. source \in Word /\ target \in Word /\ 0 \in Word
  <2>1. regs.si \in Word /\ regs.di \in Word /\ regs.cx \in Word
    BY <1>2 DEF RegisterFile
  <2> QED BY <2>1 DEF Word
<1> HIDE DEF source, target
<1>5. regs' \in RegisterFile
  BY <1>2, <1>3, <1>4 DEF RegisterFile
<1>6. \A g \in Registers \ {"cx", "si", "di"} : regs'[g] = regs[g]
  BY <1>2, <1>3 DEF RegisterFile, Registers
<1>7. InRom'
  BY <1>1, <1>6 DEF InRom, Registers
<1>8. \A changed : Kept(changed) => Kept(changed \cup {"cx", "si", "di"})'
  BY <1>1, <1>6 DEF Kept
<1>9. Typed'
  BY <1>1, <1>3, <1>5 DEF Typed
<1> QED BY <1>1, <1>3, <1>7, <1>8, <1>9

-----------------------------------------------------------------------------
(* The blocks of the code.                                                 *)

(* A block says nothing of what lies outside it. *)
LEMMA Outside ==
  /\ ip' \notin 512 .. 545 => Dispatching'
  /\ ip' # 547 => Hung'
  /\ ip' \notin 549 .. 570 => Information'
  /\ ip' \notin 572 .. 605 => ModeInformation'
  /\ ip' \notin 607 .. 619 => ModeSetting'
  /\ ip' \notin 621 .. 628 => Others'
  /\ ip' \notin 630 .. 646 => Legacy'
  /\ ip' \notin 647 .. 654 => Ending'
<1>1. ip' \notin 512 .. 545 => Dispatching'
  BY DEF Dispatching
<1>2. ip' # 547 => Hung'
  BY DEF Hung
<1>3. ip' \notin 549 .. 570 => Information'
  BY DEF Information, Saving, Copying
<1>4. ip' \notin 572 .. 605 => ModeInformation'
  BY DEF ModeInformation, Saving, Copying
<1>5. ip' \notin 607 .. 619 => ModeSetting'
  BY DEF ModeSetting
<1>6. ip' \notin 621 .. 628 => Others'
  BY DEF Others
<1>7. ip' \notin 630 .. 646 => Legacy'
  BY DEF Legacy
<1>8. ip' \notin 647 .. 654 => Ending'
  BY DEF Ending
<1> QED BY <1>1, <1>2, <1>3, <1>4, <1>5, <1>6, <1>7, <1>8

(* The instructions lie at these offsets. *)
LEMMA OffsetsAre ==
  /\ {512, 515, 517, 520, 522, 525, 527, 530, 532, 535, 537, 540, 542, 545}
     \subseteq Offsets
  /\ {547} \subseteq Offsets
  /\ {549, 550, 551, 552, 553, 554, 555, 556, 559, 562, 563, 565, 566, 567, 568,
     569, 570} \subseteq Offsets
  /\ {572, 573, 574, 575, 576, 577, 581, 585, 587, 589, 590, 591, 594, 597, 598,
     600, 601, 602, 603, 604, 605} \subseteq Offsets
  /\ {607, 608, 609, 613, 615, 617, 618, 619} \subseteq Offsets
  /\ {621, 624, 626, 628} \subseteq Offsets
  /\ {630, 632, 634, 636, 638, 640, 642, 644, 646} \subseteq Offsets
  /\ {647, 650, 651, 654} \subseteq Offsets
<1>1. {512, 515, 517, 520, 522, 525, 527, 530, 532, 535, 537, 540, 542, 545}
       \subseteq Offsets
  <2>1. \A c \in EntryCode : c[1] \in Offsets
    BY DEF Offsets, Code
  <2> QED BY <2>1 DEF EntryCode
<1>2. {547} \subseteq Offsets
  <2>1. \A c \in HangCode : c[1] \in Offsets
    BY DEF Offsets, Code
  <2> QED BY <2>1 DEF HangCode
<1>3. {549, 550, 551, 552, 553, 554, 555, 556, 559, 562, 563, 565, 566, 567, 568,
       569, 570} \subseteq Offsets
  <2>1. \A c \in GetInfoCode : c[1] \in Offsets
    BY DEF Offsets, Code
  <2> QED BY <2>1 DEF GetInfoCode
<1>4. {572, 573, 574, 575, 576, 577, 581, 585, 587, 589, 590, 591, 594, 597, 598,
       600, 601, 602, 603, 604, 605} \subseteq Offsets
  <2>1. \A c \in GetModeInfoCode : c[1] \in Offsets
    BY DEF Offsets, Code
  <2> QED BY <2>1 DEF GetModeInfoCode
<1>5. {607, 608, 609, 613, 615, 617, 618, 619} \subseteq Offsets
  <2>1. \A c \in SetModeCode : c[1] \in Offsets
    BY DEF Offsets, Code
  <2> QED BY <2>1 DEF SetModeCode
<1>6. {621, 624, 626, 628} \subseteq Offsets
  <2>1. \A c \in OtherVbeCode : c[1] \in Offsets
    BY DEF Offsets, Code
  <2> QED BY <2>1 DEF OtherVbeCode
<1>7. {630, 632, 634, 636, 638, 640, 642, 644, 646} \subseteq Offsets
  <2>1. \A c \in SetModeLegacyCode : c[1] \in Offsets
    BY DEF Offsets, Code
  <2> QED BY <2>1 DEF SetModeLegacyCode
<1>8. {647, 650, 651, 654} \subseteq Offsets
  <2>1. \A c \in ExitCode : c[1] \in Offsets
    BY DEF Offsets, Code
  <2> QED BY <2>1 DEF ExitCode
<1> QED BY <1>1, <1>2, <1>3, <1>4, <1>5, <1>6, <1>7, <1>8

LEMMA ComparisonStep ==
  ASSUME Typed, Dispatching, NEW c \in EntryCode, Execute(c), c[3] = "cmp"
  PROVE  Typed' /\ InRom' /\ Dispatching' /\ ip' \in 515 .. 545 /\ ip' \in Offsets
<1>1. /\ ip = c[1] /\ ip' = c[2] /\ request' = request
      /\ Typed' /\ InRom' /\ stack' = stack /\ buffer' = buffer
      /\ regs'.zf = 1 <=> Read(c[4]) = c[5]
      /\ \A changed : Kept(changed) => Kept(changed \cup {"zf"})'
  BY CompareMoves
<1>2. /\ c \in {<<512, 515, "cmp", "ax", 20224>>, <<517, 520, "cmp", "ax", 20225>>,
                <<522, 525, "cmp", "ax", 20226>>, <<527, 530, "cmp", "ax", 20227>>,
                <<532, 535, "cmp", "ax", 20240>>, <<537, 540, "cmp", "ax", 20245>>,
                <<542, 545, "cmp", "ah", 0>>}
  BY DEF EntryCode
<1>3. ip \in 512 .. 545 /\ ip' \in 515 .. 545 /\ ip' \in Offsets
  BY <1>1, <1>2, OffsetsAre
<1>4. Asked
  BY <1>3 DEF Dispatching
<1>5. Asked'
  <2>1. Kept({"cs", "zf"} \cup {"zf"})'
    BY <1>1, <1>4 DEF Asked, Holds
  <2>2. {"cs", "zf"} \cup {"zf"} = {"cs", "zf"}
    OBVIOUS
  <2> QED BY <1>1, <1>4, <2>1, <2>2, RequestKept DEF Asked, Holds, Nothing
<1>6. regs.ax = request.ax
  BY <1>4 DEF Asked, Holds, Kept, Registers
<1>7. regs'.zf = 1 <=> IF c[4] = "ah" THEN High(request.ax) = c[5] ELSE request.ax = c[5]
  BY <1>1, <1>2, <1>6 DEF Read
<1>8. /\ ip >= 517 => request.ax # 20224
      /\ ip >= 522 => request.ax # 20225
      /\ ip >= 527 => request.ax # 20226
      /\ ip >= 532 => request.ax # 20227
      /\ ip >= 537 => request.ax # 20240
      /\ ip >= 542 => request.ax # 20245
  BY <1>3 DEF Dispatching
<1>9. CASE c = <<512, 515, "cmp", "ax", 20224>>
  <2>1. ip = 512 /\ ip' = 515 /\ (regs'.zf = 1 <=> request.ax = 20224)
    BY <1>1, <1>7, <1>9
  <2> QED BY <1>1, <1>3, <1>5, <1>8, <2>1 DEF Dispatching, Tells
<1>10. CASE c = <<517, 520, "cmp", "ax", 20225>>
  <2>1. ip = 517 /\ ip' = 520 /\ (regs'.zf = 1 <=> request.ax = 20225)
    BY <1>1, <1>7, <1>10
  <2> QED BY <1>1, <1>3, <1>5, <1>8, <2>1 DEF Dispatching, Tells
<1>11. CASE c = <<522, 525, "cmp", "ax", 20226>>
  <2>1. ip = 522 /\ ip' = 525 /\ (regs'.zf = 1 <=> request.ax = 20226)
    BY <1>1, <1>7, <1>11
  <2> QED BY <1>1, <1>3, <1>5, <1>8, <2>1 DEF Dispatching, Tells
<1>12. CASE c = <<527, 530, "cmp", "ax", 20227>>
  <2>1. ip = 527 /\ ip' = 530 /\ (regs'.zf = 1 <=> request.ax = 20227)
    BY <1>1, <1>7, <1>12
  <2> QED BY <1>1, <1>3, <1>5, <1>8, <2>1 DEF Dispatching, Tells
<1>13. CASE c = <<532, 535, "cmp", "ax", 20240>>
  <2>1. ip = 532 /\ ip' = 535 /\ (regs'.zf = 1 <=> request.ax = 20240)
    BY <1>1, <1>7, <1>13
  <2> QED BY <1>1, <1>3, <1>5, <1>8, <2>1 DEF Dispatching, Tells
<1>14. CASE c = <<537, 540, "cmp", "ax", 20245>>
  <2>1. ip = 537 /\ ip' = 540 /\ (regs'.zf = 1 <=> request.ax = 20245)
    BY <1>1, <1>7, <1>14
  <2> QED BY <1>1, <1>3, <1>5, <1>8, <2>1 DEF Dispatching, Tells
<1>15. CASE c = <<542, 545, "cmp", "ah", 0>>
  <2>1. ip = 542 /\ ip' = 545 /\ (regs'.zf = 1 <=> High(request.ax) = 0)
    BY <1>1, <1>7, <1>15
  <2> QED BY <1>1, <1>3, <1>5, <1>8, <2>1 DEF Dispatching, Tells
<1> QED
  BY <1>2, <1>9, <1>10, <1>11, <1>12, <1>13, <1>14, <1>15

(* Inside the handler only the blocks matter. *)
LEMMA StillInRom ==
  ASSUME Typed', InRom', Running'
  PROVE  IInv'
BY DEF IInv, StackRestored

LEMMA BranchStep ==
  ASSUME Typed, Dispatching, NEW c \in EntryCode, Execute(c), c[3] = "jz"
  PROVE  IInv'
<1>1. /\ ip = c[1] /\ request' = request
      /\ ip' = IF regs.zf = 1 THEN c[4] ELSE c[2]
      /\ Typed' /\ InRom' /\ regs' = regs /\ stack' = stack /\ buffer' = buffer
      /\ \A changed : Kept(changed) => Kept(changed)'
  BY JumpMoves
<1>2. c \in {<<515, 517, "jz", 549>>, <<520, 522, "jz", 572>>, <<525, 527, "jz", 607>>,
          <<530, 532, "jz", 621>>, <<535, 537, "jz", 626>>, <<540, 542, "jz", 628>>,
          <<545, 547, "jz", 630>>}
  BY DEF EntryCode
<1>3. ip \in 512 .. 545 /\ ip' \in Offsets
  BY <1>1, <1>2, OffsetsAre
<1>4. Asked
  BY <1>3 DEF Dispatching
<1>5. Asked' /\ Holds({"cs", "zf"}, Frame)'
  BY <1>1, <1>4, RequestKept DEF Asked, Holds, Nothing
<1>6. /\ ip >= 517 => request.ax # 20224
      /\ ip >= 522 => request.ax # 20225
      /\ ip >= 527 => request.ax # 20226
      /\ ip >= 532 => request.ax # 20227
      /\ ip >= 537 => request.ax # 20240
      /\ ip >= 542 => request.ax # 20245
  BY <1>3 DEF Dispatching
<1>7. Running'
  <2>1. CASE c = <<515, 517, "jz", 549>>
    <3>1. ip = 515 /\ (regs.zf = 1 <=> request.ax = 20224)
      BY <1>1, <2>1 DEF Dispatching, Tells
    <3>2. CASE ip' = 549 /\ request.ax = 20224
      <4>1. Information'
        BY <1>1, <1>5, <3>2 DEF Information, Saving, Copying
      <4> QED BY <1>3, <3>2, <4>1, Outside DEF Running
    <3>3. CASE ip' = 517 /\ ~(request.ax = 20224)
      <4>1. Dispatching'
        BY <1>1, <1>5, <1>6, <3>1, <3>3 DEF Dispatching
      <4> QED BY <1>3, <3>3, <4>1, Outside DEF Running
    <3> QED BY <1>1, <2>1, <3>1, <3>2, <3>3
  <2>2. CASE c = <<520, 522, "jz", 572>>
    <3>1. ip = 520 /\ (regs.zf = 1 <=> request.ax = 20225)
      BY <1>1, <2>2 DEF Dispatching, Tells
    <3>2. CASE ip' = 572 /\ request.ax = 20225
      <4>1. ModeInformation'
        BY <1>1, <1>5, <3>2 DEF ModeInformation, Saving, Copying
      <4> QED BY <1>3, <3>2, <4>1, Outside DEF Running
    <3>3. CASE ip' = 522 /\ ~(request.ax = 20225)
      <4>1. Dispatching'
        BY <1>1, <1>5, <1>6, <3>1, <3>3 DEF Dispatching
      <4> QED BY <1>3, <3>3, <4>1, Outside DEF Running
    <3> QED BY <1>1, <2>2, <3>1, <3>2, <3>3
  <2>3. CASE c = <<525, 527, "jz", 607>>
    <3>1. ip = 525 /\ (regs.zf = 1 <=> request.ax = 20226)
      BY <1>1, <2>3 DEF Dispatching, Tells
    <3>2. CASE ip' = 607 /\ request.ax = 20226
      <4>1. ModeSetting'
        BY <1>1, <1>5, <3>2 DEF ModeSetting
      <4> QED BY <1>3, <3>2, <4>1, Outside DEF Running
    <3>3. CASE ip' = 527 /\ ~(request.ax = 20226)
      <4>1. Dispatching'
        BY <1>1, <1>5, <1>6, <3>1, <3>3 DEF Dispatching
      <4> QED BY <1>3, <3>3, <4>1, Outside DEF Running
    <3> QED BY <1>1, <2>3, <3>1, <3>2, <3>3
  <2>4. CASE c = <<530, 532, "jz", 621>>
    <3>1. ip = 530 /\ (regs.zf = 1 <=> request.ax = 20227)
      BY <1>1, <2>4 DEF Dispatching, Tells
    <3>2. CASE ip' = 621 /\ request.ax = 20227
      <4>1. Others'
        BY <1>1, <1>5, <3>2 DEF Others
      <4> QED BY <1>3, <3>2, <4>1, Outside DEF Running
    <3>3. CASE ip' = 532 /\ ~(request.ax = 20227)
      <4>1. Dispatching'
        BY <1>1, <1>5, <1>6, <3>1, <3>3 DEF Dispatching
      <4> QED BY <1>3, <3>3, <4>1, Outside DEF Running
    <3> QED BY <1>1, <2>4, <3>1, <3>2, <3>3
  <2>5. CASE c = <<535, 537, "jz", 626>>
    <3>1. ip = 535 /\ (regs.zf = 1 <=> request.ax = 20240)
      BY <1>1, <2>5 DEF Dispatching, Tells
    <3>2. CASE ip' = 626 /\ request.ax = 20240
      <4>1. Others'
        BY <1>1, <1>5, <3>2 DEF Others
      <4> QED BY <1>3, <3>2, <4>1, Outside DEF Running
    <3>3. CASE ip' = 537 /\ ~(request.ax = 20240)
      <4>1. Dispatching'
        BY <1>1, <1>5, <1>6, <3>1, <3>3 DEF Dispatching
      <4> QED BY <1>3, <3>3, <4>1, Outside DEF Running
    <3> QED BY <1>1, <2>5, <3>1, <3>2, <3>3
  <2>6. CASE c = <<540, 542, "jz", 628>>
    <3>1. ip = 540 /\ (regs.zf = 1 <=> request.ax = 20245)
      BY <1>1, <2>6 DEF Dispatching, Tells
    <3>2. CASE ip' = 628 /\ request.ax = 20245
      <4>1. Others'
        BY <1>1, <1>5, <3>2 DEF Others
      <4> QED BY <1>3, <3>2, <4>1, Outside DEF Running
    <3>3. CASE ip' = 542 /\ ~(request.ax = 20245)
      <4>1. Dispatching'
        BY <1>1, <1>5, <1>6, <3>1, <3>3 DEF Dispatching
      <4> QED BY <1>3, <3>3, <4>1, Outside DEF Running
    <3> QED BY <1>1, <2>6, <3>1, <3>2, <3>3
  <2>7. CASE c = <<545, 547, "jz", 630>>
    <3>1. ip = 545 /\ (regs.zf = 1 <=> High(request.ax) = 0)
      BY <1>1, <2>7 DEF Dispatching, Tells
    <3>2. CASE ip' = 630 /\ High(request.ax) = 0
      <4>1. Legacy'
        BY <1>1, <1>5, <3>2 DEF Legacy
      <4> QED BY <1>3, <3>2, <4>1, Outside DEF Running
    <3>3. CASE ip' = 547 /\ ~(High(request.ax) = 0)
      <4>1. request.ax # 3 /\ request.ax # 18
        BY <3>3 DEF High
      <4>2. ~Known
        BY <1>6, <3>1, <4>1 DEF Known
      <4>3. Hung'
        BY <1>1, <4>2, RequestKept DEF Hung
      <4> QED BY <1>3, <3>3, <4>3, Outside DEF Running
    <3> QED BY <1>1, <2>7, <3>1, <3>2, <3>3
  <2> QED BY <1>2, <2>1, <2>2, <2>3, <2>4, <2>5, <2>6, <2>7
<1> QED BY <1>1, <1>7, StillInRom

LEMMA EntryStep ==
  ASSUME IInv, NEW c \in EntryCode, Execute(c)
  PROVE  IInv'
<1>1. Typed /\ Dispatching
  BY OneOperation DEF IInv, Running
<1>2. CASE c[3] = "cmp"
  <2>1. Typed' /\ InRom' /\ Dispatching' /\ ip' \in 515 .. 545 /\ ip' \in Offsets
    BY <1>1, <1>2, ComparisonStep
  <2> QED BY <2>1, Outside, StillInRom DEF Running
<1>3. CASE c[3] = "jz"
  BY <1>1, <1>3, BranchStep
<1> QED BY <1>2, <1>3 DEF EntryCode

LEMMA HangStep ==
  ASSUME IInv, NEW c \in HangCode, Execute(c)
  PROVE  IInv'
<1>1. Typed /\ Hung
  BY OneOperation DEF IInv, Running
<1>2. c = <<547, 549, "jmp", 547>>
  BY DEF HangCode
<1>3. ip = 547 /\ ip' = 547 /\ request' = request /\ Typed' /\ InRom'
  BY <1>1, <1>2, JumpMoves
<1>4. Hung'
  BY <1>1, <1>3, RequestKept DEF Hung
<1>5. ip' \in Offsets
  BY <1>3, OffsetsAre
<1>6. Running'
  BY <1>3, <1>4, <1>5, Outside DEF Running
<1> QED BY <1>3, <1>6, StillInRom

(* The five pushes at offset b. *)
Pushes(b) == {<<b, b + 1, "push", "es">>, <<b + 1, b + 2, "push", "di">>,
  <<b + 2, b + 3, "push", "ds">>, <<b + 3, b + 4, "push", "si">>,
  <<b + 4, b + 5, "push", "cx">>}

LEMMA PushHolds ==
  ASSUME Typed, NEW c, Execute(c), c[3] = "push",
         NEW changed, NEW words, Holds(changed, words),
         c[4] \in Registers \ changed, Fits(On(request[c[4]], words))
  PROVE  /\ ip = c[1] /\ ip' = c[2] /\ request' = request
         /\ Typed' /\ InRom' /\ regs' = regs /\ Kept(changed)'
         /\ buffer' = Nothing /\ stack' = On(request[c[4]], words)
<1>1. regs[c[4]] = request[c[4]] /\ stack = words /\ buffer = Nothing /\ Kept(changed)
  BY DEF Holds, Kept
<1> QED BY <1>1, PushMoves

LEMMA SavingStep ==
  ASSUME Typed, NEW b \in Nat, Saving(b), NEW c \in Pushes(b), Execute(c)
  PROVE  /\ Typed' /\ InRom' /\ request' = request
         /\ ip' = c[2] /\ Saving(b)'
<1>1. c[3] = "push"
  BY DEF Pushes
<1>2. ip = c[1]
  BY OneOperation
<1>3. request \in Requests
  BY DEF Typed
<1>4. CASE c = <<b, b + 1, "push", "es">>
  <2>1. ip = b /\ c[1] = b /\ c[2] = b + 1 /\ c[4] = "es"
    BY <1>2, <1>4
  <2>2. Holds({"cs", "zf"}, Frame) /\ "es" \in Registers \ {"cs", "zf"}
    BY <2>1 DEF Saving, Registers
  <2>3. Pushed1 = On(request["es"], Frame) /\ Fits(Pushed1)
    BY <1>3, PushedTyped DEF Pushed1
  <2>4. /\ ip' = b + 1 /\ request' = request /\ Typed' /\ InRom'
        /\ Kept({"cs", "zf"})' /\ buffer' = Nothing /\ stack' = Pushed1
    BY <1>1, <2>1, <2>2, <2>3, PushHolds
  <2>5. Holds({"cs", "zf"}, Pushed1)'
    BY <2>4, RequestKept DEF Holds, Nothing
  <2> QED BY <2>1, <2>4, <2>5 DEF Saving
<1>5. CASE c = <<b + 1, b + 2, "push", "di">>
  <2>1. ip = b + 1 /\ c[1] = b + 1 /\ c[2] = b + 2 /\ c[4] = "di"
    BY <1>2, <1>5
  <2>2. Holds({"cs", "zf"}, Pushed1) /\ "di" \in Registers \ {"cs", "zf"}
    BY <2>1 DEF Saving, Registers
  <2>3. Pushed2 = On(request["di"], Pushed1) /\ Fits(Pushed2)
    BY <1>3, PushedTyped DEF Pushed2
  <2>4. /\ ip' = b + 2 /\ request' = request /\ Typed' /\ InRom'
        /\ Kept({"cs", "zf"})' /\ buffer' = Nothing /\ stack' = Pushed2
    BY <1>1, <2>1, <2>2, <2>3, PushHolds
  <2>5. Holds({"cs", "zf"}, Pushed2)'
    BY <2>4, RequestKept DEF Holds, Nothing
  <2> QED BY <2>1, <2>4, <2>5 DEF Saving
<1>6. CASE c = <<b + 2, b + 3, "push", "ds">>
  <2>1. ip = b + 2 /\ c[1] = b + 2 /\ c[2] = b + 3 /\ c[4] = "ds"
    BY <1>2, <1>6
  <2>2. Holds({"cs", "zf"}, Pushed2) /\ "ds" \in Registers \ {"cs", "zf"}
    BY <2>1 DEF Saving, Registers
  <2>3. Pushed3 = On(request["ds"], Pushed2) /\ Fits(Pushed3)
    BY <1>3, PushedTyped DEF Pushed3
  <2>4. /\ ip' = b + 3 /\ request' = request /\ Typed' /\ InRom'
        /\ Kept({"cs", "zf"})' /\ buffer' = Nothing /\ stack' = Pushed3
    BY <1>1, <2>1, <2>2, <2>3, PushHolds
  <2>5. Holds({"cs", "zf"}, Pushed3)'
    BY <2>4, RequestKept DEF Holds, Nothing
  <2> QED BY <2>1, <2>4, <2>5 DEF Saving
<1>7. CASE c = <<b + 3, b + 4, "push", "si">>
  <2>1. ip = b + 3 /\ c[1] = b + 3 /\ c[2] = b + 4 /\ c[4] = "si"
    BY <1>2, <1>7
  <2>2. Holds({"cs", "zf"}, Pushed3) /\ "si" \in Registers \ {"cs", "zf"}
    BY <2>1 DEF Saving, Registers
  <2>3. Pushed4 = On(request["si"], Pushed3) /\ Fits(Pushed4)
    BY <1>3, PushedTyped DEF Pushed4
  <2>4. /\ ip' = b + 4 /\ request' = request /\ Typed' /\ InRom'
        /\ Kept({"cs", "zf"})' /\ buffer' = Nothing /\ stack' = Pushed4
    BY <1>1, <2>1, <2>2, <2>3, PushHolds
  <2>5. Holds({"cs", "zf"}, Pushed4)'
    BY <2>4, RequestKept DEF Holds, Nothing
  <2> QED BY <2>1, <2>4, <2>5 DEF Saving
<1>8. CASE c = <<b + 4, b + 5, "push", "cx">>
  <2>1. ip = b + 4 /\ c[1] = b + 4 /\ c[2] = b + 5 /\ c[4] = "cx"
    BY <1>2, <1>8
  <2>2. Holds({"cs", "zf"}, Pushed4) /\ "cx" \in Registers \ {"cs", "zf"}
    BY <2>1 DEF Saving, Registers
  <2>3. Pushed5 = On(request["cx"], Pushed4) /\ Fits(Pushed5)
    BY <1>3, PushedTyped DEF Pushed5
  <2>4. /\ ip' = b + 5 /\ request' = request /\ Typed' /\ InRom'
        /\ Kept({"cs", "zf"})' /\ buffer' = Nothing /\ stack' = Pushed5
    BY <1>1, <2>1, <2>2, <2>3, PushHolds
  <2>5. Holds({"cs", "zf"}, Pushed5)'
    BY <2>4, RequestKept DEF Holds, Nothing
  <2> QED BY <2>1, <2>4, <2>5 DEF Saving
<1> QED BY <1>4, <1>5, <1>6, <1>7, <1>8 DEF Pushes

(* The copy of a block and the restoring of the registers, at offset b. *)
Copies(b, block) == {<<b, b + 1, "push", "cs">>, <<b + 1, b + 2, "pop", "ds">>,
  <<b + 2, b + 5, "mov", "si", block>>, <<b + 5, b + 8, "mov", "cx", 256>>,
  <<b + 8, b + 9, "cld">>, <<b + 9, b + 11, "movsb">>,
  <<b + 11, b + 12, "pop", "cx">>, <<b + 12, b + 13, "pop", "si">>,
  <<b + 13, b + 14, "pop", "ds">>, <<b + 14, b + 15, "pop", "di">>,
  <<b + 15, b + 16, "pop", "es">>, <<b + 16, b + 18, "jmp", 647>>}

LEMMA KeptMore ==
  ASSUME NEW fewer, NEW more, fewer \subseteq more, Kept(fewer)'
  PROVE  Kept(more)'
BY DEF Kept

LEMMA CopyingStep ==
  ASSUME Typed, NEW b \in Nat, NEW block \in Word, Copying(b, block),
         NEW c \in Copies(b, block), Execute(c)
  PROVE  /\ Typed' /\ InRom' /\ request' = request
         /\ \/ ip' = c[2] /\ c[2] \in b .. b + 16 /\ Copying(b, block)'
            \/ /\ c[1] = b + 16 /\ ip' = 647 /\ Kept({"cs", "zf", "df"})'
               /\ stack' = Frame' /\ buffer' = Copied(block)'
<1>1. ip = c[1] /\ InRom
  BY OneOperation
<1>2. request \in Requests
  BY DEF Typed
<1>3. 256 \in Word /\ RomSegment \in Word
  BY StackAssumption DEF Word
<1>4. CASE c = <<b, b + 1, "push", "cs">>
  <2>1. ip = b /\ c[1] = b /\ c[2] = b + 1 /\ c[3] = "push" /\ c[4] = "cs"
    BY <1>1, <1>4
  <2>2. Kept({"cs", "zf", "cx"}) /\ stack = Pushed5 /\ buffer = Nothing
    BY <2>1 DEF Copying, Holds
  <2>3. regs["cs"] = RomSegment /\ "cs" \in Registers
    BY <1>1 DEF InRom, Registers
  <2>4. Pushed6 = On(RomSegment, Pushed5) /\ Fits(Pushed6)
    BY <1>2, PushedTyped DEF Pushed6
  <2>5. /\ ip' = b + 1 /\ request' = request /\ Typed' /\ InRom'
        /\ buffer' = Nothing /\ stack' = Pushed6 /\ Kept({"cs", "zf", "cx"})'
    BY <2>1, <2>2, <2>3, <2>4, PushMoves
  <2>6. Holds({"cs", "zf", "cx"}, Pushed6)'
    BY <2>5, RequestKept DEF Holds, Nothing
  <2> QED BY <2>1, <2>5, <2>6 DEF Copying
<1>5. CASE c = <<b + 1, b + 2, "pop", "ds">>
  <2>1. ip = b + 1 /\ c[1] = b + 1 /\ c[2] = b + 2 /\ c[3] = "pop" /\ c[4] = "ds"
    BY <1>1, <1>5
  <2>2. Kept({"cs", "zf", "cx"}) /\ stack = Pushed6 /\ buffer = Nothing
    BY <2>1 DEF Copying, Holds
  <2>3. Pushed6 = On(RomSegment, Pushed5) /\ Fits(Pushed5)
    BY <1>2, PushedTyped DEF Pushed6
  <2>4. c[4] \in Registers \ {"cs", "zf", "df"}
    BY <2>1 DEF Registers
  <2>5. /\ ip' = b + 2 /\ request' = request /\ Typed' /\ InRom'
        /\ buffer' = Nothing /\ stack' = Pushed5 /\ regs'.ds = RomSegment
        /\ Kept({"cs", "zf", "cx"} \cup {"ds"})'
    BY <2>1, <2>2, <2>3, <2>4, <1>3, PopMoves
  <2>6. Kept({"cs", "zf", "cx", "ds", "si"})'
    BY <2>5, KeptMore
  <2>7. Holds({"cs", "zf", "cx", "ds", "si"}, Pushed5)'
    BY <2>5, <2>6, RequestKept DEF Holds, Nothing
  <2> QED BY <2>1, <2>5, <2>7 DEF Copying
<1>6. CASE c = <<b + 2, b + 5, "mov", "si", block>>
  <2>1. /\ ip = b + 2 /\ c[1] = b + 2 /\ c[2] = b + 5
        /\ c[3] = "mov" /\ c[4] = "si" /\ c[5] = block
    BY <1>1, <1>6
  <2>2. /\ Kept({"cs", "zf", "cx", "ds", "si"}) /\ stack = Pushed5 /\ buffer = Nothing
        /\ regs.ds = RomSegment
    BY <2>1 DEF Copying, Holds
  <2>3. c[4] \in Registers \ {"cs", "zf", "df"} /\ {"ds", "si", "cx"} \subseteq Registers
    BY <2>1 DEF Registers
  <2>4. /\ ip' = b + 5 /\ request' = request /\ Typed' /\ InRom'
        /\ buffer' = Nothing /\ stack' = Pushed5 /\ regs'.si = block
        /\ \A g \in Registers \ {"si"} : regs'[g] = regs[g]
        /\ Kept({"cs", "zf", "cx", "ds", "si"} \cup {"si"})'
    BY <2>1, <2>2, <2>3, <1>3, MoveMoves
  <2>5. Kept({"cs", "zf", "cx", "ds", "si"})'
    BY <2>4, KeptMore
  <2>6. regs'.ds = RomSegment
    BY <2>2, <2>3, <2>4
  <2>7. Holds({"cs", "zf", "cx", "ds", "si"}, Pushed5)'
    BY <2>4, <2>5, RequestKept DEF Holds, Nothing
  <2> QED BY <2>1, <2>4, <2>6, <2>7 DEF Copying
<1>7. CASE c = <<b + 5, b + 8, "mov", "cx", 256>>
  <2>1. /\ ip = b + 5 /\ c[1] = b + 5 /\ c[2] = b + 8
        /\ c[3] = "mov" /\ c[4] = "cx" /\ c[5] = 256
    BY <1>1, <1>7
  <2>2. /\ Kept({"cs", "zf", "cx", "ds", "si"}) /\ stack = Pushed5 /\ buffer = Nothing
        /\ regs.si = block /\ regs.ds = RomSegment
    BY <2>1 DEF Copying, Holds
  <2>3. c[4] \in Registers \ {"cs", "zf", "df"} /\ {"ds", "si", "cx"} \subseteq Registers
    BY <2>1 DEF Registers
  <2>4. /\ ip' = b + 8 /\ request' = request /\ Typed' /\ InRom'
        /\ buffer' = Nothing /\ stack' = Pushed5 /\ regs'.cx = 256
        /\ \A g \in Registers \ {"cx"} : regs'[g] = regs[g]
        /\ Kept({"cs", "zf", "cx", "ds", "si"} \cup {"cx"})'
    BY <2>1, <2>2, <2>3, <1>3, MoveMoves
  <2>5. Kept({"cs", "zf", "cx", "ds", "si"})'
    BY <2>4, KeptMore
  <2>6. regs'.ds = RomSegment /\ regs'.si = block
    BY <2>2, <2>3, <2>4
  <2>7. Holds({"cs", "zf", "cx", "ds", "si"}, Pushed5)'
    BY <2>4, <2>5, RequestKept DEF Holds, Nothing
  <2> QED BY <2>1, <2>4, <2>6, <2>7 DEF Copying
<1>8. CASE c = <<b + 8, b + 9, "cld">>
  <2>1. ip = b + 8 /\ c[1] = b + 8 /\ c[2] = b + 9 /\ c[3] = "cld"
    BY <1>1, <1>8
  <2>2. /\ Kept({"cs", "zf", "cx", "ds", "si"}) /\ stack = Pushed5 /\ buffer = Nothing
        /\ regs.ds = RomSegment /\ regs.si = block /\ regs.cx = 256
    BY <2>1 DEF Copying, Holds
  <2>3. /\ ip' = b + 9 /\ request' = request /\ Typed' /\ InRom'
        /\ buffer' = Nothing /\ stack' = Pushed5 /\ regs'.df = 0
        /\ \A g \in Registers \ {"df"} : regs'[g] = regs[g]
        /\ Kept({"cs", "zf", "cx", "ds", "si"} \cup {"df"})'
    BY <2>1, <2>2, ClearDirectionMoves
  <2>4. Kept({"cs", "zf", "cx", "ds", "si", "df"})'
    BY <2>3, KeptMore
  <2>5. {"ds", "si", "cx"} \subseteq Registers \ {"df"}
    BY DEF Registers
  <2>6. regs'.ds = RomSegment /\ regs'.si = block /\ regs'.cx = 256
    BY <2>2, <2>3, <2>5
  <2>7. Holds({"cs", "zf", "cx", "ds", "si", "df"}, Pushed5)'
    BY <2>3, <2>4, RequestKept DEF Holds, Nothing
  <2> QED BY <2>1, <2>3, <2>6, <2>7 DEF Copying
<1>9. CASE c = <<b + 9, b + 11, "movsb">>
  <2>1. ip = b + 9 /\ c[1] = b + 9 /\ c[2] = b + 11 /\ c[3] = "movsb"
    BY <1>1, <1>9
  <2>2. /\ Kept({"cs", "zf", "cx", "ds", "si", "df"}) /\ stack = Pushed5
        /\ regs.ds = RomSegment /\ regs.si = block /\ regs.cx = 256 /\ regs.df = 0
    BY <2>1 DEF Copying, Holds
  <2>3. regs.es = request.es /\ regs.di = request.di
    BY <2>2 DEF Kept, Registers
  <2>4. /\ ip' = b + 11 /\ request' = request /\ Typed' /\ InRom' /\ stack' = Pushed5
        /\ buffer' = Copied(block)
        /\ Kept({"cs", "zf", "cx", "ds", "si", "df"} \cup {"cx", "si", "di"})'
    BY <2>1, <2>2, <2>3, CopyMoves DEF Copied
  <2>5. Kept({"cs", "zf", "df", "di", "ds", "si", "cx"})'
    BY <2>4, KeptMore
  <2>6. stack' = Pushed5' /\ buffer' = Copied(block)'
    BY <2>4, RequestKept DEF Copied
  <2> QED BY <2>1, <2>4, <2>5, <2>6 DEF Copying
<1>10. CASE c = <<b + 11, b + 12, "pop", "cx">>
  <2>1. ip = b + 11 /\ c[1] = b + 11 /\ c[2] = b + 12 /\ c[3] = "pop" /\ c[4] = "cx"
    BY <1>1, <1>10
  <2>2. Kept({"cs", "zf", "df", "di", "ds", "si", "cx"}) /\ stack = Pushed5 /\ buffer = Copied(block)
    BY <2>1 DEF Copying
  <2>3. /\ Pushed5 = On(request["cx"], Pushed4) /\ Fits(Pushed4)
        /\ request["cx"] \in Word
    BY <1>2, PushedTyped, RequestTyped DEF Pushed5
  <2>4. c[4] \in Registers \ {"cs", "zf", "df"}
    BY <2>1 DEF Registers
  <2>5. /\ ip' = b + 12 /\ request' = request /\ Typed' /\ InRom'
        /\ buffer' = Copied(block) /\ stack' = Pushed4
        /\ Kept({"cs", "zf", "df", "di", "ds", "si", "cx"} \ {"cx"})'
    BY <2>1, <2>2, <2>3, <2>4, PopMoves
  <2>6. Kept({"cs", "zf", "df", "di", "ds", "si"})'
    BY <2>5, KeptMore
  <2>7. stack' = Pushed4' /\ buffer' = Copied(block)'
    BY <2>5, RequestKept DEF Copied
  <2> QED BY <2>1, <2>5, <2>6, <2>7 DEF Copying
<1>11. CASE c = <<b + 12, b + 13, "pop", "si">>
  <2>1. ip = b + 12 /\ c[1] = b + 12 /\ c[2] = b + 13 /\ c[3] = "pop" /\ c[4] = "si"
    BY <1>1, <1>11
  <2>2. Kept({"cs", "zf", "df", "di", "ds", "si"}) /\ stack = Pushed4 /\ buffer = Copied(block)
    BY <2>1 DEF Copying
  <2>3. /\ Pushed4 = On(request["si"], Pushed3) /\ Fits(Pushed3)
        /\ request["si"] \in Word
    BY <1>2, PushedTyped, RequestTyped DEF Pushed4
  <2>4. c[4] \in Registers \ {"cs", "zf", "df"}
    BY <2>1 DEF Registers
  <2>5. /\ ip' = b + 13 /\ request' = request /\ Typed' /\ InRom'
        /\ buffer' = Copied(block) /\ stack' = Pushed3
        /\ Kept({"cs", "zf", "df", "di", "ds", "si"} \ {"si"})'
    BY <2>1, <2>2, <2>3, <2>4, PopMoves
  <2>6. Kept({"cs", "zf", "df", "di", "ds"})'
    BY <2>5, KeptMore
  <2>7. stack' = Pushed3' /\ buffer' = Copied(block)'
    BY <2>5, RequestKept DEF Copied
  <2> QED BY <2>1, <2>5, <2>6, <2>7 DEF Copying
<1>12. CASE c = <<b + 13, b + 14, "pop", "ds">>
  <2>1. ip = b + 13 /\ c[1] = b + 13 /\ c[2] = b + 14 /\ c[3] = "pop" /\ c[4] = "ds"
    BY <1>1, <1>12
  <2>2. Kept({"cs", "zf", "df", "di", "ds"}) /\ stack = Pushed3 /\ buffer = Copied(block)
    BY <2>1 DEF Copying
  <2>3. /\ Pushed3 = On(request["ds"], Pushed2) /\ Fits(Pushed2)
        /\ request["ds"] \in Word
    BY <1>2, PushedTyped, RequestTyped DEF Pushed3
  <2>4. c[4] \in Registers \ {"cs", "zf", "df"}
    BY <2>1 DEF Registers
  <2>5. /\ ip' = b + 14 /\ request' = request /\ Typed' /\ InRom'
        /\ buffer' = Copied(block) /\ stack' = Pushed2
        /\ Kept({"cs", "zf", "df", "di", "ds"} \ {"ds"})'
    BY <2>1, <2>2, <2>3, <2>4, PopMoves
  <2>6. Kept({"cs", "zf", "df", "di"})'
    BY <2>5, KeptMore
  <2>7. stack' = Pushed2' /\ buffer' = Copied(block)'
    BY <2>5, RequestKept DEF Copied
  <2> QED BY <2>1, <2>5, <2>6, <2>7 DEF Copying
<1>13. CASE c = <<b + 14, b + 15, "pop", "di">>
  <2>1. ip = b + 14 /\ c[1] = b + 14 /\ c[2] = b + 15 /\ c[3] = "pop" /\ c[4] = "di"
    BY <1>1, <1>13
  <2>2. Kept({"cs", "zf", "df", "di"}) /\ stack = Pushed2 /\ buffer = Copied(block)
    BY <2>1 DEF Copying
  <2>3. /\ Pushed2 = On(request["di"], Pushed1) /\ Fits(Pushed1)
        /\ request["di"] \in Word
    BY <1>2, PushedTyped, RequestTyped DEF Pushed2
  <2>4. c[4] \in Registers \ {"cs", "zf", "df"}
    BY <2>1 DEF Registers
  <2>5. /\ ip' = b + 15 /\ request' = request /\ Typed' /\ InRom'
        /\ buffer' = Copied(block) /\ stack' = Pushed1
        /\ Kept({"cs", "zf", "df", "di"} \ {"di"})'
    BY <2>1, <2>2, <2>3, <2>4, PopMoves
  <2>6. Kept({"cs", "zf", "df"})'
    BY <2>5, KeptMore
  <2>7. stack' = Pushed1' /\ buffer' = Copied(block)'
    BY <2>5, RequestKept DEF Copied
  <2> QED BY <2>1, <2>5, <2>6, <2>7 DEF Copying
<1>14. CASE c = <<b + 15, b + 16, "pop", "es">>
  <2>1. ip = b + 15 /\ c[1] = b + 15 /\ c[2] = b + 16 /\ c[3] = "pop" /\ c[4] = "es"
    BY <1>1, <1>14
  <2>2. Kept({"cs", "zf", "df"}) /\ stack = Pushed1 /\ buffer = Copied(block)
    BY <2>1 DEF Copying
  <2>3. /\ Pushed1 = On(request["es"], Frame) /\ Fits(Frame)
        /\ request["es"] \in Word
    BY <1>2, PushedTyped, RequestTyped DEF Pushed1
  <2>4. c[4] \in Registers \ {"cs", "zf", "df"}
    BY <2>1 DEF Registers
  <2>5. /\ ip' = b + 16 /\ request' = request /\ Typed' /\ InRom'
        /\ buffer' = Copied(block) /\ stack' = Frame
        /\ Kept({"cs", "zf", "df"} \ {"es"})'
    BY <2>1, <2>2, <2>3, <2>4, PopMoves
  <2>6. Kept({"cs", "zf", "df"})'
    BY <2>5, KeptMore
  <2>7. stack' = Frame' /\ buffer' = Copied(block)'
    BY <2>5, RequestKept DEF Copied
  <2> QED BY <2>1, <2>5, <2>6, <2>7 DEF Copying
<1>15. CASE c = <<b + 16, b + 18, "jmp", 647>>
  <2>1. ip = b + 16 /\ c[1] = b + 16 /\ c[3] = "jmp" /\ c[4] = 647
    BY <1>1, <1>15
  <2>2. Kept({"cs", "zf", "df"}) /\ stack = Frame /\ buffer = Copied(block)
    BY <2>1 DEF Copying
  <2>3. /\ ip' = 647 /\ request' = request /\ Typed' /\ InRom' /\ stack' = stack
        /\ buffer' = buffer /\ Kept({"cs", "zf", "df"})'
    BY <2>1, <2>2, JumpMoves
  <2>4. stack' = Frame' /\ buffer' = Copied(block)'
    BY <2>2, <2>3, RequestKept DEF Copied
  <2> QED BY <2>1, <2>3, <2>4
<1> QED
  BY <1>4, <1>5, <1>6, <1>7, <1>8, <1>9, <1>10, <1>11, <1>12, <1>13, <1>14, <1>15
     DEF Copies

LEMMA Blocks ==
  /\ GetInfoCode \subseteq Pushes(549) \cup Copies(554, 0)
  /\ GetModeInfoCode \subseteq Pushes(572) \cup Copies(589, 256)
       \cup {<<577, 581, "clear14", "cx">>, <<581, 585, "cmp", "cx", 241>>,
             <<585, 587, "jz", 589>>, <<587, 589, "jmp", 547>>}
<1>1. ASSUME NEW c \in GetInfoCode
      PROVE  c \in Pushes(549) \/ c \in Copies(554, 0)
  BY <1>1 DEF GetInfoCode, Pushes, Copies
<1>2. ASSUME NEW c \in GetModeInfoCode
      PROVE  \/ c \in Pushes(572) \/ c \in Copies(589, 256)
             \/ c \in {<<577, 581, "clear14", "cx">>, <<581, 585, "cmp", "cx", 241>>,
                        <<585, 587, "jz", 589>>, <<587, 589, "jmp", 547>>}
  BY <1>2 DEF GetModeInfoCode, Pushes, Copies
<1> QED BY <1>1, <1>2

LEMMA PushEnds ==
  ASSUME NEW b \in Nat, NEW c \in Pushes(b)
  PROVE  c[1] \in b .. b + 4 /\ c[2] = c[1] + 1
BY DEF Pushes

LEMMA CopyEnds ==
  ASSUME NEW b \in Nat, NEW block, NEW c \in Copies(b, block)
  PROVE  /\ c[1] \in {b, b + 1, b + 2, b + 5, b + 8, b + 9, b + 11, b + 12, b + 13,
                      b + 14, b + 15, b + 16}
         /\ c[1] # b + 16 =>
              c[2] \in {b + 1, b + 2, b + 5, b + 8, b + 9, b + 11, b + 12, b + 13,
                        b + 14, b + 15, b + 16}
BY DEF Copies

LEMMA InformationStep ==
  ASSUME IInv, NEW c \in GetInfoCode, Execute(c)
  PROVE  IInv'
<1>1. Typed /\ Information /\ ip = c[1]
  BY OneOperation DEF IInv, Running
<1>2. CASE c \in Pushes(549)
  <2>1. 549 \in Nat /\ Saving(549)
    BY <1>1 DEF Information
  <2>2. Typed' /\ InRom' /\ request' = request /\ ip' = c[2] /\ Saving(549)'
    BY <1>1, <1>2, <2>1, SavingStep
  <2>3. ip \in 549 .. 553 /\ ip' = ip + 1
    BY <1>1, <1>2, <2>1, <2>2, PushEnds
  <2>4. ip' \in Offsets
    BY <2>3, OffsetsAre
  <2>5. Copying(554, 0)'
    <3>1. CASE ip' # 554
      BY <2>3, <3>1 DEF Copying
    <3>2. CASE ip' = 554
      <4>1. Holds({"cs", "zf"}, Pushed5)'
        BY <2>2, <3>2 DEF Saving
      <4>2. Holds({"cs", "zf", "cx"}, Pushed5)'
        BY <4>1, KeptMore DEF Holds
      <4> QED BY <3>2, <4>2 DEF Copying
    <3> QED BY <3>1, <3>2
  <2>6. Information'
    BY <1>1, <2>2, <2>3, <2>5 DEF Information
  <2>7. Running'
    BY <2>3, <2>4, <2>6, Outside DEF Running
  <2> QED BY <2>2, <2>7, StillInRom
<1>3. CASE c \in Copies(554, 0)
  <2>1. 554 \in Nat /\ 0 \in Word /\ Copying(554, 0)
    BY <1>1 DEF Information, Word
  <2>2. /\ Typed' /\ InRom' /\ request' = request
        /\ \/ ip' = c[2] /\ c[2] \in 554 .. 554 + 16 /\ Copying(554, 0)'
           \/ /\ c[1] = 554 + 16 /\ ip' = 647 /\ Kept({"cs", "zf", "df"})'
              /\ stack' = Frame' /\ buffer' = Copied(0)'
    BY <1>1, <1>3, <2>1, CopyingStep
  <2>3. ip \in 549 .. 570
    BY <1>1, <1>3, <2>1, CopyEnds
  <2>4. request.ax = 20224
    BY <1>1, <2>3 DEF Information
  <2>5. CASE ip' = c[2] /\ c[1] # 570 /\ Copying(554, 0)'
    <3>1. ip' \in {555, 556, 559, 562, 563, 565, 566, 567, 568, 569, 570}
      BY <1>3, <2>1, <2>5, CopyEnds
    <3>2. Saving(549)'
      BY <3>1 DEF Saving
    <3>3. Information'
      BY <2>2, <2>4, <2>5, <3>2 DEF Information
    <3> QED BY <2>2, <3>1, <3>3, OffsetsAre, Outside, StillInRom DEF Running
  <2>6. CASE ip' = 647 /\ Kept({"cs", "zf", "df"})' /\ stack' = Frame' /\ buffer' = Copied(0)'
    <3>1. Kept({"cs", "zf", "df", "bx"})'
      BY <2>6, KeptMore
    <3>2. regs'.bx = request'.bx
      BY <2>6 DEF Kept, Registers
    <3>3. Ending'
      BY <2>2, <2>4, <2>6, <3>1, <3>2 DEF Ending, Done
    <3> QED BY <2>2, <2>6, <3>3, OffsetsAre, Outside, StillInRom DEF Running
  <2>7. c[1] = 570 => ~(c[2] \in 554 .. 554 + 16)
    BY <1>3 DEF Copies
  <2> QED BY <2>2, <2>5, <2>6, <2>7
<1> QED BY <1>2, <1>3, Blocks

LEMMA ModeInformationStep ==
  ASSUME IInv, NEW c \in GetModeInfoCode, Execute(c)
  PROVE  IInv'
<1>1. Typed /\ InRom /\ ModeInformation /\ ip = c[1]
  BY OneOperation DEF IInv, Running
<1>2. CASE c \in Pushes(572)
  <2>1. 572 \in Nat /\ Saving(572)
    BY <1>1 DEF ModeInformation
  <2>2. Typed' /\ InRom' /\ request' = request /\ ip' = c[2] /\ Saving(572)'
    BY <1>1, <1>2, <2>1, SavingStep
  <2>3. ip \in 572 .. 576 /\ ip' = ip + 1
    BY <1>1, <1>2, <2>1, <2>2, PushEnds
  <2>4. Copying(589, 256)'
    BY <2>3 DEF Copying
  <2>5. ModeInformation'
    BY <1>1, <2>2, <2>3, <2>4 DEF ModeInformation
  <2>6. ip' \in Offsets
    BY <2>3, OffsetsAre
  <2>7. Running'
    BY <2>3, <2>5, <2>6, Outside DEF Running
  <2> QED BY <2>2, <2>7, StillInRom
<1>3. CASE c = <<577, 581, "clear14", "cx">>
  <2>1. ip = 577 /\ c[2] = 581 /\ c[3] = "clear14"
    BY <1>1, <1>3
  <2>2. Holds({"cs", "zf"}, Pushed5) /\ request.ax = 20225
    BY <1>1, <2>1 DEF ModeInformation, Saving
  <2>3. regs.cx = request.cx
    BY <2>2 DEF Holds, Kept, Registers
  <2>4. /\ ip' = 581 /\ request' = request /\ Typed' /\ InRom'
        /\ stack' = stack /\ buffer' = buffer /\ regs'.cx = Masked
        /\ Kept({"cs", "zf"} \cup {"cx", "zf"})'
    BY <1>1, <2>1, <2>2, <2>3, ClearBit14Moves DEF Holds, Masked
  <2>5. Kept({"cs", "zf", "cx"})'
    BY <2>4, KeptMore
  <2>6. Holds({"cs", "zf", "cx"}, Pushed5)' /\ regs'.cx = Masked'
    BY <2>2, <2>4, <2>5, RequestKept DEF Holds, Nothing
  <2>7. ModeInformation'
    BY <2>2, <2>4, <2>6 DEF ModeInformation, Saving, Copying
  <2> QED BY <2>4, <2>7, OffsetsAre, Outside, StillInRom DEF Running
<1>4. CASE c = <<581, 585, "cmp", "cx", 241>>
  <2>1. ip = 581 /\ c[2] = 585 /\ c[3] = "cmp" /\ c[4] = "cx" /\ c[5] = 241
    BY <1>1, <1>4
  <2>2. Holds({"cs", "zf", "cx"}, Pushed5) /\ request.ax = 20225 /\ regs.cx = Masked
    BY <1>1, <2>1 DEF ModeInformation
  <2>3. Read("cx") = regs.cx /\ "cx" \in Registers \ {"zf"}
    BY DEF Read, Registers
  <2>4. /\ ip' = 585 /\ request' = request /\ Typed' /\ InRom'
        /\ stack' = stack /\ buffer' = buffer /\ (regs'.zf = 1 <=> Masked = 241)
        /\ regs'["cx"] = regs["cx"]
        /\ Kept({"cs", "zf", "cx"} \cup {"zf"})'
    BY <1>1, <2>1, <2>2, <2>3, CompareMoves DEF Holds
  <2>5. Kept({"cs", "zf", "cx"})'
    BY <2>4, KeptMore
  <2>6. Holds({"cs", "zf", "cx"}, Pushed5)' /\ regs'.cx = Masked' /\ Masked' = Masked
    BY <2>2, <2>4, <2>5, RequestKept DEF Holds, Nothing
  <2>7. ModeInformation'
    BY <2>2, <2>4, <2>6 DEF ModeInformation, Saving, Copying, Tells
  <2> QED BY <2>4, <2>7, OffsetsAre, Outside, StillInRom DEF Running
<1>5. CASE c = <<585, 587, "jz", 589>>
  <2>1. ip = 585 /\ c[2] = 587 /\ c[3] = "jz" /\ c[4] = 589
    BY <1>1, <1>5
  <2>2. /\ Holds({"cs", "zf", "cx"}, Pushed5) /\ request.ax = 20225
        /\ regs.zf = 1 <=> Masked = 241
    BY <1>1, <2>1 DEF ModeInformation, Tells
  <2>3. /\ ip' = (IF Masked = 241 THEN 589 ELSE 587)
        /\ request' = request /\ Typed' /\ InRom'
        /\ stack' = stack /\ buffer' = buffer /\ Kept({"cs", "zf", "cx"})'
    BY <1>1, <2>1, <2>2, JumpMoves DEF Holds
  <2>4. Holds({"cs", "zf", "cx"}, Pushed5)' /\ Masked' = Masked
    BY <2>2, <2>3, RequestKept DEF Holds, Nothing
  <2>5. CASE Masked = 241
    <3>1. ip' = 589
      BY <2>3, <2>5
    <3>2. ModeInformation'
      BY <2>2, <2>3, <2>4, <2>5, <3>1 DEF ModeInformation, Saving, Copying
    <3> QED BY <2>3, <3>1, <3>2, OffsetsAre, Outside, StillInRom DEF Running
  <2>6. CASE Masked # 241
    <3>1. ip' = 587
      BY <2>3, <2>6
    <3>2. ModeInformation'
      BY <2>2, <2>3, <2>4, <2>6, <3>1 DEF ModeInformation, Saving, Copying
    <3> QED BY <2>3, <3>1, <3>2, OffsetsAre, Outside, StillInRom DEF Running
  <2> QED BY <2>5, <2>6
<1>6. CASE c = <<587, 589, "jmp", 547>>
  <2>1. ip = 587 /\ c[3] = "jmp" /\ c[4] = 547
    BY <1>1, <1>6
  <2>2. request.ax = 20225 /\ Masked # 241
    BY <1>1, <2>1 DEF ModeInformation
  <2>3. ip' = 547 /\ request' = request /\ Typed' /\ InRom'
    BY <1>1, <2>1, JumpMoves
  <2>4. Hung'
    BY <2>2, <2>3, RequestKept DEF Hung, Known
  <2> QED BY <2>3, <2>4, OffsetsAre, Outside, StillInRom DEF Running
<1>7. CASE c \in Copies(589, 256)
  <2>1. 589 \in Nat /\ 256 \in Word /\ Copying(589, 256)
    BY <1>1 DEF ModeInformation, Word
  <2>2. /\ Typed' /\ InRom' /\ request' = request
        /\ \/ ip' = c[2] /\ c[2] \in 589 .. 589 + 16 /\ Copying(589, 256)'
           \/ /\ c[1] = 589 + 16 /\ ip' = 647 /\ Kept({"cs", "zf", "df"})'
              /\ stack' = Frame' /\ buffer' = Copied(256)'
    BY <1>1, <1>7, <2>1, CopyingStep
  <2>3. ip \in 589 .. 605
    BY <1>1, <1>7, <2>1, CopyEnds
  <2>4. request.ax = 20225 /\ Masked = 241 /\ Masked' = Masked
    BY <1>1, <2>2, <2>3, RequestKept DEF ModeInformation
  <2>5. CASE ip' = c[2] /\ c[1] # 605 /\ Copying(589, 256)'
    <3>1. ip' \in {590, 591, 594, 597, 598, 600, 601, 602, 603, 604, 605}
      BY <1>7, <2>1, <2>5, CopyEnds
    <3>2. Saving(572)'
      BY <3>1 DEF Saving
    <3>3. ModeInformation'
      BY <2>2, <2>4, <2>5, <3>1, <3>2 DEF ModeInformation
    <3> QED BY <2>2, <3>1, <3>3, OffsetsAre, Outside, StillInRom DEF Running
  <2>6. CASE ip' = 647 /\ Kept({"cs", "zf", "df"})' /\ stack' = Frame' /\ buffer' = Copied(256)'
    <3>1. Kept({"cs", "zf", "df", "bx"})'
      BY <2>6, KeptMore
    <3>2. regs'.bx = request'.bx
      BY <2>6 DEF Kept, Registers
    <3>3. Ending'
      BY <2>2, <2>4, <2>6, <3>1, <3>2 DEF Ending, Done
    <3> QED BY <2>2, <2>6, <3>3, OffsetsAre, Outside, StillInRom DEF Running
  <2>7. c[1] = 605 => ~(c[2] \in 589 .. 589 + 16)
    BY <1>7 DEF Copies
  <2> QED BY <2>2, <2>5, <2>6, <2>7
<1> QED BY <1>2, <1>3, <1>4, <1>5, <1>6, <1>7, Blocks

LEMMA ModeSettingStep ==
  ASSUME IInv, NEW c \in SetModeCode, Execute(c)
  PROVE  IInv'
<1>1. Typed /\ InRom /\ ModeSetting /\ ip = c[1]
  BY OneOperation DEF IInv, Running
<1>2. request \in Requests
  BY <1>1 DEF Typed
<1>3. CASE c = <<607, 608, "push", "dx">>
  <2>1. ip = 607 /\ c[1] = 607 /\ c[2] = 608 /\ c[3] = "push" /\ c[4] = "dx"
    BY <1>1, <1>3
  <2>2. /\ Holds({"cs", "zf"}, Frame) /\ "dx" \in Registers \ {"cs", "zf"}
        /\ request.ax = 20226
    BY <1>1, <2>1 DEF ModeSetting, Asked, Registers
  <2>3. PushedDx = On(request["dx"], Frame) /\ Fits(PushedDx)
    BY <1>2, PushedTyped DEF PushedDx
  <2>4. /\ ip' = 608 /\ request' = request /\ Typed' /\ InRom'
        /\ Kept({"cs", "zf"})' /\ buffer' = Nothing /\ stack' = PushedDx
    BY <1>1, <2>1, <2>2, <2>3, PushHolds
  <2>5. Holds({"cs", "zf"}, PushedDx)'
    BY <2>4, RequestKept DEF Holds, Nothing
  <2>6. ModeSetting'
    BY <2>2, <2>4, <2>5 DEF ModeSetting
  <2> QED BY <2>4, <2>6, OffsetsAre, Outside, StillInRom DEF Running
<1>4. CASE c = <<608, 609, "push", "ax">>
  <2>1. ip = 608 /\ c[1] = 608 /\ c[2] = 609 /\ c[3] = "push" /\ c[4] = "ax"
    BY <1>1, <1>4
  <2>2. /\ Holds({"cs", "zf"}, PushedDx) /\ "ax" \in Registers \ {"cs", "zf"}
        /\ request.ax = 20226
    BY <1>1, <2>1 DEF ModeSetting, Registers
  <2>3. PushedAx = On(request["ax"], PushedDx) /\ Fits(PushedAx)
    BY <1>2, PushedTyped DEF PushedAx
  <2>4. /\ ip' = 609 /\ request' = request /\ Typed' /\ InRom'
        /\ Kept({"cs", "zf"})' /\ buffer' = Nothing /\ stack' = PushedAx
    BY <1>1, <2>1, <2>2, <2>3, PushHolds
  <2>5. Holds({"cs", "zf"}, PushedAx)'
    BY <2>4, RequestKept DEF Holds, Nothing
  <2>6. ModeSetting'
    BY <2>2, <2>4, <2>5 DEF ModeSetting
  <2> QED BY <2>4, <2>6, OffsetsAre, Outside, StillInRom DEF Running
<1>5. CASE c = <<609, 613, "cmp", "bx", 16625>>
  <2>1. ip = 609 /\ c[2] = 613 /\ c[3] = "cmp" /\ c[4] = "bx" /\ c[5] = 16625
    BY <1>1, <1>5
  <2>2. Holds({"cs", "zf"}, PushedAx) /\ request.ax = 20226
    BY <1>1, <2>1 DEF ModeSetting
  <2>3. Read("bx") = request.bx
    BY <2>2 DEF Holds, Kept, Read, Registers
  <2>4. /\ ip' = 613 /\ request' = request /\ Typed' /\ InRom'
        /\ stack' = stack /\ buffer' = buffer /\ (regs'.zf = 1 <=> request.bx = 16625)
        /\ Kept({"cs", "zf"} \cup {"zf"})'
    BY <1>1, <2>1, <2>2, <2>3, CompareMoves DEF Holds
  <2>5. Kept({"cs", "zf"})'
    BY <2>4, KeptMore
  <2>6. Holds({"cs", "zf"}, PushedAx)'
    BY <2>2, <2>4, <2>5, RequestKept DEF Holds, Nothing
  <2>7. ModeSetting'
    BY <2>2, <2>4, <2>6 DEF ModeSetting, Tells
  <2> QED BY <2>4, <2>7, OffsetsAre, Outside, StillInRom DEF Running
<1>6. CASE c = <<613, 615, "jz", 617>>
  <2>1. ip = 613 /\ c[2] = 615 /\ c[3] = "jz" /\ c[4] = 617
    BY <1>1, <1>6
  <2>2. /\ Holds({"cs", "zf"}, PushedAx) /\ request.ax = 20226
        /\ regs.zf = 1 <=> request.bx = 16625
    BY <1>1, <2>1 DEF ModeSetting, Tells
  <2>3. /\ ip' = (IF request.bx = 16625 THEN 617 ELSE 615)
        /\ request' = request /\ Typed' /\ InRom'
        /\ stack' = stack /\ buffer' = buffer /\ Kept({"cs", "zf"})'
    BY <1>1, <2>1, <2>2, JumpMoves DEF Holds
  <2>4. Holds({"cs", "zf"}, PushedAx)'
    BY <2>2, <2>3, RequestKept DEF Holds, Nothing
  <2>5. ModeSetting'
    BY <2>2, <2>3, <2>4 DEF ModeSetting
  <2> QED BY <2>3, <2>5, OffsetsAre, Outside, StillInRom DEF Running
<1>7. CASE c = <<615, 617, "jmp", 547>>
  <2>1. ip = 615 /\ c[3] = "jmp" /\ c[4] = 547
    BY <1>1, <1>7
  <2>2. request.ax = 20226 /\ request.bx # 16625
    BY <1>1, <2>1 DEF ModeSetting
  <2>3. ip' = 547 /\ request' = request /\ Typed' /\ InRom'
    BY <1>1, <2>1, JumpMoves
  <2>4. Hung'
    BY <2>2, <2>3, RequestKept DEF Hung, Known
  <2> QED BY <2>3, <2>4, OffsetsAre, Outside, StillInRom DEF Running
<1>8. CASE c = <<617, 618, "pop", "ax">>
  <2>1. ip = 617 /\ c[1] = 617 /\ c[2] = 618 /\ c[3] = "pop" /\ c[4] = "ax"
    BY <1>1, <1>8
  <2>2. /\ Kept({"cs", "zf"}) /\ stack = PushedAx /\ buffer = Nothing
        /\ request.ax = 20226 /\ request.bx = 16625
    BY <1>1, <2>1 DEF ModeSetting, Holds
  <2>3. PushedAx = On(request["ax"], PushedDx) /\ Fits(PushedDx) /\ request["ax"] \in Word
    BY <1>2, PushedTyped, RequestTyped DEF PushedAx
  <2>4. c[4] \in Registers \ {"cs", "zf", "df"}
    BY <2>1 DEF Registers
  <2>5. /\ ip' = 618 /\ request' = request /\ Typed' /\ InRom'
        /\ buffer' = Nothing /\ stack' = PushedDx /\ Kept({"cs", "zf"} \ {"ax"})'
    BY <1>1, <2>1, <2>2, <2>3, <2>4, PopMoves
  <2>6. Kept({"cs", "zf"})'
    BY <2>5, KeptMore
  <2>7. Holds({"cs", "zf"}, PushedDx)'
    BY <2>5, <2>6, RequestKept DEF Holds, Nothing
  <2>8. ModeSetting'
    BY <2>2, <2>5, <2>7 DEF ModeSetting
  <2> QED BY <2>5, <2>8, OffsetsAre, Outside, StillInRom DEF Running
<1>9. CASE c = <<618, 619, "pop", "dx">>
  <2>1. ip = 618 /\ c[1] = 618 /\ c[2] = 619 /\ c[3] = "pop" /\ c[4] = "dx"
    BY <1>1, <1>9
  <2>2. /\ Kept({"cs", "zf"}) /\ stack = PushedDx /\ buffer = Nothing
        /\ request.ax = 20226 /\ request.bx = 16625
    BY <1>1, <2>1 DEF ModeSetting, Holds
  <2>3. PushedDx = On(request["dx"], Frame) /\ Fits(Frame) /\ request["dx"] \in Word
    BY <1>2, PushedTyped, RequestTyped DEF PushedDx
  <2>4. c[4] \in Registers \ {"cs", "zf", "df"}
    BY <2>1 DEF Registers
  <2>5. /\ ip' = 619 /\ request' = request /\ Typed' /\ InRom'
        /\ buffer' = Nothing /\ stack' = Frame /\ Kept({"cs", "zf"} \ {"dx"})'
    BY <1>1, <2>1, <2>2, <2>3, <2>4, PopMoves
  <2>6. Kept({"cs", "zf"})'
    BY <2>5, KeptMore
  <2>7. Asked'
    BY <2>5, <2>6, RequestKept DEF Asked, Holds, Nothing
  <2>8. ModeSetting'
    BY <2>2, <2>5, <2>7 DEF ModeSetting
  <2> QED BY <2>5, <2>8, OffsetsAre, Outside, StillInRom DEF Running
<1>10. CASE c = <<619, 621, "jmp", 647>>
  <2>1. ip = 619 /\ c[3] = "jmp" /\ c[4] = 647
    BY <1>1, <1>10
  <2>2. Holds({"cs", "zf"}, Frame) /\ request.ax = 20226 /\ request.bx = 16625
    BY <1>1, <2>1 DEF ModeSetting, Asked
  <2>3. /\ ip' = 647 /\ request' = request /\ Typed' /\ InRom' /\ stack' = stack
        /\ buffer' = buffer /\ regs' = regs /\ Kept({"cs", "zf"})'
    BY <1>1, <2>1, <2>2, JumpMoves DEF Holds
  <2>4. Kept({"cs", "zf", "df", "bx"})'
    BY <2>3, KeptMore
  <2>5. regs'.bx = request'.bx
    BY <2>3 DEF Kept, Registers
  <2>6. stack' = Frame' /\ buffer' = Nothing
    BY <2>2, <2>3, RequestKept DEF Holds
  <2>7. Ending'
    BY <2>2, <2>3, <2>4, <2>5, <2>6 DEF Ending, Done, Nothing
  <2> QED BY <2>3, <2>7, OffsetsAre, Outside, StillInRom DEF Running
<1> QED
  BY <1>3, <1>4, <1>5, <1>6, <1>7, <1>8, <1>9, <1>10 DEF SetModeCode

LEMMA OthersStep ==
  ASSUME IInv, NEW c \in OtherVbeCode, Execute(c)
  PROVE  IInv'
<1>1. Typed /\ InRom /\ Others /\ ip = c[1]
  BY OneOperation DEF IInv, Running
<1>2. CASE c = <<621, 624, "mov", "bx", 16625>>
  <2>1. ip = 621 /\ c[2] = 624 /\ c[3] = "mov" /\ c[4] = "bx" /\ c[5] = 16625
    BY <1>1, <1>2
  <2>2. Holds({"cs", "zf"}, Frame) /\ request.ax = 20227
    BY <1>1, <2>1 DEF Others, Asked
  <2>3. c[4] \in Registers \ {"cs", "zf", "df"} /\ c[5] \in Word
    BY <2>1 DEF Registers, Word
  <2>4. /\ ip' = 624 /\ request' = request /\ Typed' /\ InRom'
        /\ buffer' = buffer /\ stack' = stack /\ regs'.bx = 16625
        /\ Kept({"cs", "zf"} \cup {"bx"})'
    BY <1>1, <2>1, <2>2, <2>3, MoveMoves DEF Holds
  <2>5. Kept({"cs", "zf", "bx"})'
    BY <2>4, KeptMore
  <2>6. Holds({"cs", "zf", "bx"}, Frame)'
    BY <2>2, <2>4, <2>5, RequestKept DEF Holds, Nothing
  <2>7. Others'
    BY <2>2, <2>4, <2>6 DEF Others
  <2> QED BY <2>4, <2>7, OffsetsAre, Outside, StillInRom DEF Running
<1>3. CASE c = <<624, 626, "jmp", 647>>
  <2>1. ip = 624 /\ c[3] = "jmp" /\ c[4] = 647
    BY <1>1, <1>3
  <2>2. Holds({"cs", "zf", "bx"}, Frame) /\ request.ax = 20227 /\ regs.bx = 16625
    BY <1>1, <2>1 DEF Others
  <2>3. /\ ip' = 647 /\ request' = request /\ Typed' /\ InRom' /\ stack' = stack
        /\ buffer' = buffer /\ regs' = regs /\ Kept({"cs", "zf", "bx"})'
    BY <1>1, <2>1, <2>2, JumpMoves DEF Holds
  <2>4. Kept({"cs", "zf", "df", "bx"})'
    BY <2>3, KeptMore
  <2>5. stack' = Frame' /\ buffer' = Nothing
    BY <2>2, <2>3, RequestKept DEF Holds
  <2>6. Ending'
    BY <2>2, <2>3, <2>4, <2>5 DEF Ending, Done, Nothing
  <2> QED BY <2>3, <2>6, OffsetsAre, Outside, StillInRom DEF Running
<1>4. CASE c \in {<<626, 628, "jmp", 651>>, <<628, 630, "jmp", 651>>}
  <2>1. ip \in {626, 628} /\ c[3] = "jmp" /\ c[4] = 651
    BY <1>1, <1>4
  <2>2. Holds({"cs", "zf"}, Frame) /\ request.ax \in {20240, 20245}
    BY <1>1, <2>1 DEF Others, Asked
  <2>3. /\ ip' = 651 /\ request' = request /\ Typed' /\ InRom' /\ stack' = stack
        /\ buffer' = buffer /\ Kept({"cs", "zf"})'
    BY <1>1, <2>1, <2>2, JumpMoves DEF Holds
  <2>4. Asked'
    BY <2>2, <2>3, RequestKept DEF Asked, Holds, Nothing
  <2>5. Ending'
    BY <2>2, <2>3, <2>4 DEF Ending
  <2> QED BY <2>3, <2>5, OffsetsAre, Outside, StillInRom DEF Running
<1> QED BY <1>2, <1>3, <1>4 DEF OtherVbeCode

LEMMA LowByte ==
  ASSUME NEW n \in Word, NEW k \in 0 .. 255, High(n) = 0
  PROVE  Low(n) = k <=> n = k
BY DEF Word, High, Low

LEMMA LegacyStep ==
  ASSUME IInv, NEW c \in SetModeLegacyCode, Execute(c), c[3] # "iret"
  PROVE  IInv'
<1>1. Typed /\ InRom /\ Legacy /\ ip = c[1]
  BY OneOperation DEF IInv, Running
<1>2. request.ax \in Word
  BY <1>1, RequestTyped DEF Typed
<1>3. CASE c = <<630, 632, "cmp", "al", 3>>
  <2>1. ip = 630 /\ c[2] = 632 /\ c[3] = "cmp" /\ c[4] = "al" /\ c[5] = 3
    BY <1>1, <1>3
  <2>2. Holds({"cs", "zf"}, Frame) /\ High(request.ax) = 0
    BY <1>1, <2>1 DEF Legacy, Asked
  <2>3. Read("al") = Low(request.ax)
    BY <2>2 DEF Holds, Kept, Read, Registers
  <2>4. Read("al") = 3 <=> request.ax = 3
    BY <1>2, <2>2, <2>3, LowByte
  <2>5. /\ ip' = 632 /\ request' = request /\ Typed' /\ InRom'
        /\ stack' = stack /\ buffer' = buffer /\ (regs'.zf = 1 <=> request.ax = 3)
        /\ Kept({"cs", "zf"} \cup {"zf"})'
    BY <1>1, <2>1, <2>2, <2>4, CompareMoves DEF Holds
  <2>6. Kept({"cs", "zf"})'
    BY <2>5, KeptMore
  <2>7. Asked'
    BY <2>2, <2>5, <2>6, RequestKept DEF Asked, Holds, Nothing
  <2>8. Legacy'
    BY <2>2, <2>5, <2>7 DEF Legacy, Tells
  <2> QED BY <2>5, <2>8, OffsetsAre, Outside, StillInRom DEF Running
<1>4. CASE c = <<634, 636, "cmp", "al", 18>>
  <2>1. ip = 634 /\ c[2] = 636 /\ c[3] = "cmp" /\ c[4] = "al" /\ c[5] = 18
    BY <1>1, <1>4
  <2>2. Holds({"cs", "zf"}, Frame) /\ High(request.ax) = 0 /\ request.ax # 3
    BY <1>1, <2>1 DEF Legacy, Asked
  <2>3. Read("al") = Low(request.ax)
    BY <2>2 DEF Holds, Kept, Read, Registers
  <2>4. Read("al") = 18 <=> request.ax = 18
    BY <1>2, <2>2, <2>3, LowByte
  <2>5. /\ ip' = 636 /\ request' = request /\ Typed' /\ InRom'
        /\ stack' = stack /\ buffer' = buffer /\ (regs'.zf = 1 <=> request.ax = 18)
        /\ Kept({"cs", "zf"} \cup {"zf"})'
    BY <1>1, <2>1, <2>2, <2>4, CompareMoves DEF Holds
  <2>6. Kept({"cs", "zf"})'
    BY <2>5, KeptMore
  <2>7. Asked'
    BY <2>2, <2>5, <2>6, RequestKept DEF Asked, Holds, Nothing
  <2>8. Legacy'
    BY <2>2, <2>5, <2>7 DEF Legacy, Tells
  <2> QED BY <2>5, <2>8, OffsetsAre, Outside, StillInRom DEF Running
<1>5. CASE c = <<632, 634, "jz", 640>>
  <2>1. ip = 632 /\ c[2] = 634 /\ c[3] = "jz" /\ c[4] = 640
    BY <1>1, <1>5
  <2>2. /\ Holds({"cs", "zf"}, Frame) /\ High(request.ax) = 0
        /\ regs.zf = 1 <=> request.ax = 3
    BY <1>1, <2>1 DEF Legacy, Asked, Tells
  <2>3. /\ ip' = (IF request.ax = 3 THEN 640 ELSE 634)
        /\ request' = request /\ Typed' /\ InRom'
        /\ stack' = stack /\ buffer' = buffer /\ Kept({"cs", "zf"})'
    BY <1>1, <2>1, <2>2, JumpMoves DEF Holds
  <2>4. Asked'
    BY <2>2, <2>3, RequestKept DEF Asked, Holds, Nothing
  <2>5. Legacy'
    BY <2>2, <2>3, <2>4 DEF Legacy
  <2> QED BY <2>3, <2>5, OffsetsAre, Outside, StillInRom DEF Running
<1>6. CASE c = <<636, 638, "jz", 644>>
  <2>1. ip = 636 /\ c[2] = 638 /\ c[3] = "jz" /\ c[4] = 644
    BY <1>1, <1>6
  <2>2. /\ Holds({"cs", "zf"}, Frame) /\ High(request.ax) = 0 /\ request.ax # 3
        /\ regs.zf = 1 <=> request.ax = 18
    BY <1>1, <2>1 DEF Legacy, Asked, Tells
  <2>3. /\ ip' = (IF request.ax = 18 THEN 644 ELSE 638)
        /\ request' = request /\ Typed' /\ InRom'
        /\ stack' = stack /\ buffer' = buffer /\ Kept({"cs", "zf"})'
    BY <1>1, <2>1, <2>2, JumpMoves DEF Holds
  <2>4. Asked'
    BY <2>2, <2>3, RequestKept DEF Asked, Holds, Nothing
  <2>5. Legacy'
    BY <2>2, <2>3, <2>4 DEF Legacy
  <2> QED BY <2>3, <2>5, OffsetsAre, Outside, StillInRom DEF Running
<1>7. CASE c = <<638, 640, "jmp", 547>>
  <2>1. ip = 638 /\ c[3] = "jmp" /\ c[4] = 547
    BY <1>1, <1>7
  <2>2. High(request.ax) = 0 /\ request.ax # 3 /\ request.ax # 18
    BY <1>1, <2>1 DEF Legacy
  <2>3. ip' = 547 /\ request' = request /\ Typed' /\ InRom'
    BY <1>1, <2>1, JumpMoves
  <2>4. ~Known
    BY <2>2 DEF Known, High
  <2>5. Hung'
    BY <2>3, <2>4, RequestKept DEF Hung
  <2> QED BY <2>3, <2>5, OffsetsAre, Outside, StillInRom DEF Running
<1>8. CASE c = <<640, 642, "mov", "al", 48>>
  <2>1. ip = 640 /\ c[2] = 642 /\ c[3] = "mov" /\ c[4] = "al" /\ c[5] = 48
    BY <1>1, <1>8
  <2>2. Holds({"cs", "zf"}, Frame) /\ request.ax = 3
    BY <1>1, <2>1 DEF Legacy, Asked
  <2>3. regs.ax = 3
    BY <2>2 DEF Holds, Kept, Registers
  <2>4. /\ ip' = 642 /\ request' = request /\ Typed' /\ InRom'
        /\ buffer' = buffer /\ stack' = stack /\ regs'.ax = High(regs.ax) * 256 + 48
        /\ Kept({"cs", "zf"} \cup {"ax"})'
    BY <1>1, <2>1, <2>2, MoveLowMoves DEF Holds
  <2>5. regs'.ax = 48
    BY <2>3, <2>4 DEF High
  <2>6. Kept({"cs", "zf", "ax"})'
    BY <2>4, KeptMore
  <2>7. Holds({"cs", "zf", "ax"}, Frame)'
    BY <2>2, <2>4, <2>6, RequestKept DEF Holds, Nothing
  <2>8. Legacy'
    BY <2>2, <2>4, <2>5, <2>7 DEF Legacy
  <2> QED BY <2>4, <2>8, OffsetsAre, Outside, StillInRom DEF Running
<1>9. CASE c = <<644, 646, "mov", "al", 32>>
  <2>1. ip = 644 /\ c[2] = 646 /\ c[3] = "mov" /\ c[4] = "al" /\ c[5] = 32
    BY <1>1, <1>9
  <2>2. Holds({"cs", "zf"}, Frame) /\ request.ax = 18
    BY <1>1, <2>1 DEF Legacy, Asked
  <2>3. regs.ax = 18
    BY <2>2 DEF Holds, Kept, Registers
  <2>4. /\ ip' = 646 /\ request' = request /\ Typed' /\ InRom'
        /\ buffer' = buffer /\ stack' = stack /\ regs'.ax = High(regs.ax) * 256 + 32
        /\ Kept({"cs", "zf"} \cup {"ax"})'
    BY <1>1, <2>1, <2>2, MoveLowMoves DEF Holds
  <2>5. regs'.ax = 32
    BY <2>3, <2>4 DEF High
  <2>6. Kept({"cs", "zf", "ax"})'
    BY <2>4, KeptMore
  <2>7. Holds({"cs", "zf", "ax"}, Frame)'
    BY <2>2, <2>4, <2>6, RequestKept DEF Holds, Nothing
  <2>8. Legacy'
    BY <2>2, <2>4, <2>5, <2>7 DEF Legacy
  <2> QED BY <2>4, <2>8, OffsetsAre, Outside, StillInRom DEF Running
<1>10. CASE c = <<642, 644, "jmp", 646>>
  <2>1. ip = 642 /\ c[3] = "jmp" /\ c[4] = 646
    BY <1>1, <1>10
  <2>2. Holds({"cs", "zf", "ax"}, Frame) /\ request.ax = 3 /\ regs.ax = 48
    BY <1>1, <2>1 DEF Legacy
  <2>3. /\ ip' = 646 /\ request' = request /\ Typed' /\ InRom' /\ stack' = stack
        /\ buffer' = buffer /\ regs' = regs /\ Kept({"cs", "zf", "ax"})'
    BY <1>1, <2>1, <2>2, JumpMoves DEF Holds
  <2>4. Holds({"cs", "zf", "ax"}, Frame)'
    BY <2>2, <2>3, RequestKept DEF Holds, Nothing
  <2>5. Legacy'
    BY <2>2, <2>3, <2>4 DEF Legacy
  <2> QED BY <2>3, <2>5, OffsetsAre, Outside, StillInRom DEF Running
<1> QED
  BY <1>3, <1>4, <1>5, <1>6, <1>7, <1>8, <1>9, <1>10 DEF SetModeLegacyCode

LEMMA EndingStep ==
  ASSUME IInv, NEW c \in ExitCode, Execute(c), c[3] # "iret"
  PROVE  IInv'
<1>1. Typed /\ InRom /\ Ending /\ ip = c[1]
  BY OneOperation DEF IInv, Running
<1>2. CASE c = <<647, 650, "mov", "ax", 79>>
  <2>1. ip = 647 /\ c[2] = 650 /\ c[3] = "mov" /\ c[4] = "ax" /\ c[5] = 79
    BY <1>1, <1>2
  <2>2. Done /\ stack = Frame /\ Kept({"cs", "zf", "df", "bx"})
    BY <1>1, <2>1 DEF Ending
  <2>3. /\ c[4] \in Registers \ {"cs", "zf", "df"} /\ c[5] \in Word
        /\ "bx" \in Registers \ {"ax"}
    BY <2>1 DEF Registers, Word
  <2>4. /\ ip' = 650 /\ request' = request /\ Typed' /\ InRom'
        /\ buffer' = buffer /\ stack' = stack /\ regs'.ax = 79
        /\ regs'["bx"] = regs["bx"] /\ Kept({"cs", "zf", "df", "bx"} \cup {"ax"})'
    BY <1>1, <2>1, <2>2, <2>3, MoveMoves
  <2>5. Kept({"cs", "zf", "df", "bx", "ax"})'
    BY <2>4, KeptMore
  <2>6. Done' /\ stack' = Frame'
    BY <2>2, <2>4, RequestKept DEF Done, Nothing
  <2>7. Ending'
    BY <2>4, <2>5, <2>6 DEF Ending
  <2> QED BY <2>4, <2>7, OffsetsAre, Outside, StillInRom DEF Running
<1>3. CASE c = <<651, 654, "mov", "ax", 335>>
  <2>1. ip = 651 /\ c[2] = 654 /\ c[3] = "mov" /\ c[4] = "ax" /\ c[5] = 335
    BY <1>1, <1>3
  <2>2. Holds({"cs", "zf"}, Frame) /\ request.ax \in {20240, 20245}
    BY <1>1, <2>1 DEF Ending, Asked
  <2>3. c[4] \in Registers \ {"cs", "zf", "df"} /\ c[5] \in Word
    BY <2>1 DEF Registers, Word
  <2>4. /\ ip' = 654 /\ request' = request /\ Typed' /\ InRom'
        /\ buffer' = buffer /\ stack' = stack /\ regs'.ax = 335
        /\ Kept({"cs", "zf"} \cup {"ax"})'
    BY <1>1, <2>1, <2>2, <2>3, MoveMoves DEF Holds
  <2>5. Kept({"cs", "zf", "ax"})'
    BY <2>4, KeptMore
  <2>6. Holds({"cs", "zf", "ax"}, Frame)'
    BY <2>2, <2>4, <2>5, RequestKept DEF Holds, Nothing
  <2>7. Ending'
    BY <2>2, <2>4, <2>6 DEF Ending
  <2> QED BY <2>4, <2>7, OffsetsAre, Outside, StillInRom DEF Running
<1> QED BY <1>2, <1>3 DEF ExitCode

(* The three returns: the caller gets its stack, flags and segment back. *)
LEMMA ReturnStep ==
  ASSUME IInv, NEW c \in Code, Execute(c), c[3] = "iret"
  PROVE  /\ IInv' /\ ~InRom' /\ request' = request /\ buffer' = buffer
         /\ ip \in {646, 650, 654}
         /\ \A g \in Registers \ {"cs", "zf", "df"} : regs'[g] = regs[g]
         /\ \A g \in {"cs", "zf", "df"} : regs'[g] = request[g]
<1>1. Typed /\ InRom /\ Running /\ ip = c[1] /\ InterruptReturn(c)
  BY OneOperation DEF IInv
<1>2. c \in {<<646, 647, "iret">>, <<650, 651, "iret">>, <<654, 655, "iret">>}
  BY DEF Code, EntryCode, HangCode, GetInfoCode, GetModeInfoCode, SetModeCode,
         OtherVbeCode, SetModeLegacyCode, ExitCode
<1>3. ip \in {646, 650, 654}
  BY <1>1, <1>2
<1>4. stack = Frame
  BY <1>1, <1>3 DEF Running, Legacy, Ending, Holds
<1>5. request \in Requests
  BY <1>1 DEF Typed
<1>6. /\ stack[1] = ReturnAddress /\ stack[2] = request.cs
      /\ stack[3] = request.zf + 2 * request.df
      /\ SubSeq(stack, 4, Len(stack)) = CallerStack
  BY <1>4, <1>5, FrameTyped
<1>7. stack[3] % 2 = request.zf /\ stack[3] \div 2 = request.df
  <2>1. request.zf \in 0 .. 1 /\ request.df \in 0 .. 1
    BY <1>5, RequestTyped
  <2> QED BY <1>6, <2>1
<1>8. /\ ip' = ReturnAddress /\ stack' = CallerStack /\ UNCHANGED <<buffer, request>>
      /\ regs' = [regs EXCEPT !.cs = request.cs, !.zf = request.zf, !.df = request.df]
  BY <1>1, <1>6, <1>7 DEF InterruptReturn
<1>9. regs \in RegisterFile
  BY <1>1 DEF Typed
<1>10. /\ \A g \in Registers \ {"cs", "zf", "df"} : regs'[g] = regs[g]
       /\ \A g \in {"cs", "zf", "df"} : regs'[g] = request[g]
  BY <1>8, <1>9 DEF RegisterFile, Registers
<1>11. regs' \in RegisterFile
  <2>1. request.cs \in Word /\ request.zf \in 0 .. 1 /\ request.df \in 0 .. 1
    BY <1>5, RequestTyped
  <2> QED BY <1>8, <1>9, <2>1 DEF RegisterFile
<1>12. ~InRom'
  BY <1>5, <1>10, RequestTyped DEF InRom
<1>13. Typed'
  BY <1>5, <1>8, <1>11, StackAssumption DEF Typed
<1>14. IInv'
  BY <1>8, <1>12, <1>13 DEF IInv, StackRestored
<1> QED BY <1>3, <1>8, <1>10, <1>12, <1>14

LEMMA InterruptStep ==
  ASSUME IInv, Interrupt
  PROVE  IInv' /\ InRom' /\ ip' = 512
<1>1. /\ request' \in Requests /\ stack = CallerStack /\ ip' = 512
      /\ regs' = [request' EXCEPT !.cs = RomSegment]
      /\ stack' = <<ReturnAddress, request'.cs, request'.zf + 2 * request'.df>> \o stack
      /\ buffer' = Nothing
  BY DEF IInv, StackRestored, Interrupt, Nothing
<1>2. request' \in RegisterFile
  BY <1>1, RequestsAssumption
<1>3. regs' \in RegisterFile /\ regs'.cs = RomSegment
  BY <1>1, <1>2, StackAssumption DEF RegisterFile
<1>4. Kept({"cs", "zf"})'
  BY <1>1, <1>2 DEF Kept, RegisterFile, Registers
<1>5. InRom'
  BY <1>3 DEF InRom
<1>6. stack' = Frame'
  BY <1>1 DEF Frame
<1>7. Frame' \in Seq(Word) /\ Len(Frame') = Len(CallerStack) + 3
  <2>1. request'.cs \in Word /\ request'.zf \in 0 .. 1 /\ request'.df \in 0 .. 1
    BY <1>2 DEF RegisterFile
  <2>2. request'.zf + 2 * request'.df \in Word /\ ReturnAddress \in Word
    BY <2>1 DEF Word, ReturnAddress
  <2>3. CallerStack \in Seq(Word)
    BY StackAssumption
  <2> QED BY <1>1, <1>6, <2>1, <2>2, <2>3, Joined
<1>8. Typed'
  <2>1. Len(CallerStack) \in Nat
    BY StackAssumption
  <2>2. stack' \in Seq(Word) /\ Len(stack') <= Len(CallerStack) + 9
    BY <1>6, <1>7, <2>1
  <2> QED BY <1>1, <1>3, <2>2 DEF Typed
<1>9. Asked'
  BY <1>1, <1>4, <1>6 DEF Asked, Holds, Nothing
<1>10. Dispatching'
  BY <1>1, <1>9 DEF Dispatching
<1>11. Running'
  BY <1>1, <1>10, OffsetsAre, Outside DEF Running
<1> QED BY <1>1, <1>5, <1>8, <1>11, StillInRom

LEMMA Initially ==
  ASSUME Init
  PROVE  IInv /\ ~InRom
<1>1. request \in RegisterFile /\ request.cs # RomSegment
  BY RequestsAssumption DEF Init
<1>2. ~InRom
  BY <1>1 DEF Init, InRom
<1>3. Typed
  BY <1>1, StackAssumption DEF Init, Typed
<1> QED BY <1>2, <1>3 DEF IInv, StackRestored, Init

(* An instruction that is no return. *)
LEMMA RunsOn ==
  ASSUME IInv, NEW c \in Code, Execute(c), c[3] # "iret"
  PROVE  IInv'
BY EntryStep, HangStep, InformationStep, ModeInformationStep, ModeSettingStep,
   OthersStep, LegacyStep, EndingStep DEF Code

(* Only the return leaves the segment. *)
LEMMA StaysInRom ==
  ASSUME IInv, NEW c \in Code, Execute(c), c[3] # "iret"
  PROVE  InRom'
<1>1. regs \in RegisterFile /\ InRom
  BY OneOperation DEF IInv, Typed
<1>2. c[3] \in {"mov", "pop"} => c[4] # "cs"
  BY DEF Code, EntryCode, HangCode, GetInfoCode, GetModeInfoCode, SetModeCode,
         OtherVbeCode, SetModeLegacyCode, ExitCode
<1>3. regs'.cs = regs.cs
  <2>1. c[4] # "cs" => \A v : Written(c[4], v).cs = regs.cs
    BY <1>1 DEF Written, RegisterFile
  <2>2. CASE c[3] \in {"mov", "pop"}
    BY <1>2, <2>1, <2>2, OneOperation DEF Move, Pop, Executing
  <2>3. CASE c[3] \notin {"mov", "pop"}
    <3>1. Compare(c) => regs'.cs = regs.cs
      BY <1>1 DEF Compare, RegisterFile
    <3>2. ClearBit14(c) => regs'.cs = regs.cs
      BY <1>1 DEF ClearBit14, RegisterFile
    <3>3. ClearDirection(c) => regs'.cs = regs.cs
      BY <1>1 DEF ClearDirection, RegisterFile
    <3>4. Copy(c) => regs'.cs = regs.cs
      BY <1>1 DEF Copy, RegisterFile
    <3>5. JumpIfZero(c) \/ Jump(c) \/ Push(c) => regs' = regs
      BY DEF JumpIfZero, Jump, Push
    <3>6. ~Move(c) /\ ~Pop(c) /\ ~InterruptReturn(c)
      BY <2>3 DEF Move, Pop, InterruptReturn, Executing
    <3> QED BY <3>1, <3>2, <3>3, <3>4, <3>5, <3>6 DEF Execute
  <2> QED BY <2>2, <2>3
<1> QED BY <1>1, <1>3 DEF InRom

LEMMA Stutters ==
  ASSUME IInv, UNCHANGED vars
  PROVE  IInv'
<1>1. UNCHANGED <<regs, ip, stack, buffer, request>>
  BY DEF vars
<1>2. Typed' /\ StackRestored' /\ (InRom' <=> InRom)
  BY <1>1 DEF IInv, Typed, StackRestored, InRom
<1>3. \A changed : Kept(changed) => Kept(changed)'
  BY <1>1 DEF Kept
<1>4. Running => Running'
  <2>1. Dispatching => Dispatching'
    BY <1>1, <1>3, RequestKept DEF Dispatching, Asked, Holds, Tells, Nothing
  <2>2. Hung => Hung'
    BY <1>1, <1>3, RequestKept DEF Hung, Nothing
  <2>3. Information => Information'
    BY <1>1, <1>3, RequestKept DEF Information, Saving, Copying, Holds, Copied, Nothing
  <2>4. ModeInformation => ModeInformation'
    BY <1>1, <1>3, RequestKept DEF ModeInformation, Saving, Copying, Holds, Tells, Copied, Nothing
  <2>5. ModeSetting => ModeSetting'
    BY <1>1, <1>3, RequestKept DEF ModeSetting, Asked, Holds, Tells, Nothing
  <2>6. Others => Others'
    BY <1>1, <1>3, RequestKept DEF Others, Asked, Holds, Nothing
  <2>7. Legacy => Legacy'
    BY <1>1, <1>3, RequestKept DEF Legacy, Asked, Holds, Tells, Nothing
  <2>8. Ending => Ending'
    BY <1>1, <1>3, RequestKept DEF Ending, Done, Asked, Holds, Copied, Nothing
  <2> QED BY <1>1, <2>1, <2>2, <2>3, <2>4, <2>5, <2>6, <2>7, <2>8 DEF Running
<1> QED BY <1>2, <1>4 DEF IInv

LEMMA Inductive ==
  Spec => []IInv
<1>1. Init => IInv
  BY Initially
<1>2. IInv /\ [Next]_vars => IInv'
  <2> SUFFICES ASSUME IInv, [Next]_vars PROVE IInv'
    OBVIOUS
  <2>1. ASSUME Step PROVE IInv'
    BY <2>1, RunsOn, ReturnStep DEF Step
  <2>2. CASE Interrupt
    BY <2>2, InterruptStep
  <2>3. CASE UNCHANGED vars
    BY <2>3, Stutters
  <2> QED BY <2>1, <2>2, <2>3 DEF Next
<1> QED BY <1>1, <1>2, PTL DEF Spec

-----------------------------------------------------------------------------
(* The properties of the run.                                              *)

(* Registers and stack keep their types, inside the handler the processor  *)
(* is always at the start of one of its instructions, and the handler      *)
(* never needs more than nine words of the caller's stack.                 *)
THEOREM TypeCorrect == Spec => []TypeOK
<1>1. IInv => TypeOK
  <2> SUFFICES ASSUME IInv PROVE TypeOK
    OBVIOUS
  <2>1. ~InRom => ip \in Word
    BY DEF IInv, StackRestored, ReturnAddress, Word
  <2> QED BY <2>1 DEF IInv, Typed, Running, TypeOK
<1> QED BY <1>1, Inductive, PTL

(* Whatever the caller asks for, with whatever registers and stack: when   *)
(* control is back, it is where the caller left off and the stack is as it *)
(* was (the pushes and pops of Int10hHandler.asm balance on every path).   *)
THEOREM StackIsRestored == Spec => []StackRestored
<1>1. IInv => StackRestored
  BY DEF IInv
<1> QED BY <1>1, Inductive, PTL

LEMMA SameRegisters ==
  ASSUME NEW r \in RegisterFile, NEW s \in RegisterFile,
         \A g \in Registers : r[g] = s[g]
  PROVE  r = s
BY DEF RegisterFile, Registers

(* The refinement mapping, in the words of the proof. *)
State == IF ~InRom THEN "idle" ELSE IF ip = HangAddress THEN "hung" ELSE "called"
Seen == IF InRom THEN request ELSE regs
Filled == IF InRom THEN Nothing ELSE buffer

LEMMA HangStutters ==
  ASSUME NEW c \in Code, Execute(c), ip = HangAddress
  PROVE  c[3] # "iret" /\ ip' = HangAddress
<1>1. ip = c[1] /\ c[1] = 547
  BY OneOperation DEF HangAddress
<1>2. c = <<547, 549, "jmp", 547>>
  BY <1>1 DEF Code, EntryCode, HangCode, GetInfoCode, GetModeInfoCode, SetModeCode,
         OtherVbeCode, SetModeLegacyCode, ExitCode
<1>3. Jump(c)
  BY <1>2, OneOperation
<1> QED BY <1>2, <1>3 DEF Jump, HangAddress

LEMMA SameNumbers ==
  /\ Service!ModeNumber = 241 /\ Service!LfbModeNumber = 16625
  /\ \A n \in Word :
       Service!WithoutLfbBit(n) = (n \div 32768) * 32768 + (n % 16384)
<1>1. 2 * 16384 = 32768 /\ 241 + 16384 = 16625
  OBVIOUS
<1>2. Service!LfbBit = 16384 /\ Service!ModeNumber = 241 /\ Service!LfbModeNumber = 16625
  BY <1>1 DEF Service!LfbBit, Service!ModeNumber, Service!LfbModeNumber
<1>3. ASSUME NEW n \in Word
      PROVE  Service!WithoutLfbBit(n) = (n \div 32768) * 32768 + (n % 16384)
  <2>1. Service!WithoutLfbBit(n) = (n \div 32768) * 2 * 16384 + (n % 16384)
    BY <1>1, <1>2 DEF Service!WithoutLfbBit
  <2>2. n \div 32768 \in Int
    BY DEF Word
  <2>3. \A q \in Int : q * 2 * 16384 = q * 32768
    OBVIOUS
  <2> QED BY <2>1, <2>2, <2>3
<1> QED BY <1>2, <1>3

LEMMA SameKnown ==
  ASSUME InRom, request \in Requests
  PROVE  Service!Known <=> Known
<1>1. Service!WithoutLfbBit(request.cx) = Masked
  BY RequestTyped, SameNumbers DEF Masked
<1> QED BY <1>1, SameNumbers DEF Service!Known, Known

(* An iret is the answer the service gives. *)
LEMMA ReturnAnswers ==
  ASSUME IInv, NEW c \in Code, Execute(c), c[3] = "iret"
  PROVE  Service!Answer
<1>1. /\ IInv' /\ ~InRom' /\ request' = request /\ buffer' = buffer
      /\ ip \in {646, 650, 654}
      /\ \A g \in Registers \ {"cs", "zf", "df"} : regs'[g] = regs[g]
      /\ \A g \in {"cs", "zf", "df"} : regs'[g] = request[g]
  BY ReturnStep
<1>2. InRom /\ Typed /\ Running
  BY OneOperation DEF IInv
<1>3. regs' \in RegisterFile /\ request \in RegisterFile /\ regs \in RegisterFile
  BY <1>1, <1>2, RequestsAssumption DEF IInv, Typed
<1>4. \A v \in Word : [request EXCEPT !.ax = v] \in RegisterFile
  BY <1>3 DEF RegisterFile
<1>6. ASSUME Kept({"cs", "zf", "df", "ax"}), NEW v \in Word, regs.ax = v
      PROVE  regs' = [request EXCEPT !.ax = v]
  <2>1. \A g \in Registers : regs'[g] = [request EXCEPT !.ax = v][g]
    BY <1>1, <1>3, <1>6 DEF Kept, RegisterFile, Registers
  <2> QED BY <1>3, <1>4, <2>1, SameRegisters
<1>7. ASSUME Kept({"cs", "zf", "df", "bx", "ax"})
      PROVE  regs' = [request EXCEPT !.ax = regs.ax, !.bx = regs.bx]
  <2> DEFINE new == [request EXCEPT !.ax = regs.ax, !.bx = regs.bx]
  <2>1. regs.ax \in Word /\ regs.bx \in Word
    BY <1>3 DEF RegisterFile
  <2>2. new \in RegisterFile
    BY <1>3, <2>1 DEF RegisterFile
  <2>3. new["ax"] = regs.ax /\ new["bx"] = regs.bx
    BY <1>3 DEF RegisterFile
  <2>4. \A g \in Registers \ {"ax", "bx"} : new[g] = request[g]
    BY <1>3 DEF RegisterFile, Registers
  <2> HIDE DEF new
  <2>5. regs'["ax"] = regs.ax /\ regs'["bx"] = regs.bx
    BY <1>1 DEF Registers
  <2>6. \A g \in Registers \ {"ax", "bx"} : regs'[g] = request[g]
    BY <1>1, <1>7 DEF Kept, Registers
  <2>7. \A g \in Registers : regs'[g] = new[g]
    BY <2>3, <2>4, <2>5, <2>6
  <2>8. regs' = new
    BY <1>3, <2>2, <2>7, SameRegisters
  <2> QED BY <2>8 DEF new
<1>8. /\ State = "called" /\ State' = "idle"
      /\ Seen = request /\ Seen' = regs' /\ Filled = Nothing /\ Filled' = buffer
  BY <1>1, <1>2 DEF State, Seen, Filled, HangAddress
<1>9. {48, 32, 79, 335, 16625} \subseteq Word
  BY DEF Word
<1>5. ASSUME request.ax = 20227, buffer = Nothing,
              regs' = [request EXCEPT !.ax = 79, !.bx = 16625]
       PROVE  Service!ReturnCurrentMode
  <2>1. Service!ReturnCurrentMode <=>
          /\ Seen.ax = 20227
          /\ Service!Reply([Seen EXCEPT !.ax = Service!VbeOk,
                                       !.bx = Service!LfbModeNumber], Filled)
    BY DEF Service!ReturnCurrentMode, Seen, Filled, Nothing
  <2>2. Service!VbeOk = 79 /\ Service!LfbModeNumber = 16625
    BY SameNumbers DEF Service!VbeOk
  <2>3. [Seen EXCEPT !.ax = Service!VbeOk, !.bx = Service!LfbModeNumber] = regs'
    BY <1>8, <1>5, <2>2
  <2>4. Service!Reply(regs', Filled)
    BY <1>8, <1>5 DEF Service!Reply, State, Seen, Filled, Nothing
  <2> QED BY <1>8, <1>5, <2>1, <2>3, <2>4
<1>10. CASE ip = 646
  <2>1. /\ Kept({"cs", "zf", "ax"}) /\ buffer = Nothing
        /\ \/ request.ax = 3 /\ regs.ax = 48
           \/ request.ax = 18 /\ regs.ax = 32
    BY <1>2, <1>10 DEF Running, Legacy, Holds
  <2>2. Kept({"cs", "zf", "df", "ax"})
    BY <2>1 DEF Kept
  <2>3. \/ request.ax = 3 /\ regs' = [request EXCEPT !.ax = 48]
        \/ request.ax = 18 /\ regs' = [request EXCEPT !.ax = 32]
    BY <1>6, <1>9, <2>1, <2>2
  <2>4. Service!SetModeLegacy
    BY <1>8, <2>1, <2>3 DEF Service!SetModeLegacy, Service!Reply, State, Seen, Filled, Nothing
  <2> QED BY <2>4 DEF Service!Answer
<1>11. CASE ip = 654
  <2>1. /\ Kept({"cs", "zf", "ax"}) /\ buffer = Nothing
        /\ request.ax \in {20240, 20245} /\ regs.ax = 335
    BY <1>2, <1>11 DEF Running, Ending, Holds
  <2>2. Kept({"cs", "zf", "df", "ax"})
    BY <2>1 DEF Kept
  <2>3. regs' = [request EXCEPT !.ax = 335]
    BY <1>6, <1>9, <2>1, <2>2
  <2>4. Service!PowerManagementOrEdid
    BY <1>8, <2>1, <2>3 DEF Service!PowerManagementOrEdid, Service!Reply,
       Service!VbeFailed, State, Seen, Filled, Nothing
  <2> QED BY <2>4 DEF Service!Answer
<1>12. CASE ip = 650
  <2>1. Done /\ Kept({"cs", "zf", "df", "bx", "ax"}) /\ regs.ax = 79
    BY <1>2, <1>12 DEF Running, Ending
  <2>2. CASE regs.bx = request.bx
    <3>1. Kept({"cs", "zf", "df", "ax"})
      BY <2>1, <2>2 DEF Kept
    <3>2. regs' = [request EXCEPT !.ax = 79]
      BY <1>6, <1>9, <2>1, <3>1
    <3>3. CASE request.ax = 20224 /\ buffer = Copied(0)
      <4>1. Service!ReturnControllerInformation
        BY <1>8, <3>2, <3>3 DEF Service!ReturnControllerInformation, Service!Reply,
           Service!VbeOk, Service!Copied, Copied, State, Seen, Filled, Nothing
      <4> QED BY <4>1 DEF Service!Answer
    <3>4. CASE request.ax = 20225 /\ Masked = 241 /\ buffer = Copied(256)
      <4>1. Service!WithoutLfbBit(Seen.cx) = Service!ModeNumber
        BY <1>2, <1>8, <3>4, RequestTyped, SameNumbers DEF Masked, Typed
      <4>2. Service!ReturnModeInformation
        BY <1>8, <3>2, <3>4, <4>1 DEF Service!ReturnModeInformation, Service!Reply,
           Service!VbeOk, Service!Copied, Copied, State, Seen, Filled, Nothing
      <4> QED BY <4>2 DEF Service!Answer
    <3>5. CASE request.ax = 20226 /\ request.bx = 16625 /\ buffer = Nothing
      <4>1. Service!SetMode
        BY <1>8, <3>2, <3>5, SameNumbers DEF Service!SetMode, Service!Reply,
           Service!VbeOk, State, Seen, Filled, Nothing
      <4> QED BY <4>1 DEF Service!Answer
    <3>6. CASE request.ax = 20227 /\ regs.bx = 16625 /\ buffer = Nothing
      <4>1. regs' = [request EXCEPT !.ax = 79, !.bx = 16625]
        BY <1>7, <2>1, <3>6
      <4>2. Service!ReturnCurrentMode
        BY <1>5, <3>6, <4>1
      <4> QED BY <4>2 DEF Service!Answer
    <3> QED BY <2>1, <3>3, <3>4, <3>5, <3>6 DEF Done
  <2>3. CASE regs.bx # request.bx
    <3>1. request.ax = 20227 /\ regs.bx = 16625 /\ buffer = Nothing
      BY <2>1, <2>3 DEF Done
    <3>2. regs' = [request EXCEPT !.ax = 79, !.bx = 16625]
      BY <1>7, <2>1, <3>1
    <3>3. Service!ReturnCurrentMode
      BY <1>5, <3>1, <3>2
    <3> QED BY <3>3 DEF Service!Answer
  <2> QED BY <2>2, <2>3
<1> QED BY <1>1, <1>10, <1>11, <1>12

(* The machine code offers what VbeService promises: every step is a call, *)
(* an answer with exactly the documented outputs, the hang on what is not  *)
(* known, or nothing the caller sees.  This is ImplementsService without   *)
(* the promise that an answer comes.                                       *)
THEOREM ServiceIsImplemented == Spec => Service!Behaviour
<1>1. Init => Service!Init
  BY Initially DEF Init, Service!Init, Service!Nothing
<1>2. IInv /\ IInv' /\ [Next]_vars => [Service!Next]_(Service!vars)
  <2> SUFFICES ASSUME IInv, IInv', [Next]_vars
               PROVE  [Service!Next]_(Service!vars)
    OBVIOUS
  <2>1. ASSUME NEW c \in Code, Execute(c)
        PROVE  [Service!Next]_(Service!vars)
    <3>1. CASE c[3] = "iret"
      BY <2>1, <3>1, ReturnAnswers DEF Service!Next
    <3>2. CASE c[3] # "iret"
      <4>1. InRom /\ request' = request
        BY <2>1, OneOperation
      <4>2. InRom'
        BY <2>1, <3>2, StaysInRom
      <4>3. Seen' = Seen /\ Filled' = Filled
        BY <4>1, <4>2 DEF Seen, Filled, Nothing
      <4>4. CASE State' = State
        BY <4>3, <4>4 DEF Service!vars, State, Seen, Filled, Nothing
      <4>5. CASE State' # State
        <5>1. State = "called" /\ State' = "hung" /\ ip' = 547
          BY <2>1, <4>1, <4>2, <4>5, HangStutters DEF State, HangAddress
        <5>2. ~Known
          BY <4>1, <4>2, <5>1, RequestKept DEF IInv, Running, Hung
        <5>3. ~Service!Known
          BY <4>1, <5>2, SameKnown DEF IInv, Typed
        <5>4. Service!Hang
          BY <4>3, <5>1, <5>3 DEF Service!Hang, State, Seen, Filled, Nothing
        <5> QED BY <5>4 DEF Service!Next
      <4> QED BY <4>4, <4>5
    <3> QED BY <3>1, <3>2
  <2>2. CASE Interrupt
    <3>1. InRom' /\ ip' = 512 /\ ~InRom /\ request' \in Requests
      BY <2>2, InterruptStep DEF Interrupt
    <3>2. Service!Call
      BY <3>1 DEF Service!Call, Service!Nothing, HangAddress
    <3> QED BY <3>2 DEF Service!Next
  <2>3. CASE UNCHANGED vars
    BY <2>3 DEF vars, Service!vars, InRom
  <2> QED BY <2>1, <2>2, <2>3 DEF Next, Step
<1> QED BY <1>1, <1>2, Inductive, PTL DEF Spec, Service!Behaviour
=================================================================================
