--------------------------- MODULE MemoryLockProofs ---------------------------
(***************************************************************************)
(* Proofs about EnsureMemoryLock, for any number of blocks, any width of   *)
(* the byte under test and any combination of mechanisms.                  *)
(*                                                                         *)
(* Neither StatusExact nor ProbeTransparent is inductive: what is lost is  *)
(* the relation between the remembered byte, the stored byte and the       *)
(* hardware in the middle of a probe, and the fact that a mechanism is     *)
(* only reached after a probe that failed.  IInv adds both.                *)
(***************************************************************************)
EXTENDS MemoryLock, TLAPS

(* Mid-call: a probe runs only at the head of a call or under a mechanism, *)
(* and the initial check starts from EFI_NOT_READY.                        *)
ProbeSites ==
  /\ probing # "no" => stage \in {"Check"} \cup Providers
  /\ stage = "Check" => probing # "no" /\ status = "NOT_READY"

(* The byte and the remembered byte at each point of a probe. *)
ProbeBytes ==
  /\ probing = "compare" =>
       /\ oldValue = byteAtCall
       /\ byte = IF ReadsBack THEN IF Writable(StartBlock) THEN Increment(oldValue)
                                   ELSE oldValue
                 ELSE oldValue
  /\ probing = "write" => byte = byteAtCall

(* A mechanism is reached only when everything before it has failed. *)
NotYetAchieved ==
  stage \in Providers /\ probing = "no" => ~Achieved /\ status # "SUCCESS"

(* The inductive invariant; its second form is for a build that reads the  *)
(* byte back.                                                              *)
IInv == TypeOK /\ ProbeSites /\ ProbeBytes /\ ProbeTransparent
ExactInv == IInv /\ NotYetAchieved /\ StatusExact

-----------------------------------------------------------------------------

(* A UINT8 incremented differs from itself, also when it wraps: the fact   *)
(* the probe of CanWriteAtAddress relies on.                               *)
LEMMA IncrementChanges ==
  ASSUME NEW v \in Byte
  PROVE  Increment(v) \in Byte /\ Increment(v) # v
BY ByteAssumption DEF Increment, Byte

LEMMA StoreTyped ==
  ASSUME TypeOK, NEW v \in Byte
  PROVE  Store(v) \in Byte
BY DEF Store, TypeOK

LEMMA TypeInit == Init => TypeOK
BY DEF Init, TypeOK, Operations, Statuses

LEMMA TypeStep == TypeOK /\ ProbeSites /\ [Next]_vars => TypeOK'
<1> SUFFICES ASSUME TypeOK, ProbeSites, [Next]_vars PROVE TypeOK'
  OBVIOUS
<1> USE DEF TypeOK, Operations, Statuses, Providers, Protocols, hardware
<1>1. CASE ProbeWrite
  <2>1. Increment(byte) \in Byte
    BY IncrementChanges
  <2>2. byte' \in Byte
    BY <1>1, <2>1, StoreTyped DEF ProbeWrite
  <2> QED BY <1>1, <2>2 DEF ProbeWrite
<1>2. CASE ProbeCompare
  <2>1. byte' \in Byte
    BY <1>2, StoreTyped DEF ProbeCompare, Answered
  <2>2. stage \in DOMAIN Following
    BY <1>2 DEF ProbeCompare, Answered, ProbeSites, Following
  <2> QED BY <1>2, <2>1, <2>2 DEF ProbeCompare, Answered, Following
<1>3. CASE \E p \in Protocols : ProtocolMissing(p)
  BY <1>3 DEF ProtocolMissing, Following
<1>4. CASE \E p \in Protocols : UseProtocol(p)
  BY <1>4 DEF UseProtocol
<1>5. CASE MtrrMissing
  BY <1>5 DEF MtrrMissing
<1>6. CASE UseMtrr
  BY <1>6 DEF UseMtrr
<1>7. CASE CallUnlock
  BY <1>7 DEF CallUnlock, Call
<1>8. CASE WriteRom
  BY <1>8, StoreTyped DEF WriteRom
<1>9. CASE CallLock
  BY <1>9 DEF CallLock, Call
<1>10. CASE UNCHANGED vars
  BY <1>10 DEF vars, callVars
<1> QED
  BY <1>1, <1>2, <1>3, <1>4, <1>5, <1>6, <1>7, <1>8, <1>9, <1>10 DEF Next, Step

LEMMA InvInit == Init => IInv
<1> SUFFICES ASSUME Init PROVE IInv
  OBVIOUS
<1>1. TypeOK
  BY TypeInit
<1> QED
  BY <1>1 DEF IInv, Init, ProbeSites, ProbeBytes, ProbeTransparent

LEMMA InvStep == IInv /\ [Next]_vars => IInv'
<1> SUFFICES ASSUME IInv, [Next]_vars PROVE IInv'
  OBVIOUS
<1>0. TypeOK /\ TypeOK'
  BY TypeStep DEF IInv
<1> USE DEF IInv, ProbeSites, ProbeBytes, ProbeTransparent, Providers, Protocols, hardware
<1>1. CASE ProbeWrite
  <2>1. (ProbeSites /\ ProbeTransparent)'
    BY <1>1 DEF ProbeWrite
  <2>2. Writable(StartBlock)' = Writable(StartBlock)
    BY <1>1 DEF ProbeWrite, Writable
  <2>3. ProbeBytes'
    BY <1>1, <2>2 DEF ProbeWrite, Store, Increment
  <2> QED BY <1>0, <2>1, <2>3
<1>2. CASE ProbeCompare
  <2>1. (ProbeSites /\ ProbeBytes)'
    BY <1>2 DEF ProbeCompare, Answered, Following
  <2>2. byte' = byteAtCall
    BY <1>2 DEF ProbeCompare, Answered, Store
  <2>3. ProbeTransparent'
    BY <1>2, <2>2 DEF ProbeCompare, Answered
  <2> QED BY <1>0, <2>1, <2>3
<1>3. CASE \E p \in Protocols : ProtocolMissing(p)
  BY <1>0, <1>3 DEF ProtocolMissing, Following
<1>4. CASE \E p \in Protocols : UseProtocol(p)
  BY <1>0, <1>4 DEF UseProtocol
<1>5. CASE MtrrMissing
  BY <1>0, <1>5 DEF MtrrMissing
<1>6. CASE UseMtrr
  BY <1>0, <1>6 DEF UseMtrr
<1>7. CASE CallUnlock
  BY <1>0, <1>7 DEF CallUnlock, Call
<1>8. CASE WriteRom
  BY <1>0, <1>8 DEF WriteRom
<1>9. CASE CallLock
  BY <1>0, <1>9 DEF CallLock, Call
<1>10. CASE UNCHANGED vars
  BY <1>0, <1>10 DEF vars, callVars, Writable
<1> QED
  BY <1>1, <1>2, <1>3, <1>4, <1>5, <1>6, <1>7, <1>8, <1>9, <1>10 DEF Next, Step

(* Every reachable state is well typed, whatever the machine. *)
THEOREM TypeCorrect == Spec => []TypeOK
<1>1. IInv => TypeOK
  BY DEF IInv
<1> QED BY InvInit, InvStep, <1>1, PTL DEF Spec

(* Probing leaves no trace: between two probes of a call the byte has the  *)
(* value it had when EnsureMemoryLock was called.                          *)
THEOREM ProbeIsTransparent == Spec => []ProbeTransparent
<1>1. IInv => ProbeTransparent
  BY DEF IInv
<1> QED BY InvInit, InvStep, <1>1, PTL DEF Spec

-----------------------------------------------------------------------------

(* In a build that reads back, the answer of a probe is the truth. *)
LEMMA ProbeTells ==
  ASSUME ReadsBack, IInv, probing = "compare"
  PROVE  (oldValue # byte) <=> Writable(StartBlock)
<1>1. oldValue \in Byte
  BY DEF IInv, TypeOK
<1>2. Increment(oldValue) # oldValue
  BY <1>1, IncrementChanges
<1> QED BY <1>2 DEF IInv, ProbeBytes

LEMMA ExactInit == Init => ExactInv
<1> SUFFICES ASSUME Init PROVE ExactInv
  OBVIOUS
<1>1. IInv
  BY InvInit
<1> QED BY <1>1 DEF ExactInv, Init, NotYetAchieved, StatusExact, Providers, Protocols

LEMMA ExactStep ==
  ASSUME ReadsBack, ExactInv, [Next]_vars
  PROVE  ExactInv'
<1>0. IInv /\ IInv'
  BY InvStep DEF ExactInv
<1> USE DEF ExactInv, NotYetAchieved, StatusExact, Achieved, Providers, Protocols, hardware
<1>1. CASE ProbeWrite
  <2>1. stage # "done" /\ stage' # "done" /\ probing' # "no"
    BY <1>0, <1>1 DEF ProbeWrite, IInv, ProbeSites
  <2> QED BY <1>0, <2>1
<1>2. CASE ProbeCompare
  <2>1. Writable(StartBlock)' = Writable(StartBlock)
    BY <1>2 DEF ProbeCompare, Answered, Writable
  <2>2. (oldValue # byte) <=> Writable(StartBlock)
    BY <1>0, <1>2, ProbeTells DEF ProbeCompare, Answered
  <2>3. stage = "Check" => status = "NOT_READY"
    BY <1>0 DEF IInv, ProbeSites
  <2>4. stage \in {"Check"} \cup Providers
    BY <1>0, <1>2 DEF ProbeCompare, Answered, IInv, ProbeSites
  <2>5. CASE Achieved
    <3>1. status' = "SUCCESS" /\ stage' = "done" /\ op' = op
      BY <1>2, <2>2, <2>5 DEF ProbeCompare, Answered
    <3> QED BY <1>0, <2>1, <2>5, <3>1
  <2>6. CASE ~Achieved
    <3>1. status' # "SUCCESS" /\ op' = op
      BY <1>2, <2>2, <2>3, <2>6 DEF ProbeCompare, Answered
    <3> QED BY <1>0, <2>1, <2>6, <3>1
  <2> QED BY <2>5, <2>6
<1>3. CASE \E p \in Protocols : ProtocolMissing(p)
  BY <1>0, <1>3 DEF ProtocolMissing, Following, Writable
<1>4. CASE \E p \in Protocols : UseProtocol(p)
  BY <1>0, <1>4 DEF UseProtocol
<1>5. CASE MtrrMissing
  BY <1>0, <1>5 DEF MtrrMissing, Writable
<1>6. CASE UseMtrr
  BY <1>0, <1>6 DEF UseMtrr
<1>7. CASE CallUnlock
  BY <1>0, <1>7 DEF CallUnlock, Call
<1>8. CASE WriteRom
  BY <1>0, <1>8 DEF WriteRom
<1>9. CASE CallLock
  BY <1>0, <1>9 DEF CallLock, Call
<1>10. CASE UNCHANGED vars
  BY <1>0, <1>10 DEF vars, callVars, Writable
<1> QED
  BY <1>1, <1>2, <1>3, <1>4, <1>5, <1>6, <1>7, <1>8, <1>9, <1>10 DEF Next, Step

(* EFI_SUCCESS from EnsureMemoryLock is exact whatever the firmware does,  *)
(* provided the build reads the probed byte back.                          *)
THEOREM StatusIsExact ==
  ASSUME ReadsBack
  PROVE  Spec => []StatusExact
<1>1. ExactInv /\ [Next]_vars => ExactInv'
  BY ExactStep
<1>2. ExactInv => StatusExact
  BY DEF ExactInv
<1> QED BY ExactInit, <1>1, <1>2, PTL DEF Spec

(* Chipset and MTRR settings change only while the area is not yet as the  *)
(* operation asks: finding nothing to do, and stopping at the first        *)
(* mechanism that works, are what keeps the machine's settings alone.      *)
THEOREM SettingsChangeOnlyIfNeeded ==
  ASSUME ReadsBack
  PROVE  Spec => NoNeedlessChange
<1>1. ExactInv /\ [Next]_vars => ExactInv'
  BY ExactStep
<1>2. ExactInv /\ [Next]_vars => [Achieved => UNCHANGED hardware]_vars
  <2> SUFFICES ASSUME ExactInv, Next, Achieved PROVE UNCHANGED hardware
    OBVIOUS
  <2>1. ~(stage \in Providers /\ probing = "no")
    BY DEF ExactInv, NotYetAchieved
  <2> QED
    BY <2>1 DEF Next, Step, ProbeWrite, ProbeCompare, Answered, ProtocolMissing, UseProtocol,
       MtrrMissing, UseMtrr, CallUnlock, CallLock, Call, WriteRom, Providers, hardware
<1> QED BY ExactInit, <1>1, <1>2, PTL DEF Spec, NoNeedlessChange

-----------------------------------------------------------------------------

LEMMA RefinementInit == Init => Abstract!Init
<1> SUFFICES ASSUME Init PROVE Abstract!Init
  OBVIOUS
<1>1. Phase = "idle" /\ stage = "idle"
  BY DEF Init, Phase
<1> QED BY <1>1 DEF Init, Abstract!Init

(* While a call is busy the first byte is as requested or not by the same  *)
(* test on both levels.                                                    *)
LEMMA SameGoal == Abstract!Achieved <=> Achieved
BY BlocksAssumption DEF Abstract!Achieved, Achieved, Blocks

LEMMA RefinementStep ==
  ASSUME ReadsBack, ExactInv, ExactInv', [Next]_vars
  PROVE  [Abstract!Next]_(Abstract!vars)
<1> USE DEF ExactInv, IInv, Abstract!vars, hardware
<1>1. CASE ProbeWrite
  <2>1. Phase = "busy" /\ Phase' = "busy"
    BY <1>1 DEF ProbeWrite, ProbeSites, Phase, Providers, Protocols
  <2>2. UNCHANGED <<{b \in Blocks : Writable(b)}, byteAtCall, op>>
    BY <1>1 DEF ProbeWrite, Writable
  <2> QED BY <2>1, <2>2
<1>2. CASE ProbeCompare
  <2>1. Phase = "busy"
    BY <1>2 DEF ProbeCompare, Answered, ProbeSites, Phase, Providers, Protocols
  <2>2. UNCHANGED <<{b \in Blocks : Writable(b)}, byteAtCall, op>>
    BY <1>2 DEF ProbeCompare, Answered, Writable
  <2>3. CASE stage' = "done"
    <3>1. Phase' = "done"
      BY <2>3 DEF Phase
    <3>2. byte' = byteAtCall'
      BY <1>2, <2>3 DEF ProbeTransparent, ProbeCompare, Answered
    <3>3. status' = "SUCCESS" <=> Achieved'
      BY <2>3 DEF StatusExact
    <3>4. Achieved' <=> Achieved
      BY <2>2, <1>2 DEF Achieved, Writable, ProbeCompare, Answered
    <3> QED BY <2>1, <2>2, <3>1, <3>2, <3>3, <3>4, SameGoal
        DEF Abstract!Next, Abstract!Finish
  <2>4. CASE stage' # "done"
    <3>1. Phase' = "busy"
      BY <1>2, <2>4 DEF ProbeCompare, Answered, ProbeSites, Phase, Following, Providers, Protocols
    <3> QED BY <2>1, <2>2, <3>1
  <2> QED BY <2>3, <2>4
<1>3. CASE \E p \in Protocols : ProtocolMissing(p)
  <2>1. Phase = "busy" /\ Phase' = "busy"
    BY <1>3 DEF ProtocolMissing, Phase, Following, Protocols
  <2>2. UNCHANGED <<{b \in Blocks : Writable(b)}, byteAtCall, op>>
    BY <1>3 DEF ProtocolMissing, Writable
  <2> QED BY <2>1, <2>2
<1>4. CASE \E p \in Protocols : UseProtocol(p)
  <2>1. Phase = "busy" /\ Phase' = "busy"
    BY <1>4 DEF UseProtocol, Phase, Protocols
  <2>2. ~Achieved /\ UNCHANGED <<byteAtCall, op>>
    BY <1>4 DEF UseProtocol, NotYetAchieved, Providers
  <2>3. IF op = "UNLOCK"
        THEN {b \in Blocks : Writable(b)} \subseteq {b \in Blocks : Writable(b)}'
        ELSE {b \in Blocks : Writable(b)}' \subseteq {b \in Blocks : Writable(b)}
    BY <1>4 DEF UseProtocol, Writable
  <2> QED BY <2>1, <2>2, <2>3, SameGoal DEF Abstract!Next, Abstract!Work
<1>5. CASE MtrrMissing
  <2>1. Phase = "busy" /\ Phase' = "done"
    BY <1>5 DEF MtrrMissing, Phase
  <2>2. UNCHANGED <<{b \in Blocks : Writable(b)}, byteAtCall, op>>
    BY <1>5 DEF MtrrMissing, Writable
  <2>3. byte' = byteAtCall'
    BY <1>5 DEF ProbeTransparent, MtrrMissing
  <2>4. status' # "SUCCESS" /\ ~Achieved
    BY <1>5 DEF NotYetAchieved, MtrrMissing, Providers
  <2> QED BY <2>1, <2>2, <2>3, <2>4, SameGoal DEF Abstract!Next, Abstract!Finish
<1>6. CASE UseMtrr
  <2>1. Phase = "busy" /\ Phase' = "busy"
    BY <1>6 DEF UseMtrr, Phase
  <2>2. ~Achieved /\ UNCHANGED <<byteAtCall, op>>
    BY <1>6 DEF UseMtrr, NotYetAchieved, Providers
  <2>3. IF op = "UNLOCK"
        THEN {b \in Blocks : Writable(b)} \subseteq {b \in Blocks : Writable(b)}'
        ELSE {b \in Blocks : Writable(b)}' \subseteq {b \in Blocks : Writable(b)}
    BY <1>6 DEF UseMtrr, Writable
  <2> QED BY <2>1, <2>2, <2>3, SameGoal DEF Abstract!Next, Abstract!Work
<1>7. CASE CallUnlock
  <2>1. Phase # "busy" /\ Phase' = "busy"
    BY <1>7 DEF CallUnlock, Call, Phase
  <2>2. UNCHANGED <<{b \in Blocks : Writable(b)}, byte>> /\ byteAtCall' = byte /\ op' = "UNLOCK"
    BY <1>7 DEF CallUnlock, Call, Writable
  <2> QED BY <2>1, <2>2 DEF Abstract!Next, Abstract!Begin, Abstract!Operations
<1>8. CASE WriteRom
  <2>1. Phase = "done" /\ Phase' = "done"
    BY <1>8 DEF WriteRom, Phase
  <2>2. UNCHANGED <<{b \in Blocks : Writable(b)}, op, status>>
    BY <1>8 DEF WriteRom, Writable
  <2>3. byte' \in Byte
    BY DEF TypeOK
  <2> QED BY <1>8, <2>1, <2>2, <2>3 DEF WriteRom, Abstract!Next, Abstract!Rewrite
<1>9. CASE CallLock
  <2>1. Phase # "busy" /\ Phase' = "busy"
    BY <1>9 DEF CallLock, Call, Phase
  <2>2. UNCHANGED <<{b \in Blocks : Writable(b)}, byte>> /\ byteAtCall' = byte /\ op' = "LOCK"
    BY <1>9 DEF CallLock, Call, Writable
  <2> QED BY <2>1, <2>2 DEF Abstract!Next, Abstract!Begin, Abstract!Operations
<1>10. CASE UNCHANGED vars
  BY <1>10 DEF vars, callVars, Phase, Writable
<1> QED
  BY <1>1, <1>2, <1>3, <1>4, <1>5, <1>6, <1>7, <1>8, <1>9, <1>10 DEF Next, Step

(* EnsureMemoryLock implements RegionLock: the safety half of KeepsPromise *)
(* for every machine, in a build that reads the probed byte back.          *)
THEOREM ImplementsRegionLock ==
  ASSUME ReadsBack
  PROVE  Spec => Abstract!Behaviour
<1>1. ExactInv /\ [Next]_vars => ExactInv'
  BY ExactStep
<1>2. ExactInv /\ ExactInv' /\ [Next]_vars => [Abstract!Next]_(Abstract!vars)
  BY RefinementStep
<1> QED BY ExactInit, RefinementInit, <1>1, <1>2, PTL DEF Spec, Abstract!Behaviour
===============================================================================
