----------------------- MODULE StyleSheetBarrier_proofs -----------------------
(***************************************************************************)
(* The types of the barrier, for any number of rounds, time limits and     *)
(* clients: every invocation has a request to handle, and each client that *)
(* goes is noticed once.                                                   *)
(***************************************************************************)
EXTENDS StyleSheetBarrier, SequenceTheorems, TLAPS

\* TypeOK is inductive with these three: the call that is waited for is the last one; a
\* handler has a call; a client that has gone is noticed once.
IInv ==
    /\ TypeOK
    /\ waitingFor # 0 => waitingFor = made
    /\ js = "handle" => handling # 0
    /\ notices <= clientsGone /\ (gone => notices < clientsGone)

\* The calls of a queue are calls still when more have been made.
LEMMA MoreCalls ==
    ASSUME NEW m \in Nat, NEW n \in Nat, m <= n, NEW q \in Seq(1 .. m)
    PROVE  q \in Seq(1 .. n)
  <1>1. 1 .. m \subseteq 1 .. n
    OBVIOUS
  <1>2. QED
    BY <1>1, SeqMonotonic

\* The client may skip the second call of a round: the first is not the last it may make.
LEMMA RoundEnds ==
    ASSUME NEW m \in 0 .. 2 * MaxRounds, IsCompiled(m)
    PROVE  m + 1 \in 0 .. 2 * MaxRounds
  BY BarrierAssumption DEF IsCompiled

\* The client's calls.
LEMMA CallsKeep == IInv /\ (CliCall \/ CliRecv \/ CliTimeout) => IInv'
  <1>1. SUFFICES ASSUME IInv, CliCall \/ CliRecv \/ CliTimeout PROVE IInv'
    OBVIOUS
  <1>2. /\ made \in Nat /\ made <= 2 * MaxRounds /\ timeouts \in 0 .. MaxTimeouts
        /\ c2s \in Seq(1 .. made) /\ s2c \in Seq(1 .. made) /\ blockQueue \in Seq(1 .. made)
        /\ MaxRounds \in Nat /\ MaxTimeouts \in Nat
    BY <1>1, BarrierAssumption DEF IInv, TypeOK
  <1>3. CASE CliCall
    <2>1. /\ made' = made + 1 /\ made' \in 0 .. 2 * MaxRounds
          /\ s2c' = s2c /\ blockQueue' = blockQueue
      BY <1>2, <1>3, BarrierAssumption DEF CliCall
    <2>2. /\ c2s \in Seq(1 .. made') /\ s2c' \in Seq(1 .. made')
          /\ blockQueue' \in Seq(1 .. made')
      BY <1>2, <2>1, MoreCalls
    <2>3. c2s' \in Seq(1 .. made')
      BY <1>2, <1>3, <2>1, <2>2, AppendProperties DEF CliCall
    <2>4. QED
      BY <1>1, <1>2, <1>3, <2>1, <2>2, <2>3 DEF CliCall, IInv, TypeOK
  <1>4. CASE CliRecv
    <2>1. s2c' \in Seq(1 .. made)
      BY <1>2, <1>4, HeadTailProperties DEF CliRecv
    <2>2. QED
      BY <1>1, <1>2, <1>4, <2>1 DEF CliRecv, IInv, TypeOK
  <1>5. CASE CliTimeout
    <2>1. waitingFor = made
      BY <1>1, <1>5 DEF CliTimeout, IInv
    <2>2. made' \in 0 .. 2 * MaxRounds /\ made <= made'
      BY <1>2, <1>5, <2>1, RoundEnds DEF CliTimeout
    <2>3. UNCHANGED <<c2s, s2c, blockQueue>>
      BY <1>5 DEF CliTimeout
    <2>4. /\ c2s' \in Seq(1 .. made') /\ s2c' \in Seq(1 .. made')
          /\ blockQueue' \in Seq(1 .. made')
      BY <1>2, <2>2, <2>3, MoreCalls
    <2>5. QED
      BY <1>1, <1>2, <1>5, <2>2, <2>4 DEF CliTimeout, IInv, TypeOK
  <1>6. QED
    BY <1>1, <1>3, <1>4, <1>5

\* A client that goes takes with it what it sent last, and a call that was under way.
LEMMA GoneKeeps == IInv /\ CliGone => IInv'
  <1>1. SUFFICES ASSUME IInv, CliGone PROVE IInv'
    OBVIOUS
  <1>2. /\ made \in Nat /\ made \in 0 .. 2 * MaxRounds
        /\ c2s \in Seq(1 .. made) /\ blockQueue \in Seq(1 .. made)
        /\ MaxRounds \in Nat /\ MaxGone \in Nat
    BY <1>1, BarrierAssumption DEF IInv, TypeOK
  <1>3. made' \in 0 .. 2 * MaxRounds /\ made <= made'
    BY <1>1, <1>2, RoundEnds DEF CliGone
  <1>4. c2s' \in Seq(1 .. made')
    <2>1. PICK n \in 0 .. Len(c2s) : c2s' = SubSeq(c2s, 1, n)
      BY <1>1 DEF CliGone
    <2>2. SubSeq(c2s, 1, n) \in Seq(1 .. made)
      BY <1>2, LenProperties, SubSeqProperties
    <2>3. QED
      BY <1>2, <1>3, <2>1, <2>2, MoreCalls
  <1>5. s2c' \in Seq(1 .. made') /\ blockQueue' \in Seq(1 .. made') /\ blockQueue' = blockQueue
    BY <1>1, <1>2, <1>3, MoreCalls, EmptySeq DEF CliGone
  <1>6. QED
    BY <1>1, <1>2, <1>3, <1>4, <1>5 DEF CliGone, IInv, TypeOK

\* The server's threads.
LEMMA ServerKeeps == IInv /\ (SrvReaderStep \/ SrvJsStep) => IInv'
  <1>1. SUFFICES ASSUME IInv, SrvReaderStep \/ SrvJsStep PROVE IInv'
    OBVIOUS
  <1>2. /\ c2s \in Seq(1 .. made) /\ s2c \in Seq(1 .. made) /\ blockQueue \in Seq(1 .. made)
        /\ made \in Nat /\ MaxGone \in Nat /\ Len(blockQueue) \in Nat
    BY <1>1, BarrierAssumption, LenProperties DEF IInv, TypeOK
  <1>3. CASE SrvRead
    <2>1. c2s' \in Seq(1 .. made) /\ Head(c2s) \in 1 .. made
      BY <1>2, <1>3, HeadTailProperties DEF SrvRead
    <2>2. blockQueue' \in Seq(1 .. made) /\ Len(blockQueue') = Len(blockQueue) + 1
      BY <1>2, <1>3, <2>1, AppendProperties DEF SrvRead
    <2>3. QED
      BY <1>1, <1>3, <2>1, <2>2 DEF SrvRead, IInv, TypeOK, clientVars
  <1>4. CASE SrvNotify \/ SrvReadFails
    <2>1. CASE SrvNotify
      BY <1>1, <2>1 DEF SrvNotify, IInv, TypeOK, clientVars
    <2>2. CASE SrvReadFails
      <3>1. notices' \in 0 .. MaxGone /\ notices' <= clientsGone
        BY <1>1, <1>2, <2>2 DEF SrvReadFails, IInv, TypeOK
      <3>2. gone' \in BOOLEAN /\ ~gone'
        BY <2>2, Zenon DEF SrvReadFails
      <3>3. QED
        BY <1>1, <2>2, <3>1, <3>2 DEF SrvReadFails, IInv, TypeOK
    <2>3. QED
      BY <1>4, <2>1, <2>2
  <1>5. CASE SrvTsfn
    <2>1. blockQueue # <<>>
      BY <1>1, <1>5, EmptySeq DEF SrvTsfn, IInv, TypeOK
    <2>2. /\ blockQueue' \in Seq(1 .. made) /\ Len(blockQueue') = Len(blockQueue) - 1
          /\ handling' \in 1 .. made
      BY <1>2, <1>5, <2>1, HeadTailProperties DEF SrvTsfn
    <2>3. QED
      BY <1>1, <1>2, <1>5, <2>2 DEF SrvTsfn, IInv, TypeOK, clientVars
  <1>6. CASE SrvNotice \/ SrvBlock
    <2>1. CASE SrvNotice
      BY <1>1, <1>2, <2>1 DEF SrvNotice, IInv, TypeOK, clientVars
    <2>2. CASE SrvBlock
      BY <1>1, <2>2 DEF SrvBlock, IInv, TypeOK, clientVars
    <2>3. QED
      BY <1>6, <2>1, <2>2
  <1>7. CASE SrvHandle
    <2>1. handling \in 1 .. made
      BY <1>1, <1>7 DEF SrvHandle, IInv, TypeOK
    <2>2. s2c' \in Seq(1 .. made)
      BY <1>2, <1>7, <2>1, AppendProperties DEF SrvHandle
    <2>3. QED
      BY <1>1, <1>2, <1>7, <2>2 DEF SrvHandle, IInv, TypeOK, clientVars
  <1>8. QED
    BY <1>1, <1>3, <1>4, <1>5, <1>6, <1>7 DEF SrvReaderStep, SrvJsStep

\* Every variable of the barrier has its type, and there are as many invocations as
\* requests (StyleSheetBarrier's TypeOK).
THEOREM BarrierTyped == Spec => []TypeOK
  <1>1. Init => IInv
    <2>1. <<>> \in Seq(1 .. 0) /\ Len(<<>>) = 0
      BY EmptySeq
    <2>2. Init => gone \in BOOLEAN /\ ~gone
      BY Zenon DEF Init
    <2>3. QED
      BY <2>1, <2>2, BarrierAssumption DEF Init, IInv, TypeOK
  <1>2. IInv /\ [Next]_vars => IInv'
    <2>1. IInv /\ UNCHANGED vars => IInv'
      BY DEF vars, clientVars, IInv, TypeOK
    <2>2. QED
      BY <2>1, CallsKeep, GoneKeeps, ServerKeeps DEF Next
  <1>3. IInv => TypeOK
    BY DEF IInv
  <1>4. QED
    BY <1>1, <1>2, <1>3, PTL DEF Spec
=============================================================================
