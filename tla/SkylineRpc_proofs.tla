--------------------------- MODULE SkylineRpc_proofs ---------------------------
(***************************************************************************)
(* The inductive invariant of the RPC and what follows from it: types, the *)
(* separation of the two id spaces, and that no queued request is left     *)
(* without an invocation that will handle it.  Then what the client's      *)
(* calls are promised: each is answered with its own answer, handled once  *)
(* and in order, and returns only when it was.                             *)
(***************************************************************************)
EXTENDS SkylineRpc, SequenceTheorems, TLAPS

\* A pushed frame is the head; the others move down by one.
LEMMA PushProperties ==
    ASSUME NEW F, NEW s \in Seq(F), NEW f \in F
    PROVE  /\ Push(f, s) \in Seq(F)
           /\ Len(Push(f, s)) = Len(s) + 1
           /\ \A i \in 1 .. Len(s) + 1 : Push(f, s)[i] = IF i = 1 THEN f ELSE s[i - 1]
  BY ConcatProperties, LenProperties DEF Push

\* Replacing the top of a stack changes its head and nothing else.
LEMMA ReplaceTop ==
    ASSUME NEW F, NEW s \in Seq(F), s # <<>>, NEW f \in F
    PROVE  /\ Push(f, Tail(s)) \in Seq(F)
           /\ Len(Push(f, Tail(s))) = Len(s)
           /\ \A i \in 1 .. Len(s) : Push(f, Tail(s))[i] = IF i = 1 THEN f ELSE s[i]
  <1>1. PICK t \in Seq(F) :
           t = Tail(s) /\ Len(t) = Len(s) - 1 /\ \A i \in 1 .. Len(t) : t[i] = s[i + 1]
    BY HeadTailProperties
  <1>2. Len(s) \in Nat
    BY LenProperties
  <1>3. /\ Push(f, t) \in Seq(F) /\ Len(Push(f, t)) = Len(t) + 1
        /\ \A i \in 1 .. Len(t) + 1 : Push(f, t)[i] = IF i = 1 THEN f ELSE t[i - 1]
    BY PushProperties
  <1>4. Len(t) + 1 = Len(s)
    BY <1>1, <1>2
  <1>5. ASSUME NEW i \in 1 .. Len(s), i # 1
        PROVE  Push(f, t)[i] = s[i]
    <2>1. Push(f, t)[i] = t[i - 1]
      BY <1>3, <1>4, <1>5
    <2>2. i - 1 \in 1 .. Len(t) /\ (i - 1) + 1 = i
      BY <1>4, <1>5, <1>2
    <2>3. t[i - 1] = s[(i - 1) + 1]
      BY <1>1, <2>2
    <2>4. QED
      BY <2>1, <2>2, <2>3
  <1>6. QED
    BY <1>1, <1>3, <1>4, <1>5

\* Goto keeps a stack in its type and changes the pc of its top only.
LEMMA GotoProperties ==
    ASSUME NEW F, NEW s \in Seq(F), s # <<>>, NEW pc, Frame(pc, Head(s).id, Head(s).of) \in F
    PROVE  /\ Goto(pc, s) \in Seq(F)
           /\ Len(Goto(pc, s)) = Len(s)
           /\ \A i \in 1 .. Len(s) : Goto(pc, s)[i] =
                IF i = 1 THEN Frame(pc, Head(s).id, Head(s).of) ELSE s[i]
  BY ReplaceTop DEF Goto

\* The counters keep their parity and their range, also when they wrap around.
LEMMA NextIdParity ==
    /\ \A c \in OddIds : NextId(c, 1) \in OddIds /\ NextId(c, 1) + 2 \in OddIds
    /\ \A c \in EvenIds \ {0} : NextId(c, 2) \in EvenIds \ {0} /\ NextId(c, 2) + 2 \in EvenIds \ {0}
  BY WireAssumption DEF NextId, OddIds, EvenIds, Ids

\* No id is odd and even.
LEMMA ParityDisjoint == OddIds \cap EvenIds = {}
  BY DEF OddIds, EvenIds

\* What a JS number gives back is an id, and another than it was made of only where an odd
\* one has become even.
LEMMA AsNumberParity ==
    \A id \in Ids : /\ AsNumber(id) \in OddIds \cup EvenIds
                    /\ AsNumber(id) \in OddIds => AsNumber(id) = id
                    /\ id \in EvenIds \/ id <= ExactLimit => AsNumber(id) = id
  BY WireAssumption DEF AsNumber, OddIds, EvenIds, Ids

\* RunsOnBlocked survives a push: of a blocked frame always, of a running one on a blocked frame or an empty stack.
LEMMA ShapePush ==
    ASSUME NEW F, NEW s \in Seq(F), NEW f \in F, RunsOnBlocked(s),
           f.pc = "run" /\ s # <<>> => s[1].pc \in Blocked
    PROVE  RunsOnBlocked(Push(f, s))
  <1>1. /\ Push(f, s) \in Seq(F) /\ Len(Push(f, s)) = Len(s) + 1 /\ Len(s) \in Nat
        /\ \A i \in 1 .. Len(s) + 1 : Push(f, s)[i] = IF i = 1 THEN f ELSE s[i - 1]
    BY PushProperties, LenProperties
  <1>2. SUFFICES ASSUME NEW i \in 1 .. Len(s), Push(f, s)[i].pc = "run"
                 PROVE  Push(f, s)[i + 1].pc \in Blocked
    BY <1>1 DEF RunsOnBlocked
  <1>3. CASE i = 1
    BY <1>1, <1>2, <1>3
  <1>4. CASE i # 1
    <2>1. Push(f, s)[i] = s[i - 1] /\ Push(f, s)[i + 1] = s[i]
      BY <1>1, <1>4
    <2>2. i - 1 \in 1 .. Len(s) - 1 /\ (i - 1) + 1 = i
      BY <1>1, <1>4
    <2>3. s[(i - 1) + 1].pc \in Blocked
      BY <2>1, <2>2, <1>2 DEF RunsOnBlocked
    <2>4. QED
      BY <2>1, <2>2, <2>3
  <1>5. QED
    BY <1>3, <1>4

\* RunsOnBlocked survives a step of the loop of the activation on top.
LEMMA ShapeGoto ==
    ASSUME NEW F, NEW s \in Seq(F), s # <<>>, RunsOnBlocked(s), NEW pc \in Blocked,
           Frame(pc, Head(s).id, Head(s).of) \in F
    PROVE  RunsOnBlocked(Goto(pc, s))
  <1>1. /\ Len(Goto(pc, s)) = Len(s) /\ Len(s) \in Nat
        /\ \A i \in 1 .. Len(s) :
             Goto(pc, s)[i].pc = IF i = 1 THEN pc ELSE s[i].pc
    BY GotoProperties, LenProperties DEF Frame
  <1>2. SUFFICES ASSUME NEW i \in 1 .. Len(s) - 1, Goto(pc, s)[i].pc = "run"
                 PROVE  Goto(pc, s)[i + 1].pc \in Blocked
    BY <1>1 DEF RunsOnBlocked
  <1>3. i # 1
    BY <1>1, <1>2 DEF Blocked
  <1>4. QED
    BY <1>1, <1>2, <1>3 DEF RunsOnBlocked

\* RunsOnBlocked survives the return of the activation on top.
LEMMA ShapeTail ==
    ASSUME NEW F, NEW s \in Seq(F), s # <<>>, RunsOnBlocked(s)
    PROVE  RunsOnBlocked(Tail(s))
  <1>1. /\ Len(Tail(s)) = Len(s) - 1 /\ Len(s) \in Nat
        /\ \A i \in 1 .. Len(Tail(s)) : Tail(s)[i] = s[i + 1]
    BY HeadTailProperties, LenProperties
  <1>2. SUFFICES ASSUME NEW i \in 1 .. Len(Tail(s)) - 1, Tail(s)[i].pc = "run"
                 PROVE  Tail(s)[i + 1].pc \in Blocked
    BY DEF RunsOnBlocked
  <1>3. PICK j \in 1 .. Len(s) - 1 : j = i + 1
    BY <1>1
  <1>4. Tail(s)[i] = s[j] /\ Tail(s)[i + 1] = s[j + 1]
    BY <1>1, <1>3
  <1>5. QED
    BY <1>2, <1>4 DEF RunsOnBlocked

\* A message sent does not change which one is the oldest.
LEMMA HeadAppend ==
    ASSUME NEW S, NEW s \in Seq(S), NEW e \in S, s # <<>>
    PROVE  Head(Append(s, e)) = Head(s)
  BY AppendProperties, LenProperties, HeadTailProperties

-----------------------------------------------------------------------------
(* What the inductive invariant says of the heads of the queues and stacks. *)

\* What the type of the client's stack says of its top.
LEMMA CliTop ==
    ASSUME FramesByParity, cliStack # <<>>
    PROVE  LET top == Head(cliStack) IN
             /\ top = cliStack[1] /\ top \in CliFrameByParity
             /\ top.pc \in Blocked => top.id \in OddIds /\ top.of \in Calls
             /\ top.pc = "run" => top.id \in EvenIds /\ top.of \in Emits
             /\ Tail(cliStack) \in Seq(CliFrameByParity)
             /\ RunsOnBlocked(Tail(cliStack))
  <1>1. cliStack \in Seq(CliFrameByParity) /\ RunsOnBlocked(cliStack)
    BY DEF FramesByParity
  <1>2. Head(cliStack) \in CliFrameByParity /\ Tail(cliStack) \in Seq(CliFrameByParity)
    BY <1>1, HeadTailProperties
  <1>3. Head(cliStack) = cliStack[1]
    BY <1>1
  <1>4. RunsOnBlocked(Tail(cliStack))
    BY <1>1, ShapeTail
  <1>5. QED
    BY <1>2, <1>3, <1>4 DEF CliFrameByParity, Blocked

\* A step of the client's wait loop keeps its stack in shape.
LEMMA CliGoto ==
    ASSUME FramesByParity, cliStack # <<>>, Head(cliStack).pc \in Blocked, NEW pc \in Blocked
    PROVE  Goto(pc, cliStack) \in Seq(CliFrameByParity) /\ RunsOnBlocked(Goto(pc, cliStack))
  <1>1. Frame(pc, Head(cliStack).id, Head(cliStack).of) \in CliFrameByParity
    BY CliTop DEF CliFrameByParity, Frame
  <1>2. QED
    BY <1>1, GotoProperties, ShapeGoto DEF FramesByParity

\* What the type of the server's stack says of its top.
LEMMA SrvTop ==
    ASSUME FramesByParity, MapsTyped, srvStack # <<>>
    PROVE  LET top == Head(srvStack) IN
             /\ top.pc \in Blocked =>
                  top.id \in EvenIds \ {0} /\ top.of \in 1 .. Len(emitted) /\ top.of \in Emits
             /\ top.pc = "run" =>
                  \/ top.id \in OddIds /\ top.of \in Calls
                  \/ top.id \in EvenIds /\ top.of = 0
             /\ Tail(srvStack) \in Seq(SrvFrameByParity)
  <1>1. Head(srvStack) \in SrvFrameByParity /\ Tail(srvStack) \in Seq(SrvFrameByParity)
    BY HeadTailProperties DEF FramesByParity
  <1>2. 1 .. Len(emitted) \subseteq Emits
    BY WireAssumption, LenProperties DEF MapsTyped, Emits
  <1>3. QED
    BY <1>1, <1>2 DEF SrvFrameByParity, Blocked

\* What a handler sends is an answer; one with an odd id is the answer to a call, under
\* the id of its request.
LEMMA SrvResponse ==
    ASSUME FramesByParity, MapsTyped, TopIs("run", srvStack)
    PROVE  LET top == Head(srvStack)
               m   == Response(AsNumber(top.id), top.of)
           IN  /\ m \in OddAnswer \cup EvenAnswer
               /\ m.of = top.of
               /\ m \in OddAnswer => m.id = top.id /\ top.id \in OddIds /\ top.of \in Calls
               /\ m \notin OddAnswer => m.id \in EvenIds
  <1>1. PICK top : top = Head(srvStack)
    OBVIOUS
  <1>2. \/ top.id \in OddIds /\ top.of \in Calls
        \/ top.id \in EvenIds /\ top.of = 0
    BY <1>1, SrvTop DEF TopIs
  <1>3. top.id \in Ids /\ top.of \in 0 .. MaxCalls
    BY <1>2, WireAssumption DEF OddIds, EvenIds, Calls
  <1>4. PICK id \in OddIds \cup EvenIds :
            id = AsNumber(top.id) /\ (id \in OddIds => id = top.id)
    BY <1>3, AsNumberParity
  <1>5. PICK m : m = Response(id, top.of)
    OBVIOUS
  <1>6. m.type = "response" /\ m.id = id /\ m.of = top.of
    BY <1>5 DEF Response
  <1>7. CASE id \in OddIds
    <2>1. id = top.id /\ top.of \in Calls
      BY <1>2, <1>4, <1>7, ParityDisjoint
    <2>2. m \in OddAnswer
      BY <1>5, <1>7, <2>1 DEF Response, OddAnswer
    <2>3. QED
      BY <1>1, <1>4, <1>5, <1>6, <1>7, <2>1, <2>2
  <1>8. CASE id \notin OddIds
    <2>1. id \in EvenIds
      BY <1>8
    <2>2. m \in EvenAnswer
      BY <1>3, <1>5, <2>1 DEF Response, EvenAnswer
    <2>3. m \notin OddAnswer
      BY <1>6, <1>8 DEF OddAnswer
    <2>4. QED
      BY <1>1, <1>4, <1>5, <1>6, <2>1, <2>2, <2>3
  <1>9. QED
    BY <1>7, <1>8

\* A step of the server's wait loop keeps its stack in shape.
LEMMA SrvGoto ==
    ASSUME FramesByParity, MapsTyped, srvStack # <<>>, Head(srvStack).pc \in Blocked,
           NEW pc \in Blocked
    PROVE  Goto(pc, srvStack) \in Seq(SrvFrameByParity)
  <1>1. Frame(pc, Head(srvStack).id, Head(srvStack).of) \in SrvFrameByParity
    BY SrvTop DEF SrvFrameByParity, Frame
  <1>2. QED
    BY <1>1, GotoProperties DEF FramesByParity

\* What the client's reader may find: an answer exactly when the id is odd.
LEMMA ToClientHead ==
    ASSUME WireByParity, s2c # <<>>
    PROVE  LET m == Head(s2c) IN
             /\ Tail(s2c) \in Seq(OddAnswer \cup EvenAnswer \cup EvenEmit)
             /\ m.id \in Ids
             /\ m.id % 2 = 1 <=> m.id \in OddIds
             /\ m.id \in OddIds => m.type = "response" /\ m.of \in Calls
             /\ m.type = "emitCallback" => m \in EvenEmit /\ m.fn \in Functions
  <1>1. Head(s2c) \in OddAnswer \cup EvenAnswer \cup EvenEmit
        /\ Tail(s2c) \in Seq(OddAnswer \cup EvenAnswer \cup EvenEmit)
    BY HeadTailProperties DEF WireByParity
  <1>2. QED
    BY <1>1, ParityDisjoint DEF OddAnswer, EvenAnswer, EvenEmit, OddIds, EvenIds

\* What the server's reader may find: a request exactly when the id is odd.
LEMMA ToServerHead ==
    ASSUME NEW q \in Seq(OddRequest \cup EvenReply), q # <<>>
    PROVE  LET m == Head(q) IN
             /\ Tail(q) \in Seq(OddRequest \cup EvenReply)
             /\ m \in OddRequest \cup EvenReply
             /\ m.id \in Ids
             /\ m.type = "request" => m.id \in OddIds /\ m.of \in Calls
             /\ m.type # "request" => m.id \in EvenIds /\ m.of \in Emits
             /\ m.id \in EvenIds => m.of \in Emits
  <1>1. Head(q) \in OddRequest \cup EvenReply /\ Tail(q) \in Seq(OddRequest \cup EvenReply)
    BY HeadTailProperties
  <1>2. QED
    BY <1>1, ParityDisjoint DEF OddRequest, EvenReply, OddIds, EvenIds

-----------------------------------------------------------------------------
(* The invariant is inductive: one step per action, in it one step per part. *)

\* Every action of the client preserves the invariant.
LEMMA ClientStep == IInv /\ ClientNext /\ UNCHANGED serverVars => IInv'
  <1>1. SUFFICES ASSUME IInv, ClientNext, UNCHANGED serverVars PROVE IInv'
    OBVIOUS
  <1>2. CASE CliCall
    <2>1. calls + 1 \in Calls /\ calls + 1 \in 0 .. MaxCalls
      BY <1>1, <1>2, WireAssumption DEF IInv, MapsTyped, CliCall, Calls
    <2>2. MapsTyped'
      BY <1>1, <1>2, <2>1 DEF IInv, MapsTyped, CliCall, serverVars
    <2>3. WireByParity'
      BY <1>1, <1>2 DEF IInv, WireByParity, CliCall, serverVars
    <2>4. FramesByParity'
      <3>1. PICK id \in OddIds :
                /\ cliRequestId' = id + 2 /\ id + 2 \in OddIds
                /\ \/ cliStack' = Push(Frame("send", id, calls + 1), cliStack)
                   \/ cliStack' = cliStack
        BY <1>1, <1>2, NextIdParity DEF IInv, FramesByParity, CliCall
      <3>2. PICK f \in CliFrameByParity : f = Frame("send", id, calls + 1)
        BY <2>1 DEF CliFrameByParity, Frame, Blocked
      <3>3. f.pc = "send"
        BY <3>2 DEF Frame
      <3>4. Push(f, cliStack) \in Seq(CliFrameByParity) /\ RunsOnBlocked(Push(f, cliStack))
        BY <1>1, <3>3, PushProperties, ShapePush DEF IInv, FramesByParity
      <3>5. QED
        BY <1>1, <1>2, <3>1, <3>2, <3>4
        DEF IInv, FramesByParity, CliCall, serverVars, SrvFrameByParity
    <2>5. ReadersHoldAnswers' /\ NoStrandedRequest'
      BY <1>1, <1>2 DEF IInv, ReadersHoldAnswers, NoStrandedRequest, CliCall, serverVars
    <2>6. QED
      BY <2>2, <2>3, <2>4, <2>5 DEF IInv
  <1>3. CASE CliSend
    <2>1. MapsTyped'
      BY <1>1, <1>3 DEF IInv, MapsTyped, CliSend, serverVars
    <2>2. PICK m \in OddRequest \cup EvenReply : c2s' = Append(c2s, m)
      <3>1. Request(Head(cliStack).id, Head(cliStack).of) \in OddRequest
        BY <1>1, <1>3, CliTop DEF IInv, CliSend, TopIs, Blocked, Request, OddRequest
      <3>2. QED
        BY <1>3, <3>1 DEF CliSend
    <2>3. c2s \in Seq(OddRequest \cup EvenReply)
      BY <1>1 DEF IInv, WireByParity
    <2>4. WireByParity'
      BY <1>1, <1>3, <2>2, <2>3, AppendProperties DEF IInv, WireByParity, CliSend, serverVars
    <2>5. FramesByParity'
      BY <1>1, <1>3, CliGoto
      DEF IInv, FramesByParity, CliSend, TopIs, Blocked, serverVars, SrvFrameByParity
    <2>6. ReadersHoldAnswers' /\ NoStrandedRequest'
      <3>1. c2s # <<>> => c2s' # <<>> /\ Head(c2s') = Head(c2s)
        BY <2>2, <2>3, HeadAppend, AppendProperties
      <3>2. QED
        BY <1>1, <1>3, <3>1 DEF IInv, ReadersHoldAnswers, NoStrandedRequest, CliSend, serverVars
    <2>7. QED
      BY <2>1, <2>4, <2>5, <2>6 DEF IInv
  <1>4. CASE CliPop
    <2>1. Head(callbackQueue) \in EvenEmit /\ Tail(callbackQueue) \in Seq(EvenEmit)
      BY <1>1, <1>4, HeadTailProperties DEF IInv, WireByParity, CliPop
    <2>2. PICK e \in EvenEmit :
              /\ cliStack' = Push(Frame("run", e.id, e.of), cliStack)
              /\ callbackLog' = Append(callbackLog, [of |-> e.of, fn |-> e.fn])
              /\ callbackQueue' = Tail(callbackQueue)
      BY <1>4, <2>1 DEF CliPop, RunCallback
    <2>3. MapsTyped'
      <3>1. [of |-> e.of, fn |-> e.fn] \in [of : Emits, fn : Functions]
        BY <2>2 DEF EvenEmit
      <3>2. callbackLog' \in Seq([of : Emits, fn : Functions])
        BY <1>1, <2>2, <3>1, AppendProperties DEF IInv, MapsTyped
      <3>3. QED
        BY <1>1, <1>4, <3>2 DEF IInv, MapsTyped, CliPop, serverVars
    <2>4. WireByParity'
      BY <1>1, <1>4, <2>1, <2>2 DEF IInv, WireByParity, CliPop, serverVars
    <2>5. FramesByParity'
      <3>1. PICK f \in CliFrameByParity : f = Frame("run", e.id, e.of)
        BY <2>2 DEF CliFrameByParity, Frame, EvenEmit
      <3>2. cliStack[1].pc \in Blocked
        BY <1>1, <1>4, CliTop DEF IInv, CliPop, TopIs, Blocked
      <3>3. cliStack' \in Seq(CliFrameByParity) /\ RunsOnBlocked(cliStack')
        BY <1>1, <2>2, <3>1, <3>2, PushProperties, ShapePush DEF IInv, FramesByParity
      <3>4. QED
        BY <1>1, <1>4, <3>3 DEF IInv, FramesByParity, CliPop, serverVars, SrvFrameByParity
    <2>6. ReadersHoldAnswers' /\ NoStrandedRequest'
      BY <1>1, <1>4 DEF IInv, ReadersHoldAnswers, NoStrandedRequest, CliPop, serverVars
    <2>7. QED
      BY <2>3, <2>4, <2>5, <2>6 DEF IInv
  <1>4a. CASE CliDrop
    <2>1. Tail(callbackQueue) \in Seq(EvenEmit)
      BY <1>1, <1>4a, HeadTailProperties DEF IInv, WireByParity, CliDrop
    <2>2. WireByParity'
      BY <1>1, <1>4a, <2>1 DEF IInv, WireByParity, CliDrop, serverVars
    <2>3. MapsTyped' /\ FramesByParity' /\ ReadersHoldAnswers' /\ NoStrandedRequest'
      BY <1>1, <1>4a
      DEF IInv, MapsTyped, FramesByParity, SrvFrameByParity, ReadersHoldAnswers,
          NoStrandedRequest, CliDrop, serverVars
    <2>4. QED
      BY <2>2, <2>3 DEF IInv
  <1>5. CASE CliWait \/ CliWake
    <2>1. MapsTyped' /\ WireByParity' /\ ReadersHoldAnswers' /\ NoStrandedRequest'
      BY <1>1, <1>5
      DEF IInv, MapsTyped, WireByParity, ReadersHoldAnswers, NoStrandedRequest, CliWait,
          CliWake, serverVars
    <2>2. FramesByParity'
      BY <1>1, <1>5, CliGoto
      DEF IInv, FramesByParity, CliWait, CliWake, TopIs, Blocked, serverVars, SrvFrameByParity
    <2>3. QED
      BY <2>1, <2>2 DEF IInv
  <1>6. CASE CliReturn \/ CliTimeout
    <2>1. cliStack # <<>> /\ Head(cliStack).of \in Calls
      BY <1>1, <1>6, CliTop DEF IInv, CliReturn, CliTimeout, TopIs, Blocked
    <2>2. MapsTyped'
      BY <1>1, <1>6, <2>1 DEF IInv, MapsTyped, CliReturn, CliTimeout, serverVars
    <2>3. WireByParity' /\ ReadersHoldAnswers' /\ NoStrandedRequest'
      BY <1>1, <1>6
      DEF IInv, WireByParity, ReadersHoldAnswers, NoStrandedRequest, CliReturn, CliTimeout,
          serverVars
    <2>4. FramesByParity'
      BY <1>1, <1>6, <2>1, CliTop
      DEF IInv, FramesByParity, CliReturn, CliTimeout, serverVars, SrvFrameByParity
    <2>5. QED
      BY <2>2, <2>3, <2>4 DEF IInv
  <1>7. CASE CliCallbackReturn
    <2>1. MapsTyped'
      BY <1>1, <1>7 DEF IInv, MapsTyped, CliCallbackReturn, serverVars
    <2>2. c2s \in Seq(OddRequest \cup EvenReply)
      BY <1>1 DEF IInv, WireByParity
    <2>3. c2s' = c2s \/ \E m \in OddRequest \cup EvenReply : c2s' = Append(c2s, m)
      <3>1. Head(cliStack).id \in EvenIds /\ Head(cliStack).of \in Emits
        BY <1>1, <1>7, CliTop DEF IInv, CliCallbackReturn, TopIs
      <3>2. Head(cliStack).id > 0 =>
              CallbackReply(Head(cliStack).id, Head(cliStack).of) \in EvenReply
        BY <3>1 DEF CallbackReply, EvenReply
      <3>3. QED
        BY <1>7, <3>2 DEF CliCallbackReturn
    <2>4. /\ c2s' \in Seq(OddRequest \cup EvenReply)
          /\ c2s # <<>> => c2s' # <<>> /\ Head(c2s') = Head(c2s)
      BY <2>2, <2>3, AppendProperties, HeadAppend
    <2>5. WireByParity' /\ ReadersHoldAnswers' /\ NoStrandedRequest'
      BY <1>1, <1>7, <2>4
      DEF IInv, WireByParity, ReadersHoldAnswers, NoStrandedRequest, CliCallbackReturn,
          serverVars
    <2>6. FramesByParity'
      BY <1>1, <1>7, CliTop
      DEF IInv, FramesByParity, CliCallbackReturn, TopIs, serverVars, SrvFrameByParity
    <2>7. QED
      BY <2>1, <2>5, <2>6 DEF IInv
  <1>8. CASE CliCallbackThrow
    <2>1. cliStack # <<>> /\ Head(cliStack).pc = "run"
      BY <1>8 DEF CliCallbackThrow, TopIs
    <2>2. /\ Head(cliStack).of \in Emits
          /\ Tail(cliStack) \in Seq(CliFrameByParity) /\ RunsOnBlocked(Tail(cliStack))
      BY <1>1, <2>1, CliTop DEF IInv
    <2>3. Tail(cliStack) # <<>> =>
            /\ Head(Tail(cliStack)).of \in Calls
            /\ Tail(Tail(cliStack)) \in Seq(CliFrameByParity)
            /\ RunsOnBlocked(Tail(Tail(cliStack)))
      <3>1. SUFFICES ASSUME Tail(cliStack) # <<>>
                     PROVE  /\ Head(Tail(cliStack)).of \in Calls
                            /\ Tail(Tail(cliStack)) \in Seq(CliFrameByParity)
                            /\ RunsOnBlocked(Tail(Tail(cliStack)))
        OBVIOUS
      <3>2. PICK t \in Seq(CliFrameByParity) :
                /\ t = Tail(cliStack) /\ t # <<>> /\ Len(t) = Len(cliStack) - 1
                /\ \A i \in 1 .. Len(t) : t[i] = cliStack[i + 1]
        BY <1>1, <2>1, <2>2, <3>1, HeadTailProperties DEF IInv, FramesByParity
      <3>3. Len(t) \in Nat \ {0} /\ Head(t) = t[1] /\ Head(t) \in CliFrameByParity
        BY <3>2, LenProperties, EmptySeq, HeadTailProperties
      <3>4. Head(t) = cliStack[2] /\ 1 \in 1 .. Len(cliStack) - 1
        BY <3>2, <3>3
      <3>5. cliStack[1].pc = "run"
        BY <1>1, <2>1, CliTop DEF IInv
      <3>6. cliStack[2].pc \in Blocked
        BY <1>1, <3>4, <3>5 DEF IInv, FramesByParity, RunsOnBlocked
      <3>7. Head(t).of \in Calls
        BY <3>3, <3>4, <3>6 DEF CliFrameByParity, Blocked
      <3>8. Tail(t) \in Seq(CliFrameByParity) /\ RunsOnBlocked(Tail(t))
        BY <2>2, <3>2, ShapeTail, HeadTailProperties
      <3>9. QED
        BY <3>2, <3>7, <3>8
    <2>4. MapsTyped'
      BY <1>1, <1>8, <2>2, <2>3 DEF IInv, MapsTyped, CliCallbackThrow, serverVars
    <2>5. WireByParity' /\ ReadersHoldAnswers' /\ NoStrandedRequest'
      BY <1>1, <1>8
      DEF IInv, WireByParity, ReadersHoldAnswers, NoStrandedRequest, CliCallbackThrow,
          serverVars
    <2>6. cliStack' \in Seq(CliFrameByParity) /\ RunsOnBlocked(cliStack')
      BY <1>8, <2>2, <2>3 DEF CliCallbackThrow
    <2>7. FramesByParity'
      BY <1>1, <1>8, <2>6
      DEF IInv, FramesByParity, CliCallbackThrow, serverVars, SrvFrameByParity
    <2>8. QED
      BY <2>4, <2>5, <2>7 DEF IInv
  <1>9. ASSUME NEW f \in Functions, CliTsfn(f)
        PROVE  IInv'
    <2>1. cliTsfn' \in [Functions -> Nat]
      BY <1>1, <1>9 DEF IInv, MapsTyped, CliTsfn
    <2>2. CASE callbackQueue = <<>>
      <3>1. cliStack' = cliStack /\ callbackQueue' = callbackQueue /\ callbackLog' = callbackLog
        BY <1>9, <2>2 DEF CliTsfn
      <3>2. QED
        BY <1>1, <1>9, <2>1, <3>1
        DEF IInv, MapsTyped, WireByParity, FramesByParity, SrvFrameByParity,
            ReadersHoldAnswers, NoStrandedRequest, CliTsfn, serverVars
    <2>3. CASE callbackQueue # <<>>
      <3>1. Head(callbackQueue) \in EvenEmit /\ Tail(callbackQueue) \in Seq(EvenEmit)
        BY <1>1, <2>3, HeadTailProperties DEF IInv, WireByParity
      <3>2. PICK e \in EvenEmit :
                /\ cliStack' = Push(Frame("run", e.id, e.of), cliStack)
                /\ callbackLog' = Append(callbackLog, [of |-> e.of, fn |-> f])
                /\ callbackQueue' = Tail(callbackQueue)
        BY <1>9, <2>3, <3>1 DEF CliTsfn, RunCallback
      <3>3. MapsTyped'
        <4>1. [of |-> e.of, fn |-> f] \in [of : Emits, fn : Functions]
          BY <3>2 DEF EvenEmit
        <4>2. callbackLog' \in Seq([of : Emits, fn : Functions])
          BY <1>1, <3>2, <4>1, AppendProperties DEF IInv, MapsTyped
        <4>3. QED
          BY <1>1, <1>9, <2>1, <4>2 DEF IInv, MapsTyped, CliTsfn, serverVars
      <3>4. WireByParity' /\ ReadersHoldAnswers' /\ NoStrandedRequest'
        BY <1>1, <1>9, <3>1, <3>2
        DEF IInv, WireByParity, ReadersHoldAnswers, NoStrandedRequest, CliTsfn, serverVars
      <3>5. FramesByParity'
        <4>1. PICK g \in CliFrameByParity : g = Frame("run", e.id, e.of)
          BY <3>2 DEF CliFrameByParity, Frame, EvenEmit
        <4>2. cliStack' \in Seq(CliFrameByParity) /\ RunsOnBlocked(cliStack')
          BY <1>1, <1>9, <3>2, <4>1, PushProperties, ShapePush
          DEF IInv, FramesByParity, CliTsfn
        <4>3. QED
          BY <1>1, <1>9, <4>2 DEF IInv, FramesByParity, CliTsfn, serverVars, SrvFrameByParity
      <3>6. QED
        BY <3>3, <3>4, <3>5 DEF IInv
    <2>4. QED
      BY <2>2, <2>3
  <1>10. CASE CliRecvAnswer
    <2>1. Head(s2c).id \in OddIds /\ s2c # <<>>
      BY <1>1, <1>10, ToClientHead DEF IInv, CliRecvAnswer, CliTakesForAnswer
    <2>2. MapsTyped'
      BY <1>1, <1>10, <2>1, WireAssumption
      DEF IInv, MapsTyped, CliRecvAnswer, serverVars, OddIds
    <2>3. WireByParity' /\ FramesByParity'
      BY <1>1, <1>10
      DEF IInv, WireByParity, FramesByParity, SrvFrameByParity, CliRecvAnswer, serverVars
    <2>4. ReadersHoldAnswers' /\ NoStrandedRequest'
      BY <1>1, <1>10, <2>1
      DEF IInv, ReadersHoldAnswers, NoStrandedRequest, CliRecvAnswer, serverVars
    <2>5. QED
      BY <2>2, <2>3, <2>4 DEF IInv
  <1>11. CASE CliSetValue
    <2>1. s2c # <<>> /\ Head(s2c).of \in Calls
      BY <1>1, <1>11, ToClientHead DEF IInv, ReadersHoldAnswers, CliSetValue
    <2>2. cliAnswer' \in [Calls -> 0 .. MaxCalls]
      BY <1>1, <1>11, <2>1 DEF IInv, MapsTyped, CliSetValue, Calls
    <2>3. MapsTyped'
      BY <1>1, <1>11, <2>2, WireAssumption DEF IInv, MapsTyped, CliSetValue, serverVars
    <2>4. WireByParity'
      BY <1>1, <1>11, <2>1, ToClientHead DEF IInv, WireByParity, CliSetValue, serverVars
    <2>5. FramesByParity' /\ ReadersHoldAnswers' /\ NoStrandedRequest'
      BY <1>1, <1>11
      DEF IInv, FramesByParity, SrvFrameByParity, ReadersHoldAnswers, NoStrandedRequest,
          CliSetValue, serverVars
    <2>6. QED
      BY <2>3, <2>4, <2>5 DEF IInv
  <1>12. CASE CliRecvEmit
    <2>1. /\ Head(s2c) \in EvenEmit /\ Head(s2c).fn \in Functions
          /\ Tail(s2c) \in Seq(OddAnswer \cup EvenAnswer \cup EvenEmit)
      BY <1>1, <1>12, ToClientHead DEF IInv, CliRecvEmit
    <2>2. cliTsfn' \in [Functions -> Nat]
      <3>1. cliTsfn \in [Functions -> Nat]
        BY <1>1 DEF IInv, MapsTyped
      <3>2. cliTsfn' = CliPost(Head(s2c).fn)
        BY <1>12 DEF CliRecvEmit
      <3>3. QED
        BY <2>1, <3>1, <3>2 DEF CliPost
    <2>2a. MapsTyped'
      BY <1>1, <1>12, <2>2 DEF IInv, MapsTyped, CliRecvEmit, serverVars
    <2>3. WireByParity'
      BY <1>1, <1>12, <2>1, AppendProperties DEF IInv, WireByParity, CliRecvEmit, serverVars
    <2>4. FramesByParity' /\ ReadersHoldAnswers' /\ NoStrandedRequest'
      BY <1>1, <1>12
      DEF IInv, FramesByParity, SrvFrameByParity, ReadersHoldAnswers, NoStrandedRequest,
          CliRecvEmit, serverVars
    <2>5. QED
      BY <2>2a, <2>3, <2>4 DEF IInv
  <1>13. CASE CliRecvDrop
    <2>1. WireByParity'
      BY <1>1, <1>13, ToClientHead DEF IInv, WireByParity, CliRecvDrop, serverVars
    <2>2. MapsTyped' /\ FramesByParity' /\ ReadersHoldAnswers' /\ NoStrandedRequest'
      BY <1>1, <1>13
      DEF IInv, MapsTyped, FramesByParity, SrvFrameByParity, ReadersHoldAnswers,
          NoStrandedRequest, CliRecvDrop, serverVars
    <2>3. QED
      BY <2>1, <2>2 DEF IInv
  <1>14. QED
    BY <1>1, <1>2, <1>3, <1>4, <1>4a, <1>5, <1>6, <1>7, <1>8, <1>9, <1>10, <1>11, <1>12, <1>13
    DEF ClientNext, CliJsStep, CliReader

\* An emission is numbered, and the frames typed so far keep their type.
LEMMA EmitGrows ==
    ASSUME IInv, NEW f \in Functions, CanEmit, emitted' = Append(emitted, f)
    PROVE  /\ emitted' \in Seq(Functions) /\ Len(emitted') = Len(emitted) + 1
           /\ Len(emitted') <= MaxEmits
           /\ Len(emitted) + 1 \in Emits /\ Len(emitted) + 1 \in 1 .. Len(emitted')
           /\ \A s \in Seq(SrvFrameByParity) : s \in Seq(SrvFrameByParity')
  <1>1. emitted \in Seq(Functions) /\ Len(emitted) \in Nat /\ Len(emitted) < MaxEmits
    BY LenProperties DEF IInv, MapsTyped, CanEmit
  <1>2. emitted' \in Seq(Functions) /\ Len(emitted') = Len(emitted) + 1
    BY <1>1, AppendProperties
  <1>3. SrvFrameByParity \subseteq SrvFrameByParity'
    BY <1>1, <1>2 DEF SrvFrameByParity
  <1>4. QED
    BY <1>1, <1>2, <1>3, SeqMonotonic, WireAssumption DEF Emits

\* Every action of the server preserves the invariant.
LEMMA ServerStep == IInv /\ ServerNext /\ UNCHANGED clientVars => IInv'
  <1>1. SUFFICES ASSUME IInv, ServerNext, UNCHANGED clientVars PROVE IInv'
    OBVIOUS
  <1>2. ASSUME NEW f \in Functions, SrvEmitSync(f)
        PROVE  IInv'
    <2>1. /\ emitted' \in Seq(Functions) /\ Len(emitted') <= MaxEmits
          /\ Len(emitted) + 1 \in Emits /\ Len(emitted) + 1 \in 1 .. Len(emitted')
          /\ srvStack \in Seq(SrvFrameByParity')
      BY <1>1, <1>2, EmitGrows DEF SrvEmitSync, IInv, FramesByParity
    <2>2. PICK id \in EvenIds \ {0} :
              /\ srvRequestId' = id + 2 /\ id + 2 \in EvenIds \ {0}
              /\ srvSocketRequest' = [srvSocketRequest EXCEPT ![id] =
                                        IF @ = 0 THEN Len(emitted) + 1 ELSE @]
              /\ srvStack' = Push(Frame("send", id, Len(emitted) + 1), srvStack)
      BY <1>1, <1>2, NextIdParity DEF IInv, FramesByParity, SrvEmitSync
    <2>3. /\ srvSocketRequest' \in [Ids -> 0 .. MaxEmits]
          /\ \A j \in Ids : srvSocketRequest'[j] # 0 => j \in EvenIds
      <3>1. /\ srvSocketRequest \in [Ids -> 0 .. MaxEmits]
            /\ \A j \in Ids : srvSocketRequest[j] # 0 => j \in EvenIds
        BY <1>1 DEF IInv, MapsTyped, FramesByParity
      <3>2. PICK e : e = IF srvSocketRequest[id] = 0 THEN Len(emitted) + 1
                                                    ELSE srvSocketRequest[id]
        OBVIOUS
      <3>3. e \in 0 .. MaxEmits
        BY <2>1, <2>2, <3>1, <3>2, WireAssumption DEF Emits, EvenIds
      <3>4. srvSocketRequest' = [srvSocketRequest EXCEPT ![id] = e]
        BY <2>2, <3>2
      <3>5. QED
        BY <2>2, <3>1, <3>3, <3>4
    <2>4. MapsTyped'
      BY <1>1, <1>2, <2>1, <2>3 DEF IInv, MapsTyped, SrvEmitSync, clientVars
    <2>5. srvStack' \in Seq(SrvFrameByParity')
      <3>1. PICK g \in SrvFrameByParity' : g = Frame("send", id, Len(emitted) + 1)
        BY <2>1, <2>2 DEF SrvFrameByParity, Frame, Blocked
      <3>2. QED
        BY <2>1, <2>2, <3>1, PushProperties
    <2>6. FramesByParity'
      BY <1>1, <1>2, <2>2, <2>3, <2>5 DEF IInv, FramesByParity, SrvEmitSync, clientVars
    <2>7. WireByParity' /\ ReadersHoldAnswers' /\ NoStrandedRequest'
      BY <1>1, <1>2
      DEF IInv, WireByParity, ReadersHoldAnswers, NoStrandedRequest, SrvEmitSync, clientVars
    <2>8. QED
      BY <2>4, <2>6, <2>7 DEF IInv
  <1>3. ASSUME NEW f \in Functions, SrvEmitAsync(f)
        PROVE  IInv'
    <2>1. /\ emitted' \in Seq(Functions) /\ Len(emitted') <= MaxEmits
          /\ Len(emitted) + 1 \in Emits
          /\ srvStack \in Seq(SrvFrameByParity')
      BY <1>1, <1>3, EmitGrows DEF SrvEmitAsync, IInv, FramesByParity
    <2>2. PICK m \in EvenEmit : s2c' = Append(s2c, m)
      <3>1. 0 \in EvenIds
        BY WireAssumption DEF EvenIds, Ids
      <3>2. EmitCallback(0, Len(emitted) + 1, f) \in EvenEmit
        BY <2>1, <3>1 DEF EmitCallback, EvenEmit
      <3>3. QED
        BY <1>3, <3>2 DEF SrvEmitAsync
    <2>3. s2c \in Seq(OddAnswer \cup EvenAnswer \cup EvenEmit)
      BY <1>1 DEF IInv, WireByParity
    <2>4. /\ s2c' \in Seq(OddAnswer \cup EvenAnswer \cup EvenEmit)
          /\ s2c # <<>> => s2c' # <<>> /\ Head(s2c') = Head(s2c)
      BY <2>2, <2>3, AppendProperties, HeadAppend
    <2>5. MapsTyped'
      BY <1>1, <1>3, <2>1 DEF IInv, MapsTyped, SrvEmitAsync, clientVars
    <2>6. WireByParity' /\ ReadersHoldAnswers' /\ NoStrandedRequest'
      BY <1>1, <1>3, <2>4
      DEF IInv, WireByParity, ReadersHoldAnswers, NoStrandedRequest, SrvEmitAsync, clientVars
    <2>7. FramesByParity'
      BY <1>1, <1>3, <2>1 DEF IInv, FramesByParity, SrvEmitAsync, clientVars
    <2>8. QED
      BY <2>5, <2>6, <2>7 DEF IInv
  <1>4. CASE SrvSend
    <2>1. /\ Head(srvStack).id \in EvenIds /\ Head(srvStack).of \in Emits
          /\ Head(srvStack).of \in 1 .. Len(emitted)
      BY <1>1, <1>4, SrvTop DEF IInv, SrvSend, TopIs, Blocked
    <2>2. emitted[Head(srvStack).of] \in Functions
      BY <1>1, <2>1, ElementOfSeq DEF IInv, MapsTyped
    <2>3. PICK m \in EvenEmit : s2c' = Append(s2c, m)
      BY <1>4, <2>1, <2>2 DEF SrvSend, EmitCallback, EvenEmit
    <2>4. s2c \in Seq(OddAnswer \cup EvenAnswer \cup EvenEmit)
      BY <1>1 DEF IInv, WireByParity
    <2>5. /\ s2c' \in Seq(OddAnswer \cup EvenAnswer \cup EvenEmit)
          /\ s2c # <<>> => s2c' # <<>> /\ Head(s2c') = Head(s2c)
      BY <2>3, <2>4, AppendProperties, HeadAppend
    <2>6. WireByParity' /\ ReadersHoldAnswers' /\ NoStrandedRequest' /\ MapsTyped'
      BY <1>1, <1>4, <2>5
      DEF IInv, WireByParity, ReadersHoldAnswers, NoStrandedRequest, MapsTyped, SrvSend,
          clientVars
    <2>7. srvStack' \in Seq(SrvFrameByParity)
      BY <1>1, <1>4, SrvGoto DEF IInv, SrvSend, TopIs, Blocked
    <2>8. FramesByParity'
      BY <1>1, <1>4, <2>7 DEF IInv, FramesByParity, SrvFrameByParity, SrvSend, clientVars
    <2>9. QED
      BY <2>6, <2>8 DEF IInv
  <1>5. ASSUME blockQueue # <<>>, HandleMessage, FramesByParity, WireByParity, MapsTyped,
               UNCHANGED emitted
        PROVE  /\ blockQueue' \in Seq(OddRequest \cup EvenReply)
               /\ Len(blockQueue) \in Nat /\ Len(blockQueue') = Len(blockQueue) - 1
               /\ srvStack' \in Seq(SrvFrameByParity')
               /\ requestLog' \in Seq(Calls)
    <2>1. blockQueue \in Seq(OddRequest \cup EvenReply)
      BY <1>5 DEF WireByParity
    <2>2. PICK msg \in OddRequest \cup EvenReply : msg = Head(blockQueue)
      BY <1>5, <2>1, HeadTailProperties
    <2>3. PICK k : k = IF msg.type = "request" THEN msg.of ELSE 0
      OBVIOUS
    <2>4. /\ srvStack' = Push(Frame("run", msg.id, k), srvStack)
          /\ requestLog' = IF k = 0 THEN requestLog ELSE Append(requestLog, k)
          /\ blockQueue' = Tail(blockQueue)
      BY <1>5, <2>2, <2>3 DEF HandleMessage
    <2>5. \/ msg.id \in OddIds /\ k \in Calls
          \/ msg.id \in EvenIds /\ k = 0
      BY <2>2, <2>3 DEF OddRequest, EvenReply
    <2>6. PICK f \in SrvFrameByParity : f = Frame("run", msg.id, k)
      BY <2>5 DEF SrvFrameByParity, Frame
    <2>7. srvStack' \in Seq(SrvFrameByParity)
      BY <1>5, <2>4, <2>6, PushProperties DEF FramesByParity
    <2>8. requestLog' \in Seq(Calls)
      BY <1>5, <2>4, <2>5, AppendProperties, WireAssumption DEF MapsTyped, Calls
    <2>9. QED
      BY <1>5, <2>1, <2>4, <2>7, <2>8, HeadTailProperties, LenProperties DEF SrvFrameByParity
  <1>6. CASE SrvPop
    <2>1. /\ blockQueue' \in Seq(OddRequest \cup EvenReply)
          /\ Len(blockQueue) \in Nat /\ Len(blockQueue') = Len(blockQueue) - 1
          /\ srvStack' \in Seq(SrvFrameByParity')
          /\ requestLog' \in Seq(Calls)
      BY <1>1, <1>5, <1>6 DEF IInv, SrvPop
    <2>2. MapsTyped' /\ WireByParity' /\ ReadersHoldAnswers'
      BY <1>1, <1>6, <2>1
      DEF IInv, MapsTyped, WireByParity, ReadersHoldAnswers, SrvPop, clientVars
    <2>3. FramesByParity'
      BY <1>1, <1>6, <2>1 DEF IInv, FramesByParity, SrvPop, clientVars
    <2>4. NoStrandedRequest'
      BY <1>1, <1>6, <2>1 DEF IInv, MapsTyped, NoStrandedRequest, SrvPop
    <2>5. QED
      BY <2>2, <2>3, <2>4 DEF IInv
  <1>7. CASE SrvTsfn
    <2>1. srvTsfn \in Nat /\ srvTsfn > 0 /\ srvTsfn' = srvTsfn - 1
      BY <1>1, <1>7 DEF IInv, MapsTyped, SrvTsfn
    <2>2. CASE blockQueue = <<>>
      <3>1. blockQueue' = <<>> /\ srvStack' = srvStack /\ requestLog' = requestLog
        BY <1>7, <2>2 DEF SrvTsfn
      <3>2. NoStrandedRequest'
        BY <2>1, <3>1 DEF NoStrandedRequest
      <3>3. QED
        BY <1>1, <1>7, <2>1, <2>2, <3>1, <3>2
        DEF IInv, MapsTyped, WireByParity, FramesByParity, SrvFrameByParity,
            ReadersHoldAnswers, SrvTsfn, clientVars
    <2>3. CASE blockQueue # <<>>
      <3>1. /\ blockQueue' \in Seq(OddRequest \cup EvenReply)
            /\ Len(blockQueue) \in Nat /\ Len(blockQueue') = Len(blockQueue) - 1
            /\ srvStack' \in Seq(SrvFrameByParity')
            /\ requestLog' \in Seq(Calls)
        <4>1. HandleMessage /\ UNCHANGED emitted
          BY <1>7, <2>3 DEF SrvTsfn
        <4>2. FramesByParity /\ WireByParity /\ MapsTyped
          BY <1>1 DEF IInv
        <4>3. QED
          BY <1>5, <2>3, <4>1, <4>2
      <3>2a. MapsTyped'
        BY <1>1, <1>7, <2>1, <3>1 DEF IInv, MapsTyped, SrvTsfn, clientVars
      <3>2. WireByParity' /\ ReadersHoldAnswers'
        BY <1>1, <1>7, <3>1 DEF IInv, WireByParity, ReadersHoldAnswers, SrvTsfn, clientVars
      <3>3. FramesByParity'
        BY <1>1, <1>7, <3>1 DEF IInv, FramesByParity, SrvTsfn, clientVars
      <3>4. NoStrandedRequest'
        BY <1>1, <2>1, <3>1 DEF IInv, NoStrandedRequest
      <3>5. QED
        BY <3>2, <3>2a, <3>3, <3>4 DEF IInv
    <2>4. QED
      BY <2>2, <2>3
  <1>8. CASE SrvWait \/ SrvWake
    <2>1. MapsTyped' /\ WireByParity' /\ ReadersHoldAnswers' /\ NoStrandedRequest'
      BY <1>1, <1>8
      DEF IInv, MapsTyped, WireByParity, ReadersHoldAnswers, NoStrandedRequest, SrvWait,
          SrvWake, clientVars
    <2>2. srvStack' \in Seq(SrvFrameByParity)
      BY <1>1, <1>8, SrvGoto DEF IInv, SrvWait, SrvWake, TopIs, Blocked
    <2>3. FramesByParity'
      BY <1>1, <1>8, <2>2
      DEF IInv, FramesByParity, SrvFrameByParity, SrvWait, SrvWake, clientVars
    <2>4. QED
      BY <2>1, <2>3 DEF IInv
  <1>9. CASE SrvReturn \/ SrvTimeout
    <2>1. /\ srvStack # <<>> /\ Head(srvStack).pc \in Blocked
          /\ srvStack' = Tail(srvStack)
          /\ \/ srvSocketRequest' = srvSocketRequest
             \/ srvSocketRequest' = [srvSocketRequest EXCEPT ![Head(srvStack).id] = 0]
          /\ expired' = expired \/ expired' = expired \cup {Head(srvStack).of}
      BY <1>9 DEF SrvReturn, SrvTimeout, TopIs, Blocked
    <2>2. /\ Head(srvStack).id \in Ids /\ Head(srvStack).of \in Emits
          /\ srvStack' \in Seq(SrvFrameByParity)
      BY <1>1, <2>1, SrvTop DEF IInv, EvenIds
    <2>3. /\ srvSocketRequest' \in [Ids -> 0 .. MaxEmits]
          /\ \A j \in Ids : srvSocketRequest'[j] # 0 => j \in EvenIds
      <3>1. /\ srvSocketRequest \in [Ids -> 0 .. MaxEmits]
            /\ \A j \in Ids : srvSocketRequest[j] # 0 => j \in EvenIds
        BY <1>1 DEF IInv, MapsTyped, FramesByParity
      <3>2. 0 \in 0 .. MaxEmits
        BY WireAssumption
      <3>3. QED
        BY <2>1, <2>2, <3>1, <3>2
    <2>4. MapsTyped'
      BY <1>1, <1>9, <2>1, <2>2, <2>3 DEF IInv, MapsTyped, SrvReturn, SrvTimeout, clientVars
    <2>5. FramesByParity'
      BY <1>1, <1>9, <2>2, <2>3
      DEF IInv, FramesByParity, SrvFrameByParity, SrvReturn, SrvTimeout, clientVars
    <2>6. WireByParity' /\ ReadersHoldAnswers' /\ NoStrandedRequest'
      BY <1>1, <1>9
      DEF IInv, WireByParity, ReadersHoldAnswers, NoStrandedRequest, SrvReturn, SrvTimeout,
          clientVars
    <2>7. QED
      BY <2>4, <2>5, <2>6 DEF IInv
  <1>10. CASE SrvReply
    <2>1. srvStack # <<>> /\ Head(srvStack).pc = "run"
      BY <1>10 DEF SrvReply, TopIs
    <2>2. Response(AsNumber(Head(srvStack).id), Head(srvStack).of) \in OddAnswer \cup EvenAnswer
      BY <1>1, <2>1, SrvResponse DEF IInv, TopIs
    <2>3. PICK m \in OddAnswer \cup EvenAnswer \cup EvenEmit : s2c' = Append(s2c, m)
      BY <1>10, <2>2 DEF SrvReply
    <2>4. s2c \in Seq(OddAnswer \cup EvenAnswer \cup EvenEmit)
      BY <1>1 DEF IInv, WireByParity
    <2>5. /\ s2c' \in Seq(OddAnswer \cup EvenAnswer \cup EvenEmit)
          /\ s2c # <<>> => s2c' # <<>> /\ Head(s2c') = Head(s2c)
      BY <2>3, <2>4, AppendProperties, HeadAppend
    <2>6. WireByParity' /\ ReadersHoldAnswers' /\ NoStrandedRequest' /\ MapsTyped'
      BY <1>1, <1>10, <2>5
      DEF IInv, WireByParity, ReadersHoldAnswers, NoStrandedRequest, MapsTyped, SrvReply,
          clientVars
    <2>7. FramesByParity'
      BY <1>1, <1>10, <2>1, SrvTop
      DEF IInv, FramesByParity, SrvFrameByParity, SrvReply, clientVars
    <2>8. QED
      BY <2>6, <2>7 DEF IInv
  <1>11. CASE SrvRecvReply
    <2>1. /\ c2s # <<>> /\ Head(c2s).id \in Ids
          /\ srvSocketRequest[Head(c2s).id] # 0
          /\ srvPromise' = srvSocketRequest[Head(c2s).id]
          /\ srvSocketRequest' = [srvSocketRequest EXCEPT ![Head(c2s).id] = 0]
      BY <1>1, <1>11, ToServerHead DEF IInv, WireByParity, SrvRecvReply, SrvTakesForReply
    <2>2. Head(c2s).id \in EvenIds
      BY <1>1, <2>1 DEF IInv, FramesByParity
    <2>3. MapsTyped'
      <3>1. /\ srvPromise' \in 0 .. MaxEmits
            /\ srvSocketRequest' \in [Ids -> 0 .. MaxEmits]
        BY <1>1, <2>1, WireAssumption DEF IInv, MapsTyped
      <3>2. QED
        BY <1>1, <1>11, <3>1 DEF IInv, MapsTyped, SrvRecvReply, clientVars
    <2>4. \A j \in Ids : srvSocketRequest'[j] # 0 => j \in EvenIds
      BY <1>1, <2>1 DEF IInv, MapsTyped, FramesByParity
    <2>5. WireByParity' /\ FramesByParity'
      BY <1>1, <1>11, <2>4
      DEF IInv, WireByParity, FramesByParity, SrvFrameByParity, SrvRecvReply, clientVars
    <2>6. ReadersHoldAnswers' /\ NoStrandedRequest'
      BY <1>1, <1>11, <2>1, <2>2
      DEF IInv, ReadersHoldAnswers, NoStrandedRequest, SrvRecvReply, clientVars
    <2>7. QED
      BY <2>3, <2>5, <2>6 DEF IInv
  <1>12. CASE SrvSetValue
    <2>1. /\ Head(c2s).of \in Emits
          /\ Tail(c2s) \in Seq(OddRequest \cup EvenReply)
      BY <1>1, <1>12, ToServerHead DEF IInv, WireByParity, ReadersHoldAnswers, SrvSetValue
    <2>2. srvAnswer' \in [Emits -> 0 .. MaxEmits]
      BY <1>1, <1>12, <2>1 DEF IInv, MapsTyped, SrvSetValue, Emits
    <2>3. MapsTyped'
      BY <1>1, <1>12, <2>2, WireAssumption DEF IInv, MapsTyped, SrvSetValue, clientVars
    <2>4. WireByParity' /\ FramesByParity' /\ ReadersHoldAnswers' /\ NoStrandedRequest'
      BY <1>1, <1>12, <2>1
      DEF IInv, WireByParity, FramesByParity, SrvFrameByParity, ReadersHoldAnswers,
          NoStrandedRequest, SrvSetValue, clientVars
    <2>5. QED
      BY <2>3, <2>4 DEF IInv
  <1>13. CASE SrvRecvMessage
    <2>1. /\ Head(c2s) \in OddRequest \cup EvenReply
          /\ Tail(c2s) \in Seq(OddRequest \cup EvenReply)
      BY <1>1, <1>13, ToServerHead DEF IInv, WireByParity, SrvRecvMessage
    <2>2. /\ blockQueue' \in Seq(OddRequest \cup EvenReply)
          /\ Len(blockQueue) \in Nat /\ Len(blockQueue') = Len(blockQueue) + 1
      BY <1>1, <1>13, <2>1, AppendProperties, LenProperties
      DEF IInv, WireByParity, SrvRecvMessage
    <2>3. MapsTyped'
      BY <1>1, <1>13 DEF IInv, MapsTyped, SrvRecvMessage, clientVars
    <2>4. WireByParity' /\ FramesByParity' /\ ReadersHoldAnswers'
      BY <1>1, <1>13, <2>1, <2>2
      DEF IInv, WireByParity, FramesByParity, SrvFrameByParity, ReadersHoldAnswers,
          SrvRecvMessage, clientVars
    <2>5. NoStrandedRequest'
      BY <1>1, <1>13, <2>2 DEF IInv, MapsTyped, NoStrandedRequest, SrvRecvMessage
    <2>6. QED
      BY <2>3, <2>4, <2>5 DEF IInv
  <1>14. QED
    BY <1>1, <1>2, <1>3, <1>4, <1>6, <1>7, <1>8, <1>9, <1>10, <1>11, <1>12, <1>13
    DEF ServerNext, SrvJsStep, SrvReader

-----------------------------------------------------------------------------
(* What this invariant yields.                                             *)

\* The invariant holds initially.
LEMMA InitIInv == Init => IInv
  <1>1. SUFFICES ASSUME Init PROVE IInv
    OBVIOUS
  <1>2. MapsTyped
    BY <1>1, WireAssumption, EmptySeq DEF Init, ClientInit, ServerInit, MapsTyped
  <1>3. WireByParity
    BY <1>1, EmptySeq DEF Init, ClientInit, ServerInit, WireByParity
  <1>4. FramesByParity
    <2>1. 1 \in OddIds /\ 2 \in EvenIds \ {0}
      BY WireAssumption DEF OddIds, EvenIds, Ids
    <2>2. RunsOnBlocked(<<>>)
      BY DEF RunsOnBlocked
    <2>3. QED
      BY <1>1, <2>1, <2>2, EmptySeq DEF Init, ClientInit, ServerInit, FramesByParity
  <1>5. ReadersHoldAnswers /\ NoStrandedRequest
    BY <1>1 DEF Init, ClientInit, ServerInit, ReadersHoldAnswers, NoStrandedRequest
  <1>6. QED
    BY <1>2, <1>3, <1>4, <1>5 DEF IInv

\* Every step preserves the invariant.
LEMMA NextIInv == IInv /\ [Next]_vars => IInv'
  <1>1. CASE UNCHANGED vars
    BY <1>1
    DEF vars, wireVars, clientVars, serverVars, IInv, MapsTyped, WireByParity, FramesByParity,
        SrvFrameByParity, ReadersHoldAnswers, NoStrandedRequest
  <1>2. QED
    BY <1>1, ClientStep, ServerStep DEF Next

\* The inductive invariant holds: client and server keep to their own ids.
THEOREM Invariance == Spec => []IInv
  BY InitIInv, NextIInv, PTL DEF Spec

\* Every variable of the four threads keeps its type, for any number of calls,
\* emissions, functions, timeouts and failing callbacks, and for any id range.
THEOREM TypeCorrect == Spec => []TypeOK
  <1>1. IInv => TypeOK
    <2>1. SUFFICES ASSUME IInv PROVE TypeOK
      OBVIOUS
    <2>2. /\ OddRequest \cup EvenReply \subseteq ToServer
          /\ OddAnswer \cup EvenAnswer \cup EvenEmit \subseteq ToClient
          /\ EvenEmit \subseteq EmitMsg
      BY WireAssumption
      DEF OddRequest, EvenReply, OddAnswer, EvenAnswer, EvenEmit, ToServer, ToClient,
          ResponseMsg, EmitMsg, OddIds, EvenIds, Calls
    <2>3. CliFrameByParity \subseteq CliFrame /\ SrvFrameByParity \subseteq SrvFrame
      <3>1. 1 .. Len(emitted) \subseteq Emits /\ Calls \subseteq 0 .. MaxCalls /\ 0 \in 0 .. MaxCalls
        BY <2>1, WireAssumption, LenProperties DEF IInv, MapsTyped, Emits, Calls
      <3>2. QED
        BY <3>1
        DEF CliFrameByParity, SrvFrameByParity, CliFrame, SrvFrame, OddIds, EvenIds
    <2>4. /\ c2s \in Seq(ToServer) /\ blockQueue \in Seq(ToServer)
          /\ s2c \in Seq(ToClient) /\ callbackQueue \in Seq(EmitMsg)
          /\ cliStack \in Seq(CliFrame) /\ srvStack \in Seq(SrvFrame)
      BY <2>1, <2>2, <2>3, SeqMonotonic DEF IInv, WireByParity, FramesByParity
    <2>5. cliRequestId \in Ids /\ srvRequestId \in Ids
      BY <2>1 DEF IInv, FramesByParity, OddIds, EvenIds
    <2>6. QED
      BY <2>1, <2>4, <2>5 DEF IInv, MapsTyped, TypeOK, ClientTypeOK, ServerTypeOK
  <1>2. QED
    BY <1>1, Invariance, PTL

\* The reader threads never misroute a message: a request never completes an
\* emission the server waits for, and an emission, or the error answer to a late
\* reply, never completes a call of the client.
THEOREM NeverMisroutes == Spec => []NoMisrouting
  <1>1. IInv => NoMisrouting
    <2>1. SUFFICES ASSUME IInv PROVE NoMisrouting
      OBVIOUS
    <2>2. ASSUME NEW i \in DOMAIN c2s, c2s[i].type = "request"
          PROVE  ~SrvTakesForReply(c2s[i])
      <3>1. c2s[i] \in OddRequest \cup EvenReply
        BY <2>1, <2>2, LenProperties, ElementOfSeq DEF IInv, WireByParity
      <3>2. c2s[i].id \in OddIds
        BY <2>2, <3>1 DEF OddRequest, EvenReply
      <3>3. c2s[i].id \in Ids /\ c2s[i].id \notin EvenIds
        BY <3>2, ParityDisjoint DEF OddIds
      <3>4. QED
        BY <2>1, <3>3 DEF IInv, FramesByParity, SrvTakesForReply
    <2>3. ASSUME NEW i \in DOMAIN s2c, s2c[i].type = "emitCallback" \/ s2c[i].of = 0
          PROVE  ~CliTakesForAnswer(s2c[i])
      <3>1. s2c[i] \in OddAnswer \cup EvenAnswer \cup EvenEmit
        BY <2>1, LenProperties, ElementOfSeq DEF IInv, WireByParity
      <3>2. s2c[i].id \in EvenIds
        BY <2>3, <3>1 DEF OddAnswer, EvenAnswer, EvenEmit, Calls
      <3>3. QED
        BY <3>2 DEF EvenIds, CliTakesForAnswer
    <2>4. QED
      BY <2>2, <2>3 DEF NoMisrouting
  <1>2. QED
    BY <1>1, Invariance, PTL

\* No request is ever left in blockQueue without a pending invocation of the
\* thread-safe function that will handle it.
THEOREM NoRequestStranded == Spec => []NoStrandedRequest
  <1>1. IInv => NoStrandedRequest
    BY DEF IInv
  <1>2. QED
    BY <1>1, Invariance, PTL

-----------------------------------------------------------------------------
(* The numbers of what is under way.                                       *)

\* The numbers of those elements of a queue or stack that are in S.
Numbers(q, S) == {m.of : m \in Range(q) \cap S}

\* They differ.
Once(q, S) ==
    \A i, j \in DOMAIN q : q[i] \in S /\ q[j] \in S /\ q[i].of = q[j].of => i = j

\* They ascend.
Ascending(q, S) ==
    \A i, j \in DOMAIN q : i < j /\ q[i] \in S /\ q[j] \in S => q[i].of < q[j].of

\* A log in ascending order.
Increasing(log) == \A i, j \in DOMAIN log : i < j => log[i] < log[j]

\* The stages a numbered message goes through: the wire w, the queue q, the log of
\* what was started.  The numbers ascend from the log to the wire, up to n.
Pipeline(log, q, w, S, n) ==
    /\ Increasing(log) /\ Ascending(q, S) /\ Ascending(w, S)
    /\ \A a \in Range(log), b \in Numbers(q, S) \cup Numbers(w, S) : a < b
    /\ \A a \in Numbers(q, S), b \in Numbers(w, S) : a < b
    /\ \A a \in Range(log) \cup Numbers(q, S) \cup Numbers(w, S) : a <= n

\* Only the top activation may not yet have sent its message, the last one, n.
SendsLast(stack, n) ==
    stack # <<>> =>
        /\ \A frame \in Range(Tail(stack)) : frame.pc # "send"
        /\ Head(stack).pc = "send" => Head(stack).of = n

\* The last number that may be on the wire.
SentUpTo(stack, n) == IF TopIs("send", stack) THEN n - 1 ELSE n

-----------------------------------------------------------------------------
(* Queues and stacks.                                                      *)

\* What is appended comes into the range.
LEMMA RangeAppend ==
    ASSUME NEW F, NEW q \in Seq(F), NEW e \in F
    PROVE  \A m : m \in Range(Append(q, e)) <=> m \in Range(q) \/ m = e
  <1>1. /\ Len(q) \in Nat /\ DOMAIN q = 1 .. Len(q) /\ DOMAIN Append(q, e) = 1 .. Len(q) + 1
        /\ \A i \in 1 .. Len(q) : Append(q, e)[i] = q[i]
        /\ Append(q, e)[Len(q) + 1] = e
    BY AppendProperties, LenProperties
  <1>2. QED
    BY <1>1 DEF Range

\* And, when it is in S, its number into the numbers.
LEMMA AppendNumbers ==
    ASSUME NEW F, NEW q \in Seq(F), NEW e \in F, NEW S
    PROVE  /\ Append(q, e) \in Seq(F)
           /\ \A m : m \in Range(Append(q, e)) <=> m \in Range(q) \/ m = e
           /\ \A a : a \in Numbers(Append(q, e), S) <=>
                      a \in Numbers(q, S) \/ (e \in S /\ a = e.of)
  <1>1. Append(q, e) \in Seq(F)
    BY AppendProperties
  <1>2. \A m : m \in Range(Append(q, e)) <=> m \in Range(q) \/ m = e
    BY RangeAppend
  <1>3. QED
    BY <1>1, <1>2 DEF Numbers

\* The head and the range of the tail make up the range.
LEMMA TailNumbers ==
    ASSUME NEW F, NEW q \in Seq(F), q # <<>>, NEW S
    PROVE  /\ Tail(q) \in Seq(F) /\ Head(q) \in F
           /\ \A m : m \in Range(q) <=> m \in Range(Tail(q)) \/ m = Head(q)
           /\ \A a : a \in Numbers(q, S) <=>
                      a \in Numbers(Tail(q), S) \/ (Head(q) \in S /\ a = Head(q).of)
  <1>1. /\ Tail(q) \in Seq(F) /\ Len(Tail(q)) = Len(q) - 1 /\ Len(q) \in Nat \ {0}
        /\ DOMAIN q = 1 .. Len(q) /\ DOMAIN Tail(q) = 1 .. Len(q) - 1
        /\ \A i \in 1 .. Len(q) - 1 : Tail(q)[i] = q[i + 1]
        /\ Head(q) = q[1] /\ Head(q) \in F
    BY HeadTailProperties, LenProperties, EmptySeq
  <1>2. \A m : m \in Range(q) <=> m \in Range(Tail(q)) \/ m = Head(q)
    <2>1. ASSUME NEW i \in DOMAIN q
          PROVE  q[i] \in Range(Tail(q)) \cup {Head(q)}
      <3>1. i # 1 => i - 1 \in DOMAIN Tail(q) /\ Tail(q)[i - 1] = q[i]
        BY <1>1
      <3>2. QED
        BY <1>1, <3>1 DEF Range
    <2>2. ASSUME NEW i \in DOMAIN Tail(q)
          PROVE  Tail(q)[i] \in Range(q)
      BY <1>1 DEF Range
    <2>3. Head(q) \in Range(q)
      BY <1>1 DEF Range
    <2>4. QED
      BY <2>1, <2>2, <2>3 DEF Range
  <1>3. QED
    BY <1>1, <1>2 DEF Numbers

\* A pushed frame is the head, and what it was pushed on the tail.
LEMMA PushHeadTail ==
    ASSUME NEW F, NEW q \in Seq(F), NEW e \in F
    PROVE  /\ Push(e, q) \in Seq(F) /\ Push(e, q) # <<>>
           /\ Head(Push(e, q)) = e /\ Tail(Push(e, q)) = q
  <1>1. PICK p \in Seq(F) :
            /\ p = Push(e, q) /\ Len(p) = Len(q) + 1 /\ Len(q) \in Nat
            /\ \A i \in 1 .. Len(q) + 1 : p[i] = IF i = 1 THEN e ELSE q[i - 1]
    <2>1. /\ Push(e, q) \in Seq(F) /\ Len(Push(e, q)) = Len(q) + 1
          /\ \A i \in 1 .. Len(q) + 1 : Push(e, q)[i] = IF i = 1 THEN e ELSE q[i - 1]
      BY PushProperties
    <2>2. Len(q) \in Nat
      BY LenProperties
    <2>3. QED
      BY <2>1, <2>2
  <1>2. p # <<>> /\ p[1] = e /\ \A i \in 1 .. Len(q) : p[i + 1] = q[i]
    BY <1>1, EmptySeq
  <1>3. Head(p) = e /\ Tail(p) \in Seq(F) /\ Len(Tail(p)) = Len(q)
    BY <1>1, <1>2, HeadTailProperties
  <1>4. \A i \in 1 .. Len(q) : Tail(p)[i] = q[i]
    BY <1>1, <1>2, HeadTailProperties
  <1>5. Tail(p) = q
    BY <1>3, <1>4, SeqEqual
  <1>6. QED
    BY <1>1, <1>2, <1>3, <1>5

\* It comes into the range and, when it is in S, its number into the numbers.
LEMMA PushNumbers ==
    ASSUME NEW F, NEW q \in Seq(F), NEW e \in F, NEW S
    PROVE  /\ Push(e, q) \in Seq(F) /\ Push(e, q) # <<>>
           /\ Head(Push(e, q)) = e /\ Tail(Push(e, q)) = q
           /\ \A m : m \in Range(Push(e, q)) <=> m \in Range(q) \/ m = e
           /\ \A a : a \in Numbers(Push(e, q), S) <=>
                      a \in Numbers(q, S) \/ (e \in S /\ a = e.of)
  <1>1. PICK p \in Seq(F) : p = Push(e, q) /\ p # <<>> /\ Head(p) = e /\ Tail(p) = q
    BY PushHeadTail
  <1>2. /\ \A m : m \in Range(p) <=> m \in Range(Tail(p)) \/ m = Head(p)
        /\ \A a : a \in Numbers(p, S) <=>
                   a \in Numbers(Tail(p), S) \/ (Head(p) \in S /\ a = Head(p).of)
    BY <1>1, TailNumbers
  <1>3. QED
    BY <1>1, <1>2

\* Every stack but the empty one is its head pushed on its tail.
LEMMA GotoNumbers ==
    ASSUME NEW F, NEW q \in Seq(F), q # <<>>, NEW pc, Frame(pc, Head(q).id, Head(q).of) \in F
    PROVE  \E e \in F :
             /\ e.pc = pc /\ e.id = Head(q).id /\ e.of = Head(q).of
             /\ Goto(pc, q) \in Seq(F) /\ Goto(pc, q) # <<>>
             /\ Head(Goto(pc, q)) = e /\ Tail(Goto(pc, q)) = Tail(q)
             /\ \A m : m \in Range(Goto(pc, q)) <=> m \in Range(Tail(q)) \/ m = e
             /\ \A S, a : a \in Numbers(Goto(pc, q), S) <=>
                           a \in Numbers(Tail(q), S) \/ (e \in S /\ a = e.of)
  <1>1. PICK t \in Seq(F) : t = Tail(q)
    BY HeadTailProperties
  <1>2. PICK e \in F : e = Frame(pc, Head(q).id, Head(q).of)
    OBVIOUS
  <1>3. Goto(pc, q) = Push(e, t)
    BY <1>1, <1>2 DEF Goto
  <1>4. PICK p \in Seq(F) : p = Goto(pc, q) /\ p # <<>> /\ Head(p) = e /\ Tail(p) = t
    BY <1>3, PushHeadTail
  <1>5. \A S : /\ \A m : m \in Range(p) <=> m \in Range(Tail(p)) \/ m = Head(p)
               /\ \A a : a \in Numbers(p, S) <=>
                          a \in Numbers(Tail(p), S) \/ (Head(p) \in S /\ a = Head(p).of)
    BY <1>4, TailNumbers
  <1>6. e.pc = pc /\ e.id = Head(q).id /\ e.of = Head(q).of
    BY <1>2 DEF Frame
  <1>7. QED
    BY <1>1, <1>4, <1>5, <1>6

\* Numbers that ascend go on doing so when a greater one is appended.
LEMMA AscendingAppend ==
    ASSUME NEW F, NEW q \in Seq(F), NEW e \in F, NEW S, Ascending(q, S),
           e \in S => \A a \in Numbers(q, S) : a < e.of
    PROVE  Ascending(Append(q, e), S)
  <1>1. /\ Len(q) \in Nat /\ DOMAIN q = 1 .. Len(q) /\ DOMAIN Append(q, e) = 1 .. Len(q) + 1
        /\ \A i \in 1 .. Len(q) : Append(q, e)[i] = q[i]
        /\ Append(q, e)[Len(q) + 1] = e
    BY AppendProperties, LenProperties
  <1>2. SUFFICES ASSUME NEW i \in 1 .. Len(q) + 1, NEW j \in 1 .. Len(q) + 1, i < j,
                        Append(q, e)[i] \in S, Append(q, e)[j] \in S
                 PROVE  Append(q, e)[i].of < Append(q, e)[j].of
    BY <1>1 DEF Ascending
  <1>3. i \in 1 .. Len(q) /\ q[i] \in S /\ q[i].of \in Numbers(q, S)
    BY <1>1, <1>2 DEF Numbers, Range
  <1>4. CASE j = Len(q) + 1
    BY <1>1, <1>2, <1>3, <1>4
  <1>5. CASE j # Len(q) + 1
    BY <1>1, <1>2, <1>3, <1>5 DEF Ascending
  <1>6. QED
    BY <1>4, <1>5

\* The head of ascending numbers is the least.
LEMMA AscendingTail ==
    ASSUME NEW F, NEW q \in Seq(F), q # <<>>, NEW S, Ascending(q, S)
    PROVE  /\ Ascending(Tail(q), S)
           /\ Head(q) \in S => \A a \in Numbers(Tail(q), S) : Head(q).of < a
  <1>1. /\ Tail(q) \in Seq(F) /\ Len(q) \in Nat \ {0}
        /\ DOMAIN q = 1 .. Len(q) /\ DOMAIN Tail(q) = 1 .. Len(q) - 1
        /\ \A i \in 1 .. Len(q) - 1 : Tail(q)[i] = q[i + 1] /\ i + 1 \in 1 .. Len(q)
        /\ Head(q) = q[1] /\ 1 \in 1 .. Len(q)
    BY HeadTailProperties, LenProperties, EmptySeq
  <1>2. ASSUME NEW i \in 1 .. Len(q) - 1, NEW j \in 1 .. Len(q) - 1, i < j,
               Tail(q)[i] \in S, Tail(q)[j] \in S
        PROVE  Tail(q)[i].of < Tail(q)[j].of
    BY <1>1, <1>2 DEF Ascending
  <1>3. ASSUME Head(q) \in S, NEW i \in 1 .. Len(q) - 1, Tail(q)[i] \in S
        PROVE  Head(q).of < Tail(q)[i].of
    BY <1>1, <1>3 DEF Ascending
  <1>4. QED
    BY <1>1, <1>2, <1>3 DEF Ascending, Numbers, Range

\* Numbers that differ go on doing so when another one is appended.
LEMMA OnceAppend ==
    ASSUME NEW F, NEW q \in Seq(F), NEW e \in F, NEW S, Once(q, S),
           e \in S => e.of \notin Numbers(q, S)
    PROVE  Once(Append(q, e), S)
  <1>1. /\ Len(q) \in Nat /\ DOMAIN q = 1 .. Len(q) /\ DOMAIN Append(q, e) = 1 .. Len(q) + 1
        /\ \A i \in 1 .. Len(q) : Append(q, e)[i] = q[i]
        /\ Append(q, e)[Len(q) + 1] = e
    BY AppendProperties, LenProperties
  <1>2. \A i \in 1 .. Len(q) : q[i] \in S => q[i].of \in Numbers(q, S)
    BY <1>1 DEF Numbers, Range
  <1>3. QED
    BY <1>1, <1>2 DEF Once

\* The number of the head is not met again in the tail.
LEMMA OnceTail ==
    ASSUME NEW F, NEW q \in Seq(F), q # <<>>, NEW S, Once(q, S)
    PROVE  /\ Once(Tail(q), S)
           /\ Head(q) \in S => Head(q).of \notin Numbers(Tail(q), S)
  <1>1. /\ Tail(q) \in Seq(F) /\ Len(q) \in Nat \ {0}
        /\ DOMAIN q = 1 .. Len(q) /\ DOMAIN Tail(q) = 1 .. Len(q) - 1
        /\ \A i \in 1 .. Len(q) - 1 : Tail(q)[i] = q[i + 1] /\ i + 1 \in 1 .. Len(q)
        /\ Head(q) = q[1] /\ 1 \in 1 .. Len(q)
    BY HeadTailProperties, LenProperties, EmptySeq
  <1>2. Once(Tail(q), S)
    <2>1. ASSUME NEW i \in 1 .. Len(q) - 1, NEW j \in 1 .. Len(q) - 1,
                 Tail(q)[i] \in S, Tail(q)[j] \in S, Tail(q)[i].of = Tail(q)[j].of
          PROVE  i = j
      <3>1. i + 1 = j + 1
        BY <1>1, <2>1 DEF Once
      <3>2. QED
        BY <3>1
    <2>2. QED
      BY <1>1, <2>1 DEF Once
  <1>3. ASSUME Head(q) \in S, NEW i \in 1 .. Len(q) - 1, Tail(q)[i] \in S
        PROVE  Head(q).of # Tail(q)[i].of
    <2>1. i + 1 # 1
      OBVIOUS
    <2>2. QED
      BY <1>1, <1>3, <2>1 DEF Once
  <1>4. QED
    BY <1>1, <1>2, <1>3 DEF Numbers, Range

\* Numbers that differ go on doing so when a frame of another one is pushed.
LEMMA OncePush ==
    ASSUME NEW F, NEW q \in Seq(F), NEW e \in F, NEW S, Once(q, S),
           e \in S => e.of \notin Numbers(q, S)
    PROVE  Once(Push(e, q), S)
  <1>1. Len(q) \in Nat /\ DOMAIN q = 1 .. Len(q)
    BY LenProperties
  <1>2. /\ Push(e, q) \in Seq(F) /\ Len(Push(e, q)) = Len(q) + 1
         /\ \A i \in 1 .. Len(q) + 1 : Push(e, q)[i] = IF i = 1 THEN e ELSE q[i - 1]
    BY PushProperties
  <1>3. /\ Len(q) \in Nat /\ DOMAIN q = 1 .. Len(q) /\ DOMAIN Push(e, q) = 1 .. Len(q) + 1
        /\ \A i \in 1 .. Len(q) + 1 : Push(e, q)[i] = IF i = 1 THEN e ELSE q[i - 1]
        /\ \A i \in 1 .. Len(q) + 1 : i # 1 => i - 1 \in 1 .. Len(q)
    BY <1>1, <1>2, LenProperties
  <1>4. \A i \in 1 .. Len(q) : q[i] \in S => q[i].of \in Numbers(q, S)
    BY <1>3 DEF Numbers, Range
  <1>5. SUFFICES ASSUME NEW i \in 1 .. Len(q) + 1, NEW j \in 1 .. Len(q) + 1,
                        Push(e, q)[i] \in S, Push(e, q)[j] \in S,
                        Push(e, q)[i].of = Push(e, q)[j].of
                 PROVE  i = j
    BY <1>3 DEF Once
  <1>6. CASE i = 1 \/ j = 1
    BY <1>3, <1>4, <1>5, <1>6
  <1>7. CASE i # 1 /\ j # 1
    <2>1. i - 1 = j - 1
      BY <1>3, <1>5, <1>7 DEF Once
    <2>2. QED
      BY <2>1
  <1>8. QED
    BY <1>6, <1>7

\* They do when the top of a stack changes its pc only.
LEMMA OnceGoto ==
    ASSUME NEW F, NEW q \in Seq(F), q # <<>>, NEW pc, NEW S, Once(q, S),
           Frame(pc, Head(q).id, Head(q).of) \in F,
           Frame(pc, Head(q).id, Head(q).of) \in S => Head(q) \in S
    PROVE  Once(Goto(pc, q), S)
  <1>1. PICK t \in Seq(F) : t = Tail(q)
    BY HeadTailProperties
  <1>2. PICK e \in F : e = Frame(pc, Head(q).id, Head(q).of)
    OBVIOUS
  <1>3. Goto(pc, q) = Push(e, t)
    BY <1>1, <1>2 DEF Goto
  <1>4. Once(t, S) /\ (Head(q) \in S => Head(q).of \notin Numbers(t, S))
    BY <1>1, OnceTail
  <1>5. e \in S => e.of \notin Numbers(t, S)
    BY <1>2, <1>4 DEF Frame
  <1>6. QED
    BY <1>3, <1>4, <1>5, OncePush

\* A log that increases goes on doing so when a greater number is appended.
LEMMA IncreasingAppend ==
    ASSUME NEW F, NEW log \in Seq(F), NEW a \in F, Increasing(log),
           \A b \in Range(log) : b < a
    PROVE  /\ Increasing(Append(log, a))
           /\ \A b : b \in Range(Append(log, a)) <=> b \in Range(log) \/ b = a
  <1>1. /\ Len(log) \in Nat /\ DOMAIN log = 1 .. Len(log)
        /\ DOMAIN Append(log, a) = 1 .. Len(log) + 1
        /\ \A i \in 1 .. Len(log) : Append(log, a)[i] = log[i]
        /\ Append(log, a)[Len(log) + 1] = a
    BY AppendProperties, LenProperties
  <1>2. \A i \in 1 .. Len(log) : log[i] \in Range(log)
    BY <1>1 DEF Range
  <1>3. QED
    BY <1>1, <1>2, AppendNumbers DEF Increasing

\* The pipeline as its messages go on: the reader takes one off the wire into the
\* queue, whatever it is, or elsewhere.
LEMMA PipelineRead ==
    ASSUME NEW F, NEW q \in Seq(F), NEW w \in Seq(F), w # <<>>, NEW log \in Seq(Nat),
           NEW S, \A m \in S : m.of \in Nat, NEW n \in Nat, Pipeline(log, q, w, S, n)
    PROVE  /\ Pipeline(log, Append(q, Head(w)), Tail(w), S, n)
           /\ Pipeline(log, q, Tail(w), S, n)
  <1>1. /\ Head(w) \in F
        /\ \A a : a \in Numbers(w, S) <=>
                  a \in Numbers(Tail(w), S) \/ (Head(w) \in S /\ a = Head(w).of)
    BY TailNumbers
  <1>2. PICK m \in F : m = Head(w)
    BY <1>1
  <1>3. \A a : a \in Numbers(Append(q, m), S) <=> a \in Numbers(q, S) \/ (m \in S /\ a = m.of)
    BY AppendNumbers
  <1>4. /\ Ascending(Tail(w), S)
        /\ Head(w) \in S => \A a \in Numbers(Tail(w), S) : Head(w).of < a
    BY AscendingTail DEF Pipeline
  <1>5. Ascending(Append(q, m), S)
    <2>1. m \in S => \A a \in Numbers(q, S) : a < m.of
      BY <1>1, <1>2 DEF Pipeline
    <2>2. QED
      BY <2>1, AscendingAppend DEF Pipeline
  <1>6. QED
    BY <1>1, <1>2, <1>3, <1>4, <1>5 DEF Pipeline

\* The oldest message of the queue is started, or dropped.
LEMMA PipelineStart ==
    ASSUME NEW F, NEW q \in Seq(F), NEW w \in Seq(F), q # <<>>, NEW log \in Seq(Nat),
           NEW S, \A m \in S : m.of \in Nat, NEW n \in Nat, Pipeline(log, q, w, S, n)
    PROVE  /\ Pipeline(log, Tail(q), w, S, n)
           /\ Head(q) \in S => Pipeline(Append(log, Head(q).of), Tail(q), w, S, n)
  <1>1. \A a : a \in Numbers(q, S) <=>
               a \in Numbers(Tail(q), S) \/ (Head(q) \in S /\ a = Head(q).of)
    BY TailNumbers
  <1>2. /\ Ascending(Tail(q), S)
        /\ Head(q) \in S => \A a \in Numbers(Tail(q), S) : Head(q).of < a
    BY AscendingTail DEF Pipeline
  <1>3. Pipeline(log, Tail(q), w, S, n)
    BY <1>1, <1>2 DEF Pipeline
  <1>4. ASSUME Head(q) \in S
        PROVE  Pipeline(Append(log, Head(q).of), Tail(q), w, S, n)
    <2>1. PICK k \in Nat : k = Head(q).of
      BY <1>4
    <2>2. \A b \in Range(log) : b < k
      BY <1>1, <1>4, <2>1 DEF Pipeline
    <2>3. /\ Increasing(Append(log, k))
          /\ \A b : b \in Range(Append(log, k)) <=> b \in Range(log) \/ b = k
      BY <2>2, IncreasingAppend DEF Pipeline
    <2>4. QED
      BY <1>1, <1>2, <1>4, <2>1, <2>3 DEF Pipeline
  <1>5. QED
    BY <1>3, <1>4

\* A message is sent: one that is numbered after all others, or of another kind.
LEMMA PipelineSend ==
    ASSUME NEW F, NEW q \in Seq(F), NEW w \in Seq(F), NEW m \in F, NEW log \in Seq(Nat),
           NEW S, \A e \in S : e.of \in Nat, NEW n \in Nat, Pipeline(log, q, w, S, n),
           NEW p \in Nat, n <= p, m \in S => n < m.of /\ m.of <= p
    PROVE  Pipeline(log, q, Append(w, m), S, p)
  <1>1. \A a : a \in Numbers(Append(w, m), S) <=> a \in Numbers(w, S) \/ (m \in S /\ a = m.of)
    BY AppendNumbers
  <1>2. /\ \A a \in Range(log) : a \in Nat /\ a <= n
        /\ \A a \in Numbers(q, S) \cup Numbers(w, S) : a \in Nat /\ a <= n
    <2>1. \A a \in Range(log) : a \in Nat
      BY LenProperties DEF Range
    <2>2. \A a \in Numbers(q, S) \cup Numbers(w, S) : a \in Nat
      BY DEF Numbers
    <2>3. QED
      BY <2>1, <2>2 DEF Pipeline
  <1>3. Ascending(Append(w, m), S)
    <2>1. m \in S => \A a \in Numbers(w, S) : a < m.of
      BY <1>2
    <2>2. QED
      BY <2>1, AscendingAppend DEF Pipeline
  <1>4. m \in S => m.of \in Nat
    OBVIOUS
  <1>5. QED
    BY <1>1, <1>2, <1>3, <1>4 DEF Pipeline

\* An activation is started: the one below it has sent its message.
LEMMA SendsPush ==
    ASSUME NEW F, NEW s \in Seq(F), NEW f \in F, NEW n, NEW p, SendsLast(s, n), ~TopIs("send", s),
           f.pc = "send" => f.of = p
    PROVE  /\ SendsLast(Push(f, s), p)
           /\ SentUpTo(Push(f, s), p) = IF f.pc = "send" THEN p - 1 ELSE p
  <1>1. Push(f, s) # <<>> /\ Head(Push(f, s)) = f /\ Tail(Push(f, s)) = s
    BY PushNumbers
  <1>2. \A frame \in Range(s) : frame.pc # "send"
    <2>1. CASE s = <<>>
      BY <2>1 DEF Range
    <2>2. CASE s # <<>>
      <3>1. \A m : m \in Range(s) <=> m \in Range(Tail(s)) \/ m = Head(s)
        BY <2>2, TailNumbers
      <3>2. QED
        BY <2>2, <3>1 DEF SendsLast, TopIs
    <2>3. QED
      BY <2>1, <2>2
  <1>3. QED
    BY <1>1, <1>2 DEF SendsLast, SentUpTo, TopIs

\* The top activation ends, or goes on in its loop: what is left has sent its message.
LEMMA SendsTail ==
    ASSUME NEW F, NEW s \in Seq(F), s # <<>>, NEW n, NEW p, SendsLast(s, n)
    PROVE  /\ SendsLast(Tail(s), p) /\ SentUpTo(Tail(s), p) = p
           /\ ~TopIs("send", Tail(s))
  <1>1. PICK t \in Seq(F) : t = Tail(s)
    BY HeadTailProperties
  <1>2. \A frame \in Range(t) : frame.pc # "send"
    BY <1>1 DEF SendsLast
  <1>3. t # <<>> => \A m : m \in Range(t) <=> m \in Range(Tail(t)) \/ m = Head(t)
    BY TailNumbers
  <1>4. QED
    BY <1>1, <1>2, <1>3 DEF SendsLast, SentUpTo, TopIs

\* So does one whose top activation sends what it had not sent, or goes on.
LEMMA SendsGoto ==
    ASSUME NEW F, NEW s \in Seq(F), s # <<>>, NEW n, NEW p, SendsLast(s, n), NEW pc, pc # "send",
           Frame(pc, Head(s).id, Head(s).of) \in F
    PROVE  SendsLast(Goto(pc, s), p) /\ SentUpTo(Goto(pc, s), p) = p
  <1>1. PICK e \in F : /\ e.pc = pc /\ Goto(pc, s) # <<>>
                       /\ Head(Goto(pc, s)) = e /\ Tail(Goto(pc, s)) = Tail(s)
    BY GotoNumbers
  <1>2. QED
    BY <1>1 DEF SendsLast, SentUpTo, TopIs

\* A higher bound is a bound.
LEMMA PipelineRaise ==
    ASSUME NEW q, NEW w, NEW log \in Seq(Nat), NEW S, \A e \in S : e.of \in Nat,
           NEW n \in Nat, NEW p \in Nat, n <= p, Pipeline(log, q, w, S, n)
    PROVE  Pipeline(log, q, w, S, p)
  <1>1. \A a \in Range(log) \cup Numbers(q, S) \cup Numbers(w, S) : a \in Nat
    BY LenProperties DEF Range, Numbers
  <1>2. QED
    BY <1>1 DEF Pipeline

-----------------------------------------------------------------------------
(* Requests keep their order.                                              *)

\* Requests, from the server's log back to the client's stack.
CallOrder ==
    /\ SendsLast(cliStack, calls)
    /\ Pipeline(requestLog, blockQueue, c2s, OddRequest, SentUpTo(cliStack, calls))

\* What the types say of the requests on their way.
LEMMA CallTypes ==
    ASSUME IInv, CallOrder
    PROVE  /\ cliStack \in Seq(CliFrameByParity)
           /\ c2s \in Seq(OddRequest \cup EvenReply)
           /\ blockQueue \in Seq(OddRequest \cup EvenReply)
           /\ requestLog \in Seq(Nat) /\ calls \in Nat
           /\ \A m \in OddRequest : m.of \in Nat
           /\ SentUpTo(cliStack, calls) \in Nat
  <1>1. /\ cliStack \in Seq(CliFrameByParity)
        /\ c2s \in Seq(OddRequest \cup EvenReply)
        /\ blockQueue \in Seq(OddRequest \cup EvenReply)
        /\ requestLog \in Seq(Calls) /\ calls \in Nat
    BY WireAssumption DEF IInv, MapsTyped, WireByParity, FramesByParity
  <1>2. Calls \subseteq Nat
    BY WireAssumption DEF Calls
  <1>3. requestLog \in Seq(Nat)
    BY <1>1, <1>2, SeqMonotonic
  <1>4. \A m \in OddRequest : m.of \in Nat
    BY <1>2 DEF OddRequest
  <1>5. TopIs("send", cliStack) => calls \in Calls
    BY CliTop DEF IInv, CallOrder, SendsLast, TopIs, Blocked
  <1>6. SentUpTo(cliStack, calls) \in Nat
    BY <1>1, <1>5, WireAssumption DEF SentUpTo, Calls
  <1>7. QED
    BY <1>1, <1>3, <1>4, <1>6

\* The client numbers its requests in order and sends each before it makes the next.
LEMMA CallOrderClient ==
    ASSUME IInv, CallOrder, ClientNext, UNCHANGED serverVars
    PROVE  CallOrder'
  <1>1. /\ cliStack \in Seq(CliFrameByParity)
        /\ c2s \in Seq(OddRequest \cup EvenReply)
        /\ blockQueue \in Seq(OddRequest \cup EvenReply)
        /\ requestLog \in Seq(Nat) /\ calls \in Nat
        /\ \A m \in OddRequest : m.of \in Nat
        /\ SentUpTo(cliStack, calls) \in Nat
        /\ SendsLast(cliStack, calls)
        /\ Pipeline(requestLog, blockQueue, c2s, OddRequest, SentUpTo(cliStack, calls))
    BY CallTypes DEF CallOrder
  <1>2. cliStack \in Seq(CliFrameByParity) /\ SendsLast(cliStack, calls)
    BY <1>1
  <1>3. requestLog' = requestLog /\ blockQueue' = blockQueue
    BY DEF serverVars
  <1>4. CASE CliCall
    <2>1. ~TopIs("send", cliStack) /\ calls' = calls + 1 /\ c2s' = c2s
      BY <1>4 DEF CliCall, TopIs
    <2>2. SentUpTo(cliStack, calls) = calls
      BY <2>1 DEF SentUpTo
    <2>3. CASE cliStack' = cliStack
      <3>1. SendsLast(cliStack, calls + 1) /\ SentUpTo(cliStack, calls + 1) = calls + 1
        BY <1>1, <2>1 DEF SendsLast, SentUpTo, TopIs
      <3>2. Pipeline(requestLog, blockQueue, c2s, OddRequest, calls + 1)
        BY <1>1, <2>2, PipelineRaise
      <3>3. QED
        BY <1>3, <2>1, <2>3, <3>1, <3>2 DEF CallOrder
    <2>4. CASE cliStack' # cliStack
      <3>1. PICK f \in CliFrameByParity :
                cliStack' = Push(f, cliStack) /\ f.pc = "send" /\ f.of = calls + 1
        <4>1. PICK id \in OddIds : cliStack' = Push(Frame("send", id, calls + 1), cliStack)
          BY <1>4, <2>4, NextIdParity DEF CliCall, IInv, FramesByParity
        <4>2. calls + 1 \in Calls
          BY <1>1, <1>4, WireAssumption DEF CliCall, Calls
        <4>3. Frame("send", id, calls + 1) \in CliFrameByParity
          BY <4>2 DEF CliFrameByParity, Frame, Blocked
        <4>4. QED
          BY <4>1, <4>3 DEF Frame
      <3>2. /\ SendsLast(Push(f, cliStack), calls + 1)
            /\ SentUpTo(Push(f, cliStack), calls + 1) = (calls + 1) - 1
        <4>1. ~TopIs("send", cliStack) /\ f.of = calls + 1 /\ f.pc = "send"
          BY <2>1, <3>1
        <4>2. QED
          BY <1>2, <4>1, SendsPush
      <3>3. (calls + 1) - 1 = calls
        BY <1>1
      <3>4. QED
        BY <1>1, <1>3, <2>1, <2>2, <3>1, <3>2, <3>3 DEF CallOrder
    <2>5. QED
      BY <2>3, <2>4
  <1>5. CASE CliSend
    <2>1. cliStack # <<>> /\ Head(cliStack).pc = "send" /\ calls' = calls
      BY <1>5 DEF CliSend, TopIs
    <2>2. SentUpTo(cliStack, calls) = calls - 1 /\ Head(cliStack).of = calls
      BY <1>1, <2>1 DEF SendsLast, SentUpTo, TopIs
    <2>3. PICK m \in OddRequest : c2s' = Append(c2s, m) /\ m.of = calls
      <3>1. Request(Head(cliStack).id, Head(cliStack).of) \in OddRequest
        BY <2>1, CliTop DEF IInv, Blocked, Request, OddRequest
      <3>2. QED
        BY <1>5, <2>2, <3>1 DEF CliSend, Request
    <2>4. Pipeline(requestLog, blockQueue, c2s', OddRequest, calls)
      <3>1. PICK n \in Nat : n = SentUpTo(cliStack, calls)
        BY <1>1
      <3>2. n < calls /\ n <= calls
        BY <1>1, <2>2, <3>1
      <3>3. Pipeline(requestLog, blockQueue, Append(c2s, m), OddRequest, calls)
        <4>1. Pipeline(requestLog, blockQueue, c2s, OddRequest, n) /\ n < m.of /\ m.of <= calls
          BY <1>1, <2>3, <3>1, <3>2
        <4>2. /\ c2s \in Seq(OddRequest \cup EvenReply)
              /\ blockQueue \in Seq(OddRequest \cup EvenReply)
              /\ requestLog \in Seq(Nat) /\ calls \in Nat /\ \A e \in OddRequest : e.of \in Nat
              /\ m \in OddRequest \cup EvenReply
          BY <1>1
        <4>3. QED
          BY <3>2, <4>1, <4>2, PipelineSend
      <3>4. QED
        BY <2>3, <3>3
    <2>5. SendsLast(cliStack', calls) /\ SentUpTo(cliStack', calls) = calls
      <3>1. Frame("drain", Head(cliStack).id, Head(cliStack).of) \in CliFrameByParity
        BY <2>1, CliTop DEF IInv, CliFrameByParity, Frame, Blocked
      <3>2. /\ SendsLast(Goto("drain", cliStack), calls)
            /\ SentUpTo(Goto("drain", cliStack), calls) = calls
        BY <1>2, <2>1, <3>1, SendsGoto
      <3>3. QED
        BY <1>5, <3>2 DEF CliSend
    <2>6. QED
      BY <1>3, <2>1, <2>4, <2>5 DEF CallOrder
  <1>6. ASSUME calls' = calls, SentUpTo(cliStack, calls) = calls,
               SendsLast(cliStack', calls), SentUpTo(cliStack', calls) = calls,
               c2s' = c2s \/ \E m \in EvenReply : c2s' = Append(c2s, m)
        PROVE  CallOrder'
    <2>1. EvenReply \cap OddRequest = {}
      BY DEF EvenReply, OddRequest
    <2>2. ASSUME NEW m \in EvenReply, c2s' = Append(c2s, m)
          PROVE  Pipeline(requestLog, blockQueue, c2s', OddRequest, calls)
      <3>1. PICK e \in OddRequest \cup EvenReply : e = m /\ e \notin OddRequest
        BY <2>1
      <3>2. Pipeline(requestLog, blockQueue, Append(c2s, e), OddRequest, calls)
        BY <1>1, <1>6, <3>1, PipelineSend
      <3>3. QED
        BY <2>2, <3>1, <3>2
    <2>3. QED
      BY <1>1, <1>3, <1>6, <2>2 DEF CallOrder
  <1>7. CASE CliPop \/ \E f \in Functions : CliTsfn(f)
    <2>1. ~TopIs("send", cliStack) /\ calls' = calls /\ c2s' = c2s
      BY <1>7 DEF CliPop, CliTsfn, TopIs
    <2>2. SentUpTo(cliStack, calls) = calls
      BY <2>1 DEF SentUpTo
    <2>3. CASE cliStack' = cliStack
      BY <1>1, <1>6, <2>1, <2>2, <2>3
    <2>4. CASE cliStack' # cliStack
      <3>1. PICK f \in CliFrameByParity : cliStack' = Push(f, cliStack) /\ f.pc = "run"
        <4>1. callbackQueue # <<>> /\ callbackQueue \in Seq(EvenEmit)
          BY <1>7, <2>4 DEF CliPop, CliTsfn, IInv, WireByParity
        <4>2. PICK e \in EvenEmit : e = Head(callbackQueue)
          BY <4>1, HeadTailProperties
        <4>3. cliStack' = Push(Frame("run", e.id, e.of), cliStack)
          BY <1>7, <2>4, <4>2 DEF CliPop, CliTsfn, RunCallback
        <4>4. Frame("run", e.id, e.of) \in CliFrameByParity
          BY DEF CliFrameByParity, Frame, EvenEmit
        <4>5. QED
          BY <4>3, <4>4 DEF Frame
      <3>2. SendsLast(Push(f, cliStack), calls) /\ SentUpTo(Push(f, cliStack), calls) = calls
        <4>1. ~TopIs("send", cliStack) /\ f.pc = "run" /\ f.pc # "send"
          BY <2>1, <3>1
        <4>2. QED
          BY <1>2, <4>1, SendsPush
      <3>3. QED
        BY <1>6, <2>1, <2>2, <3>1, <3>2
    <2>5. QED
      BY <2>3, <2>4
  <1>8. CASE CliWait \/ CliWake
    <2>1. PICK pc \in {"drain", "wait"} :
              /\ cliStack # <<>> /\ Head(cliStack).pc \in {"drain", "wait"}
              /\ cliStack' = Goto(pc, cliStack) /\ calls' = calls /\ c2s' = c2s
      BY <1>8 DEF CliWait, CliWake, TopIs
    <2>2. SentUpTo(cliStack, calls) = calls
      BY <2>1 DEF SentUpTo, TopIs
    <2>3. Frame(pc, Head(cliStack).id, Head(cliStack).of) \in CliFrameByParity
      BY <2>1, CliTop DEF IInv, CliFrameByParity, Frame, Blocked
    <2>4. SendsLast(cliStack', calls) /\ SentUpTo(cliStack', calls) = calls
      BY <1>1, <2>1, <2>3, SendsGoto
    <2>5. QED
      BY <1>6, <2>1, <2>2, <2>4
  <1>9. CASE CliReturn \/ CliTimeout \/ CliCallbackReturn \/ CliCallbackThrow
    <2>1. /\ cliStack # <<>> /\ Head(cliStack).pc \in {"drain", "wait", "run"}
          /\ calls' = calls
          /\ \/ cliStack' = Tail(cliStack)
             \/ Tail(cliStack) # <<>> /\ cliStack' = Tail(Tail(cliStack))
      BY <1>9 DEF CliReturn, CliTimeout, CliCallbackReturn, CliCallbackThrow, TopIs
    <2>2. SentUpTo(cliStack, calls) = calls
      BY <2>1 DEF SentUpTo, TopIs
    <2>3. SendsLast(cliStack', calls) /\ SentUpTo(cliStack', calls) = calls
      <3>1. PICK t \in Seq(CliFrameByParity) : t = Tail(cliStack)
        BY <1>1, <2>1, HeadTailProperties
      <3>2. SendsLast(t, calls) /\ SentUpTo(t, calls) = calls
        BY <1>1, <2>1, <3>1, SendsTail
      <3>3. t # <<>> => SendsLast(Tail(t), calls) /\ SentUpTo(Tail(t), calls) = calls
        BY <3>2, SendsTail
      <3>4. QED
        BY <2>1, <3>1, <3>2, <3>3
    <2>4. c2s' = c2s \/ \E m \in EvenReply : c2s' = Append(c2s, m)
      <3>1. CASE CliCallbackReturn
        <4>1. Head(cliStack).id \in EvenIds /\ Head(cliStack).of \in Emits
          BY <3>1, CliTop DEF IInv, CliCallbackReturn, TopIs
        <4>2. Head(cliStack).id > 0 =>
                CallbackReply(Head(cliStack).id, Head(cliStack).of) \in EvenReply
          BY <4>1 DEF CallbackReply, EvenReply
        <4>3. QED
          BY <3>1, <4>2 DEF CliCallbackReturn
      <3>2. QED
        BY <1>9, <3>1 DEF CliReturn, CliTimeout, CliCallbackThrow
    <2>5. QED
      BY <1>6, <2>1, <2>2, <2>3, <2>4
  <1>10. CASE CliDrop \/ CliReader
    <2>1. cliStack' = cliStack /\ calls' = calls /\ c2s' = c2s
      BY <1>10 DEF CliDrop, CliReader, CliRecvAnswer, CliSetValue, CliRecvEmit, CliRecvDrop
    <2>2. QED
      BY <1>1, <1>3, <2>1 DEF CallOrder
  <1>11. QED
    BY <1>4, <1>5, <1>7, <1>8, <1>9, <1>10 DEF ClientNext, CliJsStep

\* The server queues requests as they arrive and handles the oldest first.
LEMMA CallOrderServer ==
    ASSUME IInv, CallOrder, ServerNext, UNCHANGED clientVars
    PROVE  CallOrder'
  <1>1. /\ c2s \in Seq(OddRequest \cup EvenReply)
        /\ blockQueue \in Seq(OddRequest \cup EvenReply)
        /\ requestLog \in Seq(Nat)
        /\ \A m \in OddRequest : m.of \in Nat
        /\ SendsLast(cliStack, calls)
    BY CallTypes DEF CallOrder
  <1>2. PICK n \in Nat : n = SentUpTo(cliStack, calls)
    BY CallTypes
  <1>3. Pipeline(requestLog, blockQueue, c2s, OddRequest, n)
    BY <1>2 DEF CallOrder
  <1>4. cliStack' = cliStack /\ calls' = calls
    BY DEF clientVars
  <1>5. SUFFICES Pipeline(requestLog', blockQueue', c2s', OddRequest, n)
    BY <1>1, <1>2, <1>4 DEF CallOrder
  <1>6. CASE blockQueue # <<>> /\ HandleMessage /\ c2s' = c2s
    <2>1. PICK m \in OddRequest \cup EvenReply : m = Head(blockQueue)
      BY <1>1, <1>6, HeadTailProperties
    <2>2. m.type = "request" => m \in OddRequest /\ m.of # 0
      BY <2>1, WireAssumption DEF OddRequest, EvenReply, Calls
    <2>3. /\ blockQueue' = Tail(blockQueue)
          /\ \/ requestLog' = requestLog
             \/ requestLog' = Append(requestLog, m.of) /\ m \in OddRequest
      <3>1. CASE m.type = "request"
        BY <1>6, <2>1, <2>2, <3>1 DEF HandleMessage
      <3>2. CASE m.type # "request"
        BY <1>6, <2>1, <3>2 DEF HandleMessage
      <3>3. QED
        BY <3>1, <3>2
    <2>4. /\ Pipeline(requestLog, Tail(blockQueue), c2s, OddRequest, n)
          /\ m \in OddRequest =>
               Pipeline(Append(requestLog, m.of), Tail(blockQueue), c2s, OddRequest, n)
      BY <1>1, <1>3, <1>6, <2>1, PipelineStart
    <2>5. QED
      BY <1>6, <2>3, <2>4
  <1>7. CASE SrvSetValue \/ SrvRecvMessage
    <2>1. c2s # <<>>
      BY <1>7 DEF SrvSetValue, SrvRecvMessage, IInv, ReadersHoldAnswers
    <2>2. /\ Pipeline(requestLog, Append(blockQueue, Head(c2s)), Tail(c2s), OddRequest, n)
          /\ Pipeline(requestLog, blockQueue, Tail(c2s), OddRequest, n)
      BY <1>1, <1>3, <2>1, PipelineRead
    <2>3. QED
      BY <1>7, <2>2 DEF SrvSetValue, SrvRecvMessage
  <1>8. CASE UNCHANGED <<requestLog, blockQueue, c2s>>
    BY <1>3, <1>8
  <1>9. QED
    BY <1>6, <1>7, <1>8
    DEF ServerNext, SrvJsStep, SrvReader, SrvEmitSync, SrvEmitAsync, SrvSend, SrvPop, SrvWait,
        SrvWake, SrvReturn, SrvReply, SrvTimeout, SrvTsfn, SrvRecvReply

-----------------------------------------------------------------------------
(* So do emissions.                                                        *)

\* Synchronous and asynchronous emissions, from the client's log back to the server's stack.
EmitOrder ==
    /\ SendsLast(srvStack, Len(emitted))
    /\ Pipeline(Started(callbackLog), callbackQueue, s2c, EvenEmit,
                SentUpTo(srvStack, Len(emitted)))

\* The numbers of a log, and of one that is a callback longer.
LEMMA StartedLog ==
    ASSUME NEW F, NEW log \in Seq(F), \A r \in F : r.of \in Nat, NEW r \in F
    PROVE  /\ Started(log) \in Seq(Nat)
           /\ Started(Append(log, r)) = Append(Started(log), r.of)
  <1>1. /\ Len(log) \in Nat /\ DOMAIN log = 1 .. Len(log)
        /\ \A i \in 1 .. Len(log) : log[i] \in F
    BY LenProperties, ElementOfSeq
  <1>2. /\ Started(log) \in Seq(Nat) /\ Len(Started(log)) = Len(log)
        /\ \A i \in 1 .. Len(log) : Started(log)[i] = log[i].of
    BY <1>1 DEF Started
  <1>3. /\ Append(log, r) \in Seq(F) /\ Len(Append(log, r)) = Len(log) + 1
        /\ DOMAIN Append(log, r) = 1 .. Len(log) + 1
        /\ \A i \in 1 .. Len(log) : Append(log, r)[i] = log[i]
        /\ Append(log, r)[Len(log) + 1] = r
    BY <1>1, AppendProperties, LenProperties
  <1>4. /\ Started(Append(log, r)) \in Seq(Nat) /\ Len(Started(Append(log, r))) = Len(log) + 1
        /\ \A i \in 1 .. Len(log) + 1 : Started(Append(log, r))[i] = Append(log, r)[i].of
    <2>1. \A i \in 1 .. Len(log) + 1 : Append(log, r)[i] \in F
      BY <1>1, <1>3
    <2>2. QED
      BY <1>1, <1>3, <2>1 DEF Started
  <1>5. PICK k \in Nat : k = r.of
    OBVIOUS
  <1>6. /\ Append(Started(log), k) \in Seq(Nat) /\ Len(Append(Started(log), k)) = Len(log) + 1
        /\ \A i \in 1 .. Len(log) : Append(Started(log), k)[i] = Started(log)[i]
        /\ Append(Started(log), k)[Len(log) + 1] = k
    BY <1>2, AppendProperties
  <1>7. \A i \in 1 .. Len(log) + 1 : Started(Append(log, r))[i] = Append(Started(log), k)[i]
    <2>1. ASSUME NEW i \in 1 .. Len(log)
          PROVE  Started(Append(log, r))[i] = Append(Started(log), k)[i]
      <3>1. i \in 1 .. Len(log) + 1
        BY <1>1
      <3>2. Started(Append(log, r))[i] = log[i].of
        BY <1>3, <1>4, <3>1
      <3>3. QED
        BY <1>2, <1>6, <3>2
    <2>2. Started(Append(log, r))[Len(log) + 1] = Append(Started(log), k)[Len(log) + 1]
      <3>1. Len(log) + 1 \in 1 .. Len(log) + 1
        BY <1>1
      <3>2. Started(Append(log, r))[Len(log) + 1] = r.of
        BY <1>3, <1>4, <3>1
      <3>3. QED
        BY <1>5, <1>6, <3>2
    <2>3. ASSUME NEW i \in 1 .. Len(log) + 1
          PROVE  i \in 1 .. Len(log) \/ i = Len(log) + 1
      BY <1>1
    <2>4. QED
      BY <2>1, <2>2, <2>3
  <1>8. Started(Append(log, r)) = Append(Started(log), k)
    BY <1>4, <1>6, <1>7, SeqEqual
  <1>9. QED
    BY <1>2, <1>5, <1>8

\* What the types say of the emissions on their way.
LEMMA EmitTypes ==
    ASSUME IInv, EmitOrder
    PROVE  /\ srvStack \in Seq(SrvFrameByParity)
           /\ s2c \in Seq(OddAnswer \cup EvenAnswer \cup EvenEmit)
           /\ callbackQueue \in Seq(OddAnswer \cup EvenAnswer \cup EvenEmit)
           /\ callbackLog \in Seq([of : Emits, fn : Functions])
           /\ Started(callbackLog) \in Seq(Nat) /\ Len(emitted) \in Nat
           /\ \A m \in EvenEmit : m.of \in Nat
           /\ SentUpTo(srvStack, Len(emitted)) \in Nat
  <1>1. /\ srvStack \in Seq(SrvFrameByParity)
        /\ s2c \in Seq(OddAnswer \cup EvenAnswer \cup EvenEmit)
        /\ callbackQueue \in Seq(EvenEmit)
        /\ callbackLog \in Seq([of : Emits, fn : Functions]) /\ emitted \in Seq(Functions)
    BY DEF IInv, MapsTyped, WireByParity, FramesByParity
  <1>2. Emits \subseteq Nat
    BY WireAssumption DEF Emits
  <1>3. \A m \in EvenEmit : m.of \in Nat
    BY <1>2 DEF EvenEmit
  <1>4. Len(emitted) \in Nat
    BY <1>1, LenProperties
  <1>5. Started(callbackLog) \in Seq(Nat)
    <2>1. /\ Len(callbackLog) \in Nat /\ DOMAIN callbackLog = 1 .. Len(callbackLog)
          /\ \A i \in 1 .. Len(callbackLog) : callbackLog[i] \in [of : Emits, fn : Functions]
      BY <1>1, LenProperties, ElementOfSeq
    <2>2. \A i \in 1 .. Len(callbackLog) : callbackLog[i].of \in Nat
      BY <1>2, <2>1
    <2>3. QED
      BY <2>1, <2>2 DEF Started
  <1>6. TopIs("send", srvStack) => Len(emitted) # 0
    BY SrvTop DEF IInv, EmitOrder, SendsLast, TopIs, Blocked
  <1>7. SentUpTo(srvStack, Len(emitted)) \in Nat
    BY <1>4, <1>6 DEF SentUpTo
  <1>8. callbackQueue \in Seq(OddAnswer \cup EvenAnswer \cup EvenEmit)
    BY <1>1, SeqMonotonic
  <1>9. QED
    BY <1>1, <1>3, <1>4, <1>5, <1>7, <1>8

\* The client queues emissions as they arrive and runs the oldest first.
LEMMA EmitOrderClient ==
    ASSUME IInv, EmitOrder, ClientNext, UNCHANGED serverVars
    PROVE  EmitOrder'
  <1>1. /\ s2c \in Seq(OddAnswer \cup EvenAnswer \cup EvenEmit)
        /\ callbackQueue \in Seq(OddAnswer \cup EvenAnswer \cup EvenEmit)
        /\ Started(callbackLog) \in Seq(Nat)
        /\ \A m \in EvenEmit : m.of \in Nat
        /\ SendsLast(srvStack, Len(emitted))
    BY EmitTypes DEF EmitOrder
  <1>2. PICK n \in Nat : n = SentUpTo(srvStack, Len(emitted))
    BY EmitTypes
  <1>3. Pipeline(Started(callbackLog), callbackQueue, s2c, EvenEmit, n)
    BY <1>2 DEF EmitOrder
  <1>4. srvStack' = srvStack /\ emitted' = emitted
    BY DEF serverVars
  <1>5. SUFFICES Pipeline(Started(callbackLog'), callbackQueue', s2c', EvenEmit, n)
    BY <1>1, <1>2, <1>4 DEF EmitOrder
  <1>6. ASSUME callbackQueue # <<>>, callbackQueue' = Tail(callbackQueue), s2c' = s2c,
               \/ callbackLog' = callbackLog
               \/ \E f \in Functions :
                    callbackLog' = Append(callbackLog, [of |-> Head(callbackQueue).of, fn |-> f])
        PROVE  Pipeline(Started(callbackLog'), callbackQueue', s2c', EvenEmit, n)
    <2>1. /\ Pipeline(Started(callbackLog), Tail(callbackQueue), s2c, EvenEmit, n)
          /\ Head(callbackQueue) \in EvenEmit =>
               Pipeline(Append(Started(callbackLog), Head(callbackQueue).of), Tail(callbackQueue),
                        s2c, EvenEmit, n)
      BY <1>1, <1>3, <1>6, PipelineStart
    <2>2. ASSUME NEW f \in Functions,
                 callbackLog' = Append(callbackLog, [of |-> Head(callbackQueue).of, fn |-> f])
          PROVE  Pipeline(Started(callbackLog'), callbackQueue', s2c', EvenEmit, n)
      <3>1. Head(callbackQueue) \in EvenEmit
        BY <1>6, HeadTailProperties DEF IInv, WireByParity
      <3>2. PICK k \in Emits : k = Head(callbackQueue).of
        BY <3>1 DEF EvenEmit
      <3>3. [of |-> k, fn |-> f] \in [of : Emits, fn : Functions]
        OBVIOUS
      <3>4. PICK r \in [of : Emits, fn : Functions] : r = [of |-> k, fn |-> f]
        BY <3>3
      <3>5. r = [of |-> k, fn |-> f] /\ r.of = k
        BY <3>4
      <3>6. \A x \in [of : Emits, fn : Functions] : x.of \in Nat
        BY WireAssumption DEF Emits
      <3>7. callbackLog \in Seq([of : Emits, fn : Functions])
        BY EmitTypes
      <3>8. Started(Append(callbackLog, r)) = Append(Started(callbackLog), r.of)
        BY <3>6, <3>7, StartedLog
      <3>9. QED
        BY <1>6, <2>1, <2>2, <3>1, <3>2, <3>5, <3>8
    <2>3. QED
      BY <1>6, <2>1, <2>2
  <1>7. CASE CliPop
    <2>1. callbackQueue # <<>> /\ callbackQueue \in Seq(EvenEmit)
      BY <1>7 DEF CliPop, IInv, WireByParity
    <2>2. Head(callbackQueue) \in EvenEmit
      BY <2>1, HeadTailProperties
    <2>3. PICK f \in Functions : f = Head(callbackQueue).fn
      BY <2>2 DEF EvenEmit
    <2>4. QED
      BY <1>6, <1>7, <2>1, <2>3 DEF CliPop, RunCallback
  <1>8. CASE CliDrop
    BY <1>6, <1>8 DEF CliDrop
  <1>9. ASSUME NEW f \in Functions, CliTsfn(f)
        PROVE  Pipeline(Started(callbackLog'), callbackQueue', s2c', EvenEmit, n)
    <2>1. CASE callbackQueue = <<>>
      BY <1>3, <1>9, <2>1 DEF CliTsfn
    <2>2. CASE callbackQueue # <<>>
      BY <1>6, <1>9, <2>2 DEF CliTsfn, RunCallback
    <2>3. QED
      BY <2>1, <2>2
  <1>10. CASE CliSetValue \/ CliRecvEmit \/ CliRecvDrop
    <2>1. s2c # <<>>
      BY <1>10 DEF CliSetValue, CliRecvEmit, CliRecvDrop, IInv, ReadersHoldAnswers
    <2>2. /\ Pipeline(Started(callbackLog), Append(callbackQueue, Head(s2c)), Tail(s2c),
                      EvenEmit, n)
          /\ Pipeline(Started(callbackLog), callbackQueue, Tail(s2c), EvenEmit, n)
      BY <1>1, <1>3, <2>1, PipelineRead
    <2>3. QED
      BY <1>10, <2>2 DEF CliSetValue, CliRecvEmit, CliRecvDrop
  <1>11. CASE UNCHANGED <<callbackLog, callbackQueue, s2c>>
    BY <1>3, <1>11
  <1>12. QED
    BY <1>7, <1>8, <1>9, <1>10, <1>11
    DEF ClientNext, CliJsStep, CliReader, CliCall, CliSend, CliWait, CliWake, CliReturn,
        CliTimeout, CliCallbackReturn, CliCallbackThrow, CliRecvAnswer

\* The server numbers its emissions in order and sends each before it makes the next.
LEMMA EmitOrderServer ==
    ASSUME IInv, EmitOrder, ServerNext, UNCHANGED clientVars
    PROVE  EmitOrder'
  <1>1. /\ s2c \in Seq(OddAnswer \cup EvenAnswer \cup EvenEmit)
        /\ callbackQueue \in Seq(OddAnswer \cup EvenAnswer \cup EvenEmit)
        /\ Started(callbackLog) \in Seq(Nat)
        /\ \A m \in EvenEmit : m.of \in Nat
    BY EmitTypes
  <1>2. srvStack \in Seq(SrvFrameByParity) /\ SendsLast(srvStack, Len(emitted))
    BY EmitTypes DEF EmitOrder
  <1>3. PICK n \in Nat : n = SentUpTo(srvStack, Len(emitted))
    BY EmitTypes
  <1>4. Pipeline(Started(callbackLog), callbackQueue, s2c, EvenEmit, n)
    BY <1>3 DEF EmitOrder
  <1>5. PICK e \in Nat : e = Len(emitted)
    BY EmitTypes
  <1>6. callbackLog' = callbackLog /\ callbackQueue' = callbackQueue
    BY DEF clientVars
  <1>7. ASSUME NEW f \in Functions, SrvEmitSync(f)
        PROVE  EmitOrder'
    <2>1. ~TopIs("send", srvStack) /\ s2c' = s2c
      BY <1>7 DEF SrvEmitSync, CanEmit, TopIs, IsRequestFrame
    <2>2. Len(emitted') = e + 1 /\ Len(emitted) + 1 \in Emits
      BY <1>5, <1>7, EmitGrows DEF SrvEmitSync
    <2>3. PICK F : F = SrvFrameByParity'
      OBVIOUS
    <2>4. srvStack \in Seq(F)
      BY <1>2, <1>7, <2>3, EmitGrows DEF SrvEmitSync
    <2>5. PICK g \in F : srvStack' = Push(g, srvStack) /\ g.pc = "send" /\ g.of = e + 1
      <3>1. PICK id \in EvenIds \ {0} : srvStack' = Push(Frame("send", id, e + 1), srvStack)
        BY <1>5, <1>7, NextIdParity DEF SrvEmitSync, IInv, FramesByParity
      <3>2. e + 1 \in 1 .. Len(emitted')
        BY <1>5, <2>2
      <3>3. Frame("send", id, e + 1) \in F
        BY <2>3, <3>2 DEF SrvFrameByParity, Frame, Blocked
      <3>4. QED
        BY <3>1, <3>3 DEF Frame
    <2>6. /\ SendsLast(Push(g, srvStack), e + 1)
          /\ SentUpTo(Push(g, srvStack), e + 1) = (e + 1) - 1
      <3>1. PICK p \in Nat : p = e + 1
        OBVIOUS
      <3>2. g.pc = "send" /\ g.of = p
        BY <2>5, <3>1
      <3>3. SendsLast(srvStack, e)
        BY <1>2, <1>5
      <3>4. SendsLast(Push(g, srvStack), p) /\ SentUpTo(Push(g, srvStack), p) = p - 1
        BY <2>1, <2>4, <3>2, <3>3, SendsPush
      <3>5. QED
        BY <3>1, <3>4
    <2>7. n = e /\ (e + 1) - 1 = e
      BY <1>3, <1>5, <2>1 DEF SentUpTo
    <2>8. QED
      BY <1>4, <1>6, <2>1, <2>2, <2>5, <2>6, <2>7 DEF EmitOrder
  <1>8. ASSUME NEW f \in Functions, SrvEmitAsync(f)
        PROVE  EmitOrder'
    <2>1. ~TopIs("send", srvStack) /\ srvStack' = srvStack
      BY <1>8 DEF SrvEmitAsync, CanEmit, TopIs, IsRequestFrame
    <2>2. Len(emitted') = e + 1 /\ e + 1 \in Emits
      BY <1>5, <1>8, EmitGrows DEF SrvEmitAsync
    <2>3. n = e
      BY <1>3, <1>5, <2>1 DEF SentUpTo
    <2>4. PICK m \in OddAnswer \cup EvenAnswer \cup EvenEmit :
              s2c' = Append(s2c, m) /\ m.of = e + 1
      <3>1. 0 \in EvenIds
        BY WireAssumption DEF EvenIds, Ids
      <3>2. EmitCallback(0, e + 1, f) \in EvenEmit
        BY <2>2, <3>1 DEF EmitCallback, EvenEmit
      <3>3. QED
        BY <1>5, <1>8, <3>2 DEF SrvEmitAsync, EmitCallback
    <2>5. Pipeline(Started(callbackLog), callbackQueue, Append(s2c, m), EvenEmit, e + 1)
      <3>1. PICK p \in Nat : p = e + 1 /\ n <= p /\ n < m.of /\ m.of <= p
        BY <2>3, <2>4
      <3>2. Pipeline(Started(callbackLog), callbackQueue, Append(s2c, m), EvenEmit, p)
        BY <1>1, <1>4, <3>1, PipelineSend
      <3>3. QED
        BY <3>1, <3>2
    <2>6. SendsLast(srvStack, e + 1) /\ SentUpTo(srvStack, e + 1) = e + 1
      BY <1>2, <2>1 DEF SendsLast, SentUpTo, TopIs
    <2>7. QED
      BY <1>6, <2>1, <2>2, <2>4, <2>5, <2>6 DEF EmitOrder
  <1>9. CASE SrvSend
    <2>1. srvStack # <<>> /\ Head(srvStack).pc = "send" /\ emitted' = emitted
      BY <1>9 DEF SrvSend, TopIs
    <2>2. n = e - 1 /\ Head(srvStack).of = e
      BY <1>2, <1>3, <1>5, <2>1 DEF SendsLast, SentUpTo, TopIs
    <2>3. PICK m \in OddAnswer \cup EvenAnswer \cup EvenEmit :
              s2c' = Append(s2c, m) /\ m.of = e
      <3>1. /\ Head(srvStack).id \in EvenIds /\ Head(srvStack).of \in Emits
            /\ Head(srvStack).of \in 1 .. Len(emitted)
        BY <2>1, SrvTop DEF IInv, Blocked
      <3>2. emitted[Head(srvStack).of] \in Functions
        BY <3>1, ElementOfSeq DEF IInv, MapsTyped
      <3>3. EmitCallback(Head(srvStack).id, Head(srvStack).of, emitted[Head(srvStack).of])
              \in EvenEmit
        BY <3>1, <3>2 DEF EmitCallback, EvenEmit
      <3>4. QED
        BY <1>9, <2>2, <3>3 DEF SrvSend, EmitCallback
    <2>4. Pipeline(Started(callbackLog), callbackQueue, Append(s2c, m), EvenEmit, e)
      <3>1. n <= e /\ n < m.of /\ m.of <= e
        BY <2>2, <2>3
      <3>2. QED
        BY <1>1, <1>4, <3>1, PipelineSend
    <2>5. SendsLast(Goto("drain", srvStack), e) /\ SentUpTo(Goto("drain", srvStack), e) = e
      <3>1. Frame("drain", Head(srvStack).id, Head(srvStack).of) \in SrvFrameByParity
        BY <2>1, SrvTop DEF IInv, SrvFrameByParity, Frame, Blocked
      <3>2. QED
        BY <1>2, <2>1, <3>1, SendsGoto
    <2>6. QED
      BY <1>5, <1>6, <1>9, <2>1, <2>3, <2>4, <2>5 DEF EmitOrder, SrvSend
  <1>10. ASSUME emitted' = emitted, n = e,
                SendsLast(srvStack', e), SentUpTo(srvStack', e) = e,
                s2c' = s2c \/ \E m \in OddAnswer \cup EvenAnswer : s2c' = Append(s2c, m)
         PROVE  EmitOrder'
    <2>1. (OddAnswer \cup EvenAnswer) \cap EvenEmit = {}
      BY DEF OddAnswer, EvenAnswer, EvenEmit
    <2>2. ASSUME NEW m \in OddAnswer \cup EvenAnswer, s2c' = Append(s2c, m)
          PROVE  Pipeline(Started(callbackLog), callbackQueue, s2c', EvenEmit, e)
      <3>1. PICK a \in OddAnswer \cup EvenAnswer \cup EvenEmit : a = m /\ a \notin EvenEmit
        BY <2>1
      <3>2. Pipeline(Started(callbackLog), callbackQueue, Append(s2c, a), EvenEmit, e)
        BY <1>1, <1>4, <1>10, <3>1, PipelineSend
      <3>3. QED
        BY <2>2, <3>1, <3>2
    <2>3. QED
      BY <1>4, <1>5, <1>6, <1>10, <2>2 DEF EmitOrder
  <1>11. ASSUME blockQueue # <<>>, HandleMessage, emitted' = emitted, s2c' = s2c,
                ~TopIs("send", srvStack)
         PROVE  EmitOrder'
    <2>1. PICK f \in SrvFrameByParity : srvStack' = Push(f, srvStack) /\ f.pc = "run"
      <3>1. PICK msg \in OddRequest \cup EvenReply : msg = Head(blockQueue)
        BY <1>11, HeadTailProperties DEF IInv, WireByParity
      <3>2. PICK k : k = IF msg.type = "request" THEN msg.of ELSE 0
        OBVIOUS
      <3>3. srvStack' = Push(Frame("run", msg.id, k), srvStack)
        BY <1>11, <3>1, <3>2 DEF HandleMessage
      <3>4. \/ msg.id \in OddIds /\ k \in Calls
            \/ msg.id \in EvenIds /\ k = 0
        BY <3>1, <3>2 DEF OddRequest, EvenReply
      <3>5. Frame("run", msg.id, k) \in SrvFrameByParity
        BY <3>4 DEF SrvFrameByParity, Frame
      <3>6. QED
        BY <3>3, <3>5 DEF Frame
    <2>2. SendsLast(Push(f, srvStack), e) /\ SentUpTo(Push(f, srvStack), e) = e
      <3>1. f.pc = "run" /\ f.pc # "send"
        BY <2>1
      <3>2. QED
        BY <1>2, <1>11, <3>1, SendsPush
    <2>3. n = e
      BY <1>3, <1>5, <1>11 DEF SentUpTo
    <2>4. QED
      BY <1>10, <1>11, <2>1, <2>2, <2>3
  <1>12. CASE SrvPop
    BY <1>11, <1>12 DEF SrvPop, TopIs
  <1>13. CASE SrvTsfn
    <2>1. ~TopIs("send", srvStack) /\ emitted' = emitted /\ s2c' = s2c
      BY <1>13 DEF SrvTsfn, TopIs
    <2>2. CASE blockQueue = <<>>
      <3>1. srvStack' = srvStack
        BY <1>13, <2>2 DEF SrvTsfn
      <3>2. n = e /\ SentUpTo(srvStack, e) = e
        BY <1>3, <1>5, <2>1 DEF SentUpTo
      <3>3. QED
        BY <1>2, <1>5, <1>10, <2>1, <3>1, <3>2
    <2>3. CASE blockQueue # <<>>
      BY <1>11, <1>13, <2>1, <2>3 DEF SrvTsfn
    <2>4. QED
      BY <2>2, <2>3
  <1>14. CASE SrvWait \/ SrvWake
    <2>1. PICK pc \in {"drain", "wait"} :
              /\ srvStack # <<>> /\ Head(srvStack).pc \in {"drain", "wait"}
              /\ srvStack' = Goto(pc, srvStack) /\ emitted' = emitted /\ s2c' = s2c
      BY <1>14 DEF SrvWait, SrvWake, TopIs
    <2>2. n = e
      BY <1>3, <1>5, <2>1 DEF SentUpTo, TopIs
    <2>3. Frame(pc, Head(srvStack).id, Head(srvStack).of) \in SrvFrameByParity
      BY <2>1, SrvTop DEF IInv, SrvFrameByParity, Frame, Blocked
    <2>4. SendsLast(Goto(pc, srvStack), e) /\ SentUpTo(Goto(pc, srvStack), e) = e
      BY <1>2, <2>1, <2>3, SendsGoto
    <2>5. QED
      BY <1>10, <2>1, <2>2, <2>4
  <1>15. CASE SrvReturn \/ SrvTimeout \/ SrvReply
    <2>1. /\ srvStack # <<>> /\ Head(srvStack).pc \in {"drain", "wait", "run"}
          /\ srvStack' = Tail(srvStack) /\ emitted' = emitted
      BY <1>15 DEF SrvReturn, SrvTimeout, SrvReply, TopIs
    <2>2. n = e
      BY <1>3, <1>5, <2>1 DEF SentUpTo, TopIs
    <2>3. SendsLast(Tail(srvStack), e) /\ SentUpTo(Tail(srvStack), e) = e
      BY <1>2, <2>1, SendsTail
    <2>4. s2c' = s2c \/ \E m \in OddAnswer \cup EvenAnswer : s2c' = Append(s2c, m)
      <3>1. CASE SrvReply
        <4>1. Response(AsNumber(Head(srvStack).id), Head(srvStack).of)
                \in OddAnswer \cup EvenAnswer
          BY <3>1, SrvResponse DEF IInv, SrvReply
        <4>2. QED
          BY <3>1, <4>1 DEF SrvReply
      <3>2. QED
        BY <1>15, <3>1 DEF SrvReturn, SrvTimeout
    <2>5. QED
      BY <1>10, <2>1, <2>2, <2>3, <2>4
  <1>16. CASE SrvReader
    <2>1. UNCHANGED <<srvStack, emitted, s2c>>
      BY <1>16 DEF SrvReader, SrvRecvReply, SrvSetValue, SrvRecvMessage
    <2>2. QED
      BY <1>2, <1>3, <1>4, <1>6, <2>1 DEF EmitOrder
  <1>17. QED
    BY <1>7, <1>8, <1>9, <1>12, <1>13, <1>14, <1>15, <1>16 DEF ServerNext, SrvJsStep

-----------------------------------------------------------------------------
(* A call is waited for once.                                              *)

\* The activations that wait for an answer, and the calls they are of.
Waiter == [pc : Blocked, id : OddIds, of : Calls]

Waited == Numbers(cliStack, Waiter)

\* No call is waited for twice, or after it has failed.
WaitersOnce ==
    /\ Once(cliStack, Waiter)
    /\ \A k \in Waited : k <= calls /\ k \notin cliFailed
    /\ \A k \in cliFailed : k <= calls

\* How a step of the client may change what is waited for.
ClientMove ==
    \/ /\ calls' = calls + 1 /\ cliFailed' = cliFailed
       /\ \A a : a \in Waited' <=> a \in Waited \/ a = calls + 1
    \/ /\ calls' = calls + 1 /\ cliFailed' = cliFailed \cup {calls + 1}
       /\ \A a : a \in Waited' <=> a \in Waited
    \/ \E k \in Waited :
         /\ calls' = calls
         /\ \A a : a \in Waited' <=> a \in Waited /\ a # k
         /\ \/ cliFailed' = cliFailed \cup {k}
            \/ cliFailed' = cliFailed /\ cliAnswer[k] # 0
    \/ /\ calls' = calls /\ cliFailed' = cliFailed
       /\ \A a : a \in Waited' <=> a \in Waited

\* A call starts to be waited for when it is made and stops when it returns or fails.
LEMMA WaitersClient ==
    ASSUME IInv, WaitersOnce, ClientNext
    PROVE  WaitersOnce' /\ ClientMove
  <1>1. cliStack \in Seq(CliFrameByParity) /\ Once(cliStack, Waiter)
    BY DEF IInv, FramesByParity, WaitersOnce
  <1>2. /\ calls \in Nat
        /\ \A k \in Waited : k \in Calls /\ k <= calls /\ k \notin cliFailed
        /\ \A k \in cliFailed : k \in Calls /\ k <= calls
    BY WireAssumption DEF IInv, MapsTyped, WaitersOnce, Waited, Numbers, Waiter
  <1>3. Calls \subseteq Nat
    BY WireAssumption DEF Calls
  <1>4. \A f \in CliFrameByParity : f \in Waiter <=> f.pc \in Blocked
    BY DEF CliFrameByParity, Waiter, Blocked
  <1>5. SUFFICES Once(cliStack', Waiter) /\ ClientMove
    <2>1. SUFFICES ASSUME Once(cliStack', Waiter), ClientMove
                   PROVE  /\ \A k \in Waited' : k <= calls' /\ k \notin cliFailed'
                          /\ \A k \in cliFailed' : k <= calls'
      BY DEF WaitersOnce
    <2>2. /\ \A k \in Waited : k \in Nat /\ k <= calls + 1 /\ k # calls + 1
          /\ \A k \in cliFailed : k \in Nat /\ k <= calls + 1 /\ k # calls + 1
      <3>1. \A k \in Nat : k <= calls => k <= calls + 1 /\ k # calls + 1
        BY <1>2
      <3>2. QED
        BY <1>2, <1>3, <3>1
    <2>3. calls + 1 <= calls + 1
      BY <1>2
    <2>4. CASE calls' = calls + 1
      BY <1>2, <2>1, <2>2, <2>3, <2>4 DEF ClientMove
    <2>5. CASE calls' = calls /\ calls' # calls + 1
      BY <1>2, <2>1, <2>5 DEF ClientMove
    <2>6. QED
      BY <1>2, <2>1, <2>4, <2>5 DEF ClientMove
  <1>6. CASE CliCall
    <2>1. calls' = calls + 1
      BY <1>6 DEF CliCall
    <2>2. CASE cliStack' = cliStack
      <3>1. cliFailed' = cliFailed \cup {calls + 1}
        <4>1. CASE cliFailed' # cliFailed
          BY <1>6, <4>1 DEF CliCall
        <4>2. CASE cliFailed' = cliFailed /\ cliFailed' # cliFailed \cup {calls + 1}
          <5>1. PICK f \in CliFrameByParity : cliStack' = Push(f, cliStack)
            <6>1. PICK id \in OddIds : cliStack' = Push(Frame("send", id, calls + 1), cliStack)
              BY <1>6, <4>2, NextIdParity DEF CliCall, IInv, FramesByParity
            <6>2. calls + 1 \in Calls
              BY <1>2, <1>6, WireAssumption DEF CliCall, Calls
            <6>3. QED
              BY <6>1, <6>2 DEF CliFrameByParity, Frame, Blocked
          <5>2. Len(Push(f, cliStack)) = Len(cliStack) + 1 /\ Len(cliStack) \in Nat
            BY <1>1, PushProperties, LenProperties
          <5>3. Push(f, cliStack) # cliStack
            BY <5>2
          <5>4. QED
            BY <2>2, <5>1, <5>3
        <4>3. QED
          BY <4>1, <4>2
      <3>2. QED
        BY <1>1, <2>1, <2>2, <3>1 DEF ClientMove, Waited
    <2>3. CASE cliStack' # cliStack
      <3>1. calls + 1 \in Calls /\ cliFailed' = cliFailed
        BY <1>2, <1>6, <2>3, WireAssumption DEF CliCall, Calls
      <3>2. PICK f \in CliFrameByParity :
                cliStack' = Push(f, cliStack) /\ f \in Waiter /\ f.of = calls + 1
        <4>1. PICK id \in OddIds : cliStack' = Push(Frame("send", id, calls + 1), cliStack)
          BY <1>6, <2>3, NextIdParity DEF CliCall, IInv, FramesByParity
        <4>2. /\ Frame("send", id, calls + 1) \in CliFrameByParity
              /\ Frame("send", id, calls + 1) \in Waiter
          BY <3>1 DEF CliFrameByParity, Frame, Blocked, Waiter
        <4>3. QED
          BY <4>1, <4>2 DEF Frame
      <3>3. f.of \notin Waited
        BY <1>2, <1>3, <3>2
      <3>4. Once(Push(f, cliStack), Waiter)
        BY <1>1, <3>3, OncePush DEF Waited
      <3>5. \A a : a \in Numbers(Push(f, cliStack), Waiter) <=>
                   a \in Numbers(cliStack, Waiter) \/ (f \in Waiter /\ a = f.of)
        BY <1>1, PushNumbers
      <3>6. QED
        BY <2>1, <3>1, <3>2, <3>4, <3>5 DEF ClientMove, Waited
    <2>4. QED
      BY <2>2, <2>3
  <1>7. CASE CliSend \/ CliWait \/ CliWake
    <2>1. PICK pc \in Blocked :
              /\ cliStack # <<>> /\ Head(cliStack).pc \in Blocked
              /\ cliStack' = Goto(pc, cliStack) /\ UNCHANGED <<calls, cliFailed>>
      BY <1>7 DEF CliSend, CliWait, CliWake, TopIs, Blocked
    <2>2. Head(cliStack) \in CliFrameByParity
      BY <1>1, <2>1, HeadTailProperties
    <2>3. Head(cliStack) \in Waiter
      BY <1>4, <2>1, <2>2
    <2>4. /\ Frame(pc, Head(cliStack).id, Head(cliStack).of) \in CliFrameByParity
          /\ Frame(pc, Head(cliStack).id, Head(cliStack).of) \in Waiter
      BY <2>1, <2>3 DEF CliFrameByParity, Waiter, Frame
    <2>5. Once(Goto(pc, cliStack), Waiter)
      BY <1>1, <2>1, <2>3, <2>4, OnceGoto
    <2>6. PICK e \in CliFrameByParity :
              /\ e.pc = pc /\ e.of = Head(cliStack).of
              /\ \A S, a : a \in Numbers(Goto(pc, cliStack), S) <=>
                           a \in Numbers(Tail(cliStack), S) \/ (e \in S /\ a = e.of)
      BY <1>1, <2>1, <2>4, GotoNumbers
    <2>7. \A a : a \in Numbers(cliStack, Waiter) <=>
                 \/ a \in Numbers(Tail(cliStack), Waiter)
                 \/ Head(cliStack) \in Waiter /\ a = Head(cliStack).of
      BY <1>1, <2>1, TailNumbers
    <2>8. QED
      BY <1>4, <2>1, <2>3, <2>5, <2>6, <2>7 DEF ClientMove, Waited
  <1>8. CASE CliPop \/ \E f \in Functions : CliTsfn(f)
    <2>1. UNCHANGED <<calls, cliFailed>>
      BY <1>8 DEF CliPop, CliTsfn
    <2>2. CASE cliStack' = cliStack
      BY <1>1, <2>1, <2>2 DEF ClientMove, Waited
    <2>3. CASE cliStack' # cliStack
      <3>1. PICK f \in CliFrameByParity : cliStack' = Push(f, cliStack) /\ f.pc = "run"
        <4>1. callbackQueue # <<>> /\ callbackQueue \in Seq(EvenEmit)
          BY <1>8, <2>3 DEF CliPop, CliTsfn, IInv, WireByParity
        <4>2. PICK e \in EvenEmit : e = Head(callbackQueue)
          BY <4>1, HeadTailProperties
        <4>3. cliStack' = Push(Frame("run", e.id, e.of), cliStack)
          BY <1>8, <2>3, <4>2 DEF CliPop, CliTsfn, RunCallback
        <4>4. Frame("run", e.id, e.of) \in CliFrameByParity
          BY DEF CliFrameByParity, Frame, EvenEmit
        <4>5. QED
          BY <4>3, <4>4 DEF Frame
      <3>2. f \notin Waiter
        BY <3>1 DEF Waiter, Blocked
      <3>3. Once(Push(f, cliStack), Waiter)
        BY <1>1, <3>2, OncePush
      <3>4. \A a : a \in Numbers(Push(f, cliStack), Waiter) <=>
                   a \in Numbers(cliStack, Waiter) \/ (f \in Waiter /\ a = f.of)
        BY <1>1, PushNumbers
      <3>5. QED
        BY <2>1, <3>1, <3>2, <3>3, <3>4 DEF ClientMove, Waited
    <2>4. QED
      BY <2>2, <2>3
  <1>9. ASSUME cliStack # <<>>, Head(cliStack).pc \in Blocked
        PROVE  /\ Once(Tail(cliStack), Waiter) /\ Head(cliStack).of \in Waited
               /\ \A a : a \in Numbers(Tail(cliStack), Waiter) <=>
                         a \in Waited /\ a # Head(cliStack).of
    <2>1. Head(cliStack) \in CliFrameByParity
      BY <1>1, <1>9, HeadTailProperties
    <2>2. Head(cliStack) \in Waiter
      BY <1>4, <1>9, <2>1
    <2>3. \A a : a \in Numbers(cliStack, Waiter) <=>
                 \/ a \in Numbers(Tail(cliStack), Waiter)
                 \/ Head(cliStack) \in Waiter /\ a = Head(cliStack).of
      BY <1>1, <1>9, TailNumbers
    <2>4. /\ Once(Tail(cliStack), Waiter)
          /\ Head(cliStack) \in Waiter => Head(cliStack).of \notin Numbers(Tail(cliStack), Waiter)
      BY <1>1, <1>9, OnceTail
    <2>5. QED
      BY <2>2, <2>3, <2>4 DEF Waited
  <1>10. CASE CliReturn
    <2>1. /\ cliStack # <<>> /\ Head(cliStack).pc \in Blocked
          /\ cliStack' = Tail(cliStack) /\ cliAnswer[Head(cliStack).of] # 0
          /\ UNCHANGED <<calls, cliFailed>>
      BY <1>10 DEF CliReturn, TopIs, Blocked, CliReady
    <2>2. QED
      BY <1>9, <2>1 DEF ClientMove, Waited
  <1>11. CASE CliTimeout
    <2>1. /\ cliStack # <<>> /\ Head(cliStack).pc \in Blocked
          /\ cliStack' = Tail(cliStack) /\ cliFailed' = cliFailed \cup {Head(cliStack).of}
          /\ calls' = calls
      BY <1>11 DEF CliTimeout, TopIs, Blocked
    <2>2. QED
      BY <1>9, <2>1 DEF ClientMove, Waited
  <1>12. CASE CliCallbackReturn \/ CliCallbackThrow
    <2>1. cliStack # <<>> /\ Head(cliStack).pc = "run" /\ calls' = calls
      BY <1>12 DEF CliCallbackReturn, CliCallbackThrow, TopIs
    <2>2. PICK t \in Seq(CliFrameByParity) : t = Tail(cliStack)
      BY <1>1, <2>1, HeadTailProperties
    <2>3. Head(cliStack) \notin Waiter
      BY <2>1 DEF Waiter, Blocked
    <2>4. Once(t, Waiter)
      BY <1>1, <2>1, <2>2, OnceTail
    <2>5. \A a : a \in Numbers(t, Waiter) <=> a \in Waited
      <3>1. \A a : a \in Numbers(cliStack, Waiter) <=>
                   \/ a \in Numbers(Tail(cliStack), Waiter)
                   \/ Head(cliStack) \in Waiter /\ a = Head(cliStack).of
        BY <1>1, <2>1, TailNumbers
      <3>2. QED
        BY <2>2, <2>3, <3>1 DEF Waited
    <2>6. CASE cliStack' = t /\ cliFailed' = cliFailed
      BY <2>1, <2>4, <2>5, <2>6 DEF ClientMove, Waited
    <2>7. CASE t # <<>> /\ cliStack' = Tail(t) /\ cliFailed' = cliFailed \cup {Head(t).of}
      <3>1. Head(t) \in CliFrameByParity
        BY <2>7, HeadTailProperties
      <3>2. Head(t).pc \in Blocked
        <4>1. /\ Len(t) \in Nat \ {0} /\ Len(t) = Len(cliStack) - 1
              /\ Head(t) = t[1] /\ t[1] = cliStack[1 + 1]
          BY <1>1, <2>1, <2>2, <2>7, HeadTailProperties, LenProperties, EmptySeq
        <4>2. cliStack[1].pc = "run" /\ 1 \in 1 .. Len(cliStack) - 1
          BY <2>1, <4>1, CliTop DEF IInv
        <4>3. QED
          BY <4>1, <4>2 DEF IInv, FramesByParity, RunsOnBlocked
      <3>3. Head(t) \in Waiter
        BY <1>4, <3>1, <3>2
      <3>4. /\ Once(Tail(t), Waiter)
            /\ Head(t) \in Waiter => Head(t).of \notin Numbers(Tail(t), Waiter)
        BY <2>4, <2>7, OnceTail
      <3>5. \A a : a \in Numbers(t, Waiter) <=>
                   a \in Numbers(Tail(t), Waiter) \/ (Head(t) \in Waiter /\ a = Head(t).of)
        BY <2>7, TailNumbers
      <3>6. QED
        BY <2>1, <2>5, <2>7, <3>3, <3>4, <3>5 DEF ClientMove, Waited
    <2>8. QED
      <3>1. CASE CliCallbackReturn
        BY <2>2, <2>6, <3>1 DEF CliCallbackReturn
      <3>2. CASE CliCallbackThrow
        BY <2>2, <2>6, <2>7, <3>2 DEF CliCallbackThrow
      <3>3. QED
        BY <1>12, <3>1, <3>2
  <1>13. CASE CliDrop \/ CliReader
    <2>1. UNCHANGED <<cliStack, calls, cliFailed>>
      BY <1>13 DEF CliDrop, CliReader, CliRecvAnswer, CliSetValue, CliRecvEmit, CliRecvDrop
    <2>2. QED
      BY <1>1, <2>1 DEF ClientMove, Waited
  <1>14. QED
    BY <1>6, <1>7, <1>8, <1>10, <1>11, <1>12, <1>13 DEF ClientNext, CliJsStep

-----------------------------------------------------------------------------
(* A call is handled once, and answered after that.                        *)

\* The activations that handle a request; the answers to a request, also those whose id
\* has become even; the calls being handled, and those whose answer is under way.
Handler == [pc : {"run"}, id : OddIds, of : Calls]
Answer  == [type : {"response"}, id : Ids, of : Calls]

Handled  == Numbers(srvStack, Handler)
Answered == Numbers(s2c, Answer)

\* What the server sends is such an answer, or the error answer to a late reply, or an emission.
LEMMA AnswerOf ==
    /\ OddAnswer \subseteq Answer
    /\ \A m \in OddAnswer \cup EvenAnswer \cup EvenEmit :
         m \in Answer <=> m.type = "response" /\ m.of # 0
  BY WireAssumption DEF Answer, OddAnswer, EvenAnswer, EvenEmit, OddIds, EvenIds, Calls

\* A request is handled after it is logged and before it is answered, once.
HandledOnce ==
    /\ Once(srvStack, Handler) /\ Once(s2c, Answer)
    /\ \A k \in Handled : k \in Range(requestLog) /\ cliAnswer[k] = 0 /\ k \notin Answered
    /\ \A k \in Answered : k \in Range(requestLog) /\ cliAnswer[k] = 0
    /\ \A k \in Calls : cliAnswer[k] # 0 => k \in Range(requestLog)

\* How a step of the server may change what is handled.
ServerMove ==
    \/ \E k \in Calls :
         /\ k <= calls /\ \A a \in Range(requestLog) : a < k
         /\ requestLog' = Append(requestLog, k)
         /\ \A a : a \in Handled' <=> a \in Handled \/ a = k
    \/ \E k \in Handled :
         /\ requestLog' = requestLog
         /\ \A a : a \in Handled' <=> a \in Handled /\ a # k
    \/ /\ requestLog' = requestLog
       /\ \A a : a \in Handled' <=> a \in Handled

\* A handler starts with a request not yet logged and ends with the one answer to it.
LEMMA HandledServer ==
    ASSUME IInv, CallOrder, HandledOnce, ServerNext, UNCHANGED clientVars
    PROVE  HandledOnce' /\ ServerMove
  <1>1. /\ srvStack \in Seq(SrvFrameByParity) /\ Once(srvStack, Handler)
        /\ s2c \in Seq(OddAnswer \cup EvenAnswer \cup EvenEmit) /\ Once(s2c, Answer)
    BY DEF IInv, FramesByParity, WireByParity, HandledOnce
  <1>2. /\ \A f \in SrvFrameByParity : f \in Handler <=> f.pc = "run" /\ f.of # 0
        /\ \A k \in Handled : k \in Calls
        /\ \A k \in Answered : k \in Calls
    BY WireAssumption
    DEF SrvFrameByParity, Handler, Blocked, Calls, Handled, Answered, Numbers, Answer
  <1>3. cliAnswer' = cliAnswer /\ calls' = calls
    BY DEF clientVars
  <1>4. ASSUME requestLog' = requestLog,
               \/ s2c' = s2c
               \/ \E m \in OddAnswer \cup EvenAnswer \cup EvenEmit :
                    m \notin Answer /\ s2c' = Append(s2c, m),
               Once(srvStack', Handler), \A a : a \in Handled' <=> a \in Handled
        PROVE  HandledOnce' /\ ServerMove
    <2>1. ASSUME NEW m \in OddAnswer \cup EvenAnswer \cup EvenEmit, m \notin Answer,
                 s2c' = Append(s2c, m)
          PROVE  Once(s2c', Answer) /\ \A a : a \in Answered' <=> a \in Answered
      <3>1. Once(Append(s2c, m), Answer)
        BY <1>1, <2>1, OnceAppend
      <3>2. \A a : a \in Numbers(Append(s2c, m), Answer) <=>
                   a \in Numbers(s2c, Answer) \/ (m \in Answer /\ a = m.of)
        BY <1>1, AppendNumbers
      <3>3. QED
        BY <2>1, <3>1, <3>2 DEF Answered
    <2>2. Once(s2c', Answer) /\ \A a : a \in Answered' <=> a \in Answered
      BY <1>1, <1>4, <2>1 DEF Answered
    <2>3. QED
      BY <1>3, <1>4, <2>2 DEF HandledOnce, ServerMove
  <1>5. ASSUME NEW F, srvStack \in Seq(F), NEW f \in F, f \notin Handler,
               srvStack' = Push(f, srvStack)
        PROVE  Once(srvStack', Handler) /\ \A a : a \in Handled' <=> a \in Handled
    <2>1. Once(Push(f, srvStack), Handler)
      BY <1>1, <1>5, OncePush
    <2>2. \A a : a \in Numbers(Push(f, srvStack), Handler) <=>
                 a \in Numbers(srvStack, Handler) \/ (f \in Handler /\ a = f.of)
      BY <1>5, PushNumbers
    <2>3. QED
      BY <1>5, <2>1, <2>2 DEF Handled
  <1>6. ASSUME NEW f \in Functions, SrvEmitSync(f)
        PROVE  HandledOnce' /\ ServerMove
    <2>1. requestLog' = requestLog /\ s2c' = s2c
      BY <1>6 DEF SrvEmitSync
    <2>2. PICK F : F = SrvFrameByParity'
      OBVIOUS
    <2>3. srvStack \in Seq(F) /\ Len(emitted) + 1 \in 1 .. Len(emitted')
      BY <1>1, <1>6, <2>2, EmitGrows DEF SrvEmitSync
    <2>4. PICK g \in F : srvStack' = Push(g, srvStack) /\ g \notin Handler
      <3>1. PICK id \in EvenIds \ {0} :
                srvStack' = Push(Frame("send", id, Len(emitted) + 1), srvStack)
        BY <1>6, NextIdParity DEF SrvEmitSync, IInv, FramesByParity
      <3>2. Frame("send", id, Len(emitted) + 1) \in F
        BY <2>2, <2>3 DEF SrvFrameByParity, Frame, Blocked
      <3>3. Frame("send", id, Len(emitted) + 1) \notin Handler
        BY DEF Frame, Handler
      <3>4. QED
        BY <3>1, <3>2, <3>3
    <2>5. Once(srvStack', Handler) /\ \A a : a \in Handled' <=> a \in Handled
      BY <1>5, <2>3, <2>4
    <2>6. QED
      BY <1>4, <2>1, <2>5
  <1>7. ASSUME NEW f \in Functions, SrvEmitAsync(f)
        PROVE  HandledOnce' /\ ServerMove
    <2>1. requestLog' = requestLog /\ srvStack' = srvStack
      BY <1>7 DEF SrvEmitAsync
    <2>2. \E m \in EvenEmit : s2c' = Append(s2c, m)
      <3>1. 0 \in EvenIds /\ Len(emitted) + 1 \in Emits
        BY <1>7, WireAssumption, EmitGrows DEF EvenIds, Ids, SrvEmitAsync
      <3>2. EmitCallback(0, Len(emitted) + 1, f) \in EvenEmit
        BY <3>1 DEF EmitCallback, EvenEmit
      <3>3. QED
        BY <1>7, <3>2 DEF SrvEmitAsync
    <2>3. QED
      BY <1>1, <1>4, <2>1, <2>2, AnswerOf DEF Handled, EvenEmit
  <1>8. CASE SrvSend \/ SrvWait \/ SrvWake
    <2>1. PICK pc \in Blocked :
              /\ srvStack # <<>> /\ Head(srvStack).pc \in Blocked
              /\ srvStack' = Goto(pc, srvStack) /\ requestLog' = requestLog
      BY <1>8 DEF SrvSend, SrvWait, SrvWake, TopIs, Blocked
    <2>2. /\ Frame(pc, Head(srvStack).id, Head(srvStack).of) \in SrvFrameByParity
          /\ Frame(pc, Head(srvStack).id, Head(srvStack).of) \notin Handler
          /\ Head(srvStack) \notin Handler
      BY <2>1, SrvTop DEF IInv, SrvFrameByParity, Frame, Handler, Blocked
    <2>3. Once(Goto(pc, srvStack), Handler)
      BY <1>1, <2>1, <2>2, OnceGoto
    <2>4. \A a : a \in Numbers(Goto(pc, srvStack), Handler) <=> a \in Numbers(srvStack, Handler)
      <3>1. PICK e \in SrvFrameByParity :
                /\ e.pc = pc
                /\ \A S, a : a \in Numbers(Goto(pc, srvStack), S) <=>
                             a \in Numbers(Tail(srvStack), S) \/ (e \in S /\ a = e.of)
        BY <1>1, <2>1, <2>2, GotoNumbers
      <3>2. \A a : a \in Numbers(srvStack, Handler) <=>
                   \/ a \in Numbers(Tail(srvStack), Handler)
                   \/ Head(srvStack) \in Handler /\ a = Head(srvStack).of
        BY <1>1, <2>1, TailNumbers
      <3>3. e \notin Handler
        BY <2>1, <3>1 DEF Handler, Blocked
      <3>4. QED
        BY <2>2, <3>1, <3>2, <3>3
    <2>5. s2c' = s2c \/ \E m \in EvenEmit : s2c' = Append(s2c, m)
      <3>1. CASE SrvSend
        <4>1. /\ Head(srvStack).id \in EvenIds /\ Head(srvStack).of \in Emits
              /\ Head(srvStack).of \in 1 .. Len(emitted)
          BY <2>1, SrvTop DEF IInv
        <4>2. emitted[Head(srvStack).of] \in Functions
          BY <4>1, ElementOfSeq DEF IInv, MapsTyped
        <4>3. QED
          BY <3>1, <4>1, <4>2 DEF SrvSend, EmitCallback, EvenEmit
      <3>2. QED
        BY <1>8, <3>1 DEF SrvWait, SrvWake
    <2>6. QED
      BY <1>4, <2>1, <2>3, <2>4, <2>5, AnswerOf DEF Handled, EvenEmit
  <1>9. CASE SrvReturn \/ SrvTimeout
    <2>1. /\ srvStack # <<>> /\ Head(srvStack).pc \in Blocked
          /\ srvStack' = Tail(srvStack) /\ requestLog' = requestLog /\ s2c' = s2c
      BY <1>9 DEF SrvReturn, SrvTimeout, TopIs, Blocked
    <2>2. Head(srvStack) \notin Handler
      BY <2>1 DEF Handler, Blocked
    <2>3. Once(Tail(srvStack), Handler)
      BY <1>1, <2>1, OnceTail
    <2>4. \A a : a \in Numbers(srvStack, Handler) <=>
                 \/ a \in Numbers(Tail(srvStack), Handler)
                 \/ Head(srvStack) \in Handler /\ a = Head(srvStack).of
      BY <1>1, <2>1, TailNumbers
    <2>5. QED
      BY <1>4, <2>1, <2>2, <2>3, <2>4 DEF Handled
  <1>10. CASE SrvReply
    <2>1. /\ srvStack # <<>> /\ Head(srvStack).pc = "run"
          /\ srvStack' = Tail(srvStack) /\ requestLog' = requestLog
      BY <1>10 DEF SrvReply, TopIs
    <2>2. PICK m \in OddAnswer \cup EvenAnswer \cup EvenEmit :
              s2c' = Append(s2c, m) /\ m.type = "response" /\ m.of = Head(srvStack).of
      BY <1>10, SrvResponse DEF IInv, SrvReply, Response
    <2>3. Head(srvStack) \in SrvFrameByParity
      BY <1>1, <2>1, HeadTailProperties
    <2>4. /\ Once(Tail(srvStack), Handler)
          /\ Head(srvStack) \in Handler => Head(srvStack).of \notin Numbers(Tail(srvStack), Handler)
      BY <1>1, <2>1, OnceTail
    <2>5. \A a : a \in Numbers(srvStack, Handler) <=>
                 \/ a \in Numbers(Tail(srvStack), Handler)
                 \/ Head(srvStack) \in Handler /\ a = Head(srvStack).of
      BY <1>1, <2>1, TailNumbers
    <2>6. Head(srvStack) \in Handler <=> m \in Answer
      BY <1>2, <2>1, <2>2, <2>3, AnswerOf
    <2>7. CASE Head(srvStack) \notin Handler
      BY <1>4, <2>1, <2>2, <2>4, <2>5, <2>6, <2>7 DEF Handled
    <2>8. CASE Head(srvStack) \in Handler
      <3>1. m \in Answer
        BY <2>6, <2>8
      <3>2. /\ m.of \in Handled /\ m.of \in Calls
            /\ \A a : a \in Handled' <=> a \in Handled /\ a # m.of
        BY <1>2, <2>1, <2>2, <2>4, <2>5, <2>8 DEF Handled
      <3>3. m.of \notin Answered /\ m.of \in Range(requestLog) /\ cliAnswer[m.of] = 0
        BY <3>2 DEF HandledOnce
      <3>4. Once(Append(s2c, m), Answer)
        BY <1>1, <3>3, OnceAppend DEF Answered
      <3>5. \A a : a \in Numbers(Append(s2c, m), Answer) <=>
                   a \in Numbers(s2c, Answer) \/ (m \in Answer /\ a = m.of)
        BY <1>1, AppendNumbers
      <3>6. \A a : a \in Answered' <=> a \in Answered \/ a = m.of
        BY <2>2, <3>1, <3>5 DEF Answered
      <3>7. HandledOnce'
        BY <1>3, <2>1, <2>2, <2>4, <3>2, <3>3, <3>4, <3>6 DEF HandledOnce
      <3>8. QED
        BY <2>1, <3>2, <3>7 DEF ServerMove
    <2>9. QED
      BY <2>7, <2>8
  <1>11. ASSUME blockQueue # <<>>, HandleMessage, s2c' = s2c
         PROVE  HandledOnce' /\ ServerMove
    <2>1. blockQueue \in Seq(OddRequest \cup EvenReply)
      BY DEF IInv, WireByParity
    <2>2. PICK msg \in OddRequest \cup EvenReply : msg = Head(blockQueue)
      BY <1>11, <2>1, HeadTailProperties
    <2>3. CASE msg.type # "request"
      <3>1. PICK f \in SrvFrameByParity : srvStack' = Push(f, srvStack) /\ f \notin Handler
        <4>1. srvStack' = Push(Frame("run", msg.id, 0), srvStack)
          BY <1>11, <2>2, <2>3 DEF HandleMessage
        <4>2. Frame("run", msg.id, 0) \in SrvFrameByParity
          BY <2>2, <2>3 DEF SrvFrameByParity, Frame, OddRequest, EvenReply
        <4>3. Frame("run", msg.id, 0) \notin Handler
          BY WireAssumption DEF Frame, Handler, Calls
        <4>4. QED
          BY <4>1, <4>2, <4>3
      <3>2. Once(srvStack', Handler) /\ \A a : a \in Handled' <=> a \in Handled
        BY <1>1, <1>5, <3>1
      <3>3. requestLog' = requestLog
        BY <1>11, <2>2, <2>3 DEF HandleMessage
      <3>4. QED
        BY <1>4, <1>11, <3>2, <3>3
    <2>4. CASE msg.type = "request"
      <3>1. msg \in OddRequest /\ msg.id \in OddIds /\ msg.of \in Calls /\ msg.of # 0
        BY <2>2, <2>4, WireAssumption DEF OddRequest, EvenReply, Calls
      <3>2. PICK k \in Calls : k = msg.of
        BY <3>1
      <3>3. requestLog' = Append(requestLog, k)
        BY <1>11, <2>2, <2>4, <3>1, <3>2 DEF HandleMessage
      <3>4. PICK f \in SrvFrameByParity :
                srvStack' = Push(f, srvStack) /\ f \in Handler /\ f.of = k
        <4>1. srvStack' = Push(Frame("run", msg.id, k), srvStack)
          BY <1>11, <2>2, <2>4, <3>2 DEF HandleMessage
        <4>2. Frame("run", msg.id, k) \in SrvFrameByParity /\ Frame("run", msg.id, k) \in Handler
          BY <3>1, <3>2 DEF SrvFrameByParity, Frame, Handler
        <4>3. QED
          BY <4>1, <4>2 DEF Frame
      <3>5. k \in Numbers(blockQueue, OddRequest)
        <4>1. \A m : m \in Range(blockQueue) <=>
                     m \in Range(Tail(blockQueue)) \/ m = Head(blockQueue)
          BY <1>11, <2>1, TailNumbers
        <4>2. QED
          BY <2>2, <3>1, <3>2, <4>1 DEF Numbers
      <3>6. /\ \A a \in Range(requestLog) : a < k /\ a # k
            /\ k <= calls
        <4>1. /\ \A a \in Range(requestLog) : a < k
              /\ k <= SentUpTo(cliStack, calls)
          BY <3>5 DEF CallOrder, Pipeline
        <4>2. requestLog \in Seq(Nat) /\ calls \in Nat /\ k \in Nat
          BY CallTypes, WireAssumption DEF Calls
        <4>3. \A a \in Range(requestLog) : a \in Nat
          BY <4>2, LenProperties DEF Range
        <4>4. SentUpTo(cliStack, calls) \in Nat /\ SentUpTo(cliStack, calls) <= calls
          BY <4>2, CallTypes DEF SentUpTo
        <4>5. k <= calls
          BY <4>1, <4>2, <4>4
        <4>6. \A a \in Range(requestLog) : a # k
          BY <4>1, <4>2, <4>3
        <4>7. QED
          BY <4>1, <4>5, <4>6
      <3>7. k \notin Handled /\ k \notin Answered /\ cliAnswer[k] = 0
        BY <3>6 DEF HandledOnce
      <3>8. Once(Push(f, srvStack), Handler)
        BY <1>1, <3>4, <3>7, OncePush DEF Handled
      <3>9. \A a : a \in Numbers(Push(f, srvStack), Handler) <=>
                   a \in Numbers(srvStack, Handler) \/ (f \in Handler /\ a = f.of)
        BY <1>1, PushNumbers
      <3>10. \A a : a \in Handled' <=> a \in Handled \/ a = k
        BY <3>4, <3>9 DEF Handled
      <3>11. \A a : a \in Range(requestLog') <=> a \in Range(requestLog) \/ a = k
        BY <3>2, <3>3, RangeAppend DEF IInv, MapsTyped
      <3>12. Answered' = Answered
        BY <1>11 DEF Answered
      <3>13. HandledOnce'
        BY <1>1, <1>3, <1>11, <3>4, <3>7, <3>8, <3>10, <3>11, <3>12 DEF HandledOnce
      <3>14. QED
        BY <3>3, <3>6, <3>10, <3>13 DEF ServerMove
    <2>5. QED
      BY <2>3, <2>4
  <1>12. CASE SrvPop
    BY <1>11, <1>12 DEF SrvPop
  <1>13. CASE SrvTsfn
    <2>1. CASE blockQueue = <<>>
      <3>1. UNCHANGED <<requestLog, srvStack, s2c>>
        BY <1>13, <2>1 DEF SrvTsfn
      <3>2. QED
        BY <1>1, <1>4, <3>1 DEF Handled
    <2>2. CASE blockQueue # <<>>
      BY <1>11, <1>13, <2>2 DEF SrvTsfn
    <2>3. QED
      BY <2>1, <2>2
  <1>14. CASE SrvReader
    <2>1. UNCHANGED <<requestLog, srvStack, s2c>>
      BY <1>14 DEF SrvReader, SrvRecvReply, SrvSetValue, SrvRecvMessage
    <2>2. QED
      BY <1>1, <1>4, <2>1 DEF Handled
  <1>15. QED
    BY <1>6, <1>7, <1>8, <1>9, <1>10, <1>12, <1>13, <1>14 DEF ServerNext, SrvJsStep

-----------------------------------------------------------------------------
(* An answer finds the call it belongs to.                                 *)

\* The entry of socketRequest under the id of a request, its handler or its answer.
Entry(m) == cliSocketRequest[m.id] = m.of

\* As long as the reader has not taken its answer, the entry of a call is its own.
Owned ==
    /\ TopIs("send", cliStack) => Entry(Head(cliStack))
    /\ \A m \in Range(c2s) \cup Range(blockQueue) : m \in OddRequest => Entry(m)
    /\ \A m \in Range(srvStack) : m \in Handler => Entry(m)
    /\ \A m \in Range(IF cliPromise = 0 THEN s2c ELSE Tail(s2c)) : m \in OddAnswer => Entry(m)

\* What the reader is about to set is the answer to the call whose promise it holds.
OwnAnswer ==
    /\ cliPromise # 0 => s2c # <<>> /\ Head(s2c) \in OddAnswer /\ Head(s2c).of = cliPromise
    /\ CliOwnAnswer

\* The client takes each answer off the wire once, and only then has the call its answer.
LEMMA HandledClient ==
    ASSUME IInv, HandledOnce, OwnAnswer, ClientNext, UNCHANGED serverVars
    PROVE  HandledOnce'
  <1>1. /\ s2c \in Seq(OddAnswer \cup EvenAnswer \cup EvenEmit) /\ Once(s2c, Answer)
        /\ cliAnswer \in [Calls -> 0 .. MaxCalls]
    BY DEF IInv, MapsTyped, WireByParity, HandledOnce
  <1>2. requestLog' = requestLog /\ srvStack' = srvStack /\ Handled' = Handled
    BY DEF serverVars, Handled
  <1>3. CASE UNCHANGED <<s2c, cliAnswer>>
    BY <1>2, <1>3 DEF HandledOnce, Answered
  <1>4. ASSUME s2c # <<>>, s2c' = Tail(s2c)
        PROVE  /\ Once(s2c', Answer) /\ \A a : a \in Answered' => a \in Answered
               /\ Head(s2c) \in Answer =>
                    Head(s2c).of \in Answered /\ Head(s2c).of \notin Answered'
    <2>1. /\ Once(Tail(s2c), Answer)
          /\ Head(s2c) \in Answer => Head(s2c).of \notin Numbers(Tail(s2c), Answer)
      BY <1>1, <1>4, OnceTail
    <2>2. \A a : a \in Numbers(s2c, Answer) <=>
                 \/ a \in Numbers(Tail(s2c), Answer)
                 \/ Head(s2c) \in Answer /\ a = Head(s2c).of
      BY <1>1, <1>4, TailNumbers
    <2>3. QED
      BY <1>4, <2>1, <2>2 DEF Answered
  <1>5. CASE CliSetValue
    <2>1. /\ s2c # <<>> /\ s2c' = Tail(s2c) /\ Head(s2c) \in OddAnswer
          /\ Head(s2c).of = cliPromise /\ cliPromise \in Calls
          /\ cliAnswer' = [cliAnswer EXCEPT ![cliPromise] = cliPromise]
      BY <1>5 DEF CliSetValue, OwnAnswer, OddAnswer
    <2>2. cliPromise \in Answered /\ cliPromise \notin Answered'
      BY <1>4, <2>1, AnswerOf
    <2>3. cliPromise \in Range(requestLog) /\ cliPromise \notin Handled
      BY <2>2 DEF HandledOnce
    <2>4. \A k \in Calls : k # cliPromise => cliAnswer'[k] = cliAnswer[k]
      BY <1>1, <2>1
    <2>5. /\ \A k \in Handled : k \in Calls
          /\ \A k \in Answered : k \in Calls
      BY DEF Handled, Answered, Numbers, Handler, Answer
    <2>6. QED
      BY <1>2, <1>4, <2>1, <2>2, <2>3, <2>4, <2>5 DEF HandledOnce
  <1>6. CASE CliRecvEmit \/ CliRecvDrop
    <2>1. s2c # <<>> /\ s2c' = Tail(s2c) /\ cliAnswer' = cliAnswer
      BY <1>6 DEF CliRecvEmit, CliRecvDrop
    <2>2. QED
      BY <1>2, <1>4, <2>1 DEF HandledOnce
  <1>7. QED
    BY <1>3, <1>5, <1>6
    DEF ClientNext, CliJsStep, CliReader, CliCall, CliSend, CliPop, CliDrop, CliWait, CliWake,
        CliReturn, CliTimeout, CliCallbackReturn, CliCallbackThrow, CliTsfn, CliRecvAnswer

\* An id is given to a new call only when its entry is free, so no answer finds the
\* entry of another call.
LEMMA OwnedClient ==
    ASSUME IInv, CallOrder, HandledOnce, Owned, OwnAnswer, ClientNext, UNCHANGED serverVars
    PROVE  Owned' /\ OwnAnswer'
  <1>1. /\ cliStack \in Seq(CliFrameByParity)
        /\ s2c \in Seq(OddAnswer \cup EvenAnswer \cup EvenEmit)
        /\ cliSocketRequest \in [Ids -> 0 .. MaxCalls]
        /\ cliAnswer \in [Calls -> 0 .. MaxCalls]
    BY CallTypes DEF IInv, MapsTyped, WireByParity
  <1>2. blockQueue' = blockQueue /\ srvStack' = srvStack
    BY DEF serverVars
  <1>3. ASSUME NEW m \in OddRequest \cup EvenReply
        PROVE  \A x : x \in Range(Append(c2s, m)) <=> x \in Range(c2s) \/ x = m
    <2>1. c2s \in Seq(OddRequest \cup EvenReply)
      BY CallTypes
    <2>2. QED
      BY <2>1, RangeAppend
  <1>4. /\ \A m \in OddRequest \cup Handler \cup OddAnswer : m.id \in Ids /\ m.of \in Calls
        /\ TopIs("send", cliStack) => Head(cliStack).id \in Ids /\ Head(cliStack).of \in Calls
        /\ 0 \notin Calls
    BY CliTop, WireAssumption
    DEF IInv, OddRequest, Handler, OddAnswer, OddIds, Calls, TopIs, Blocked
  <1>5. CASE CliCall
    <2>1. PICK id \in Ids :
              /\ \/ cliSocketRequest' = cliSocketRequest /\ cliStack' = cliStack
                 \/ /\ cliSocketRequest[id] = 0
                    /\ cliSocketRequest' = [cliSocketRequest EXCEPT ![id] = calls + 1]
                    /\ cliStack' = Push(Frame("send", id, calls + 1), cliStack)
      BY <1>5, NextIdParity DEF CliCall, Registered, IInv, FramesByParity, OddIds
    <2>2. ~TopIs("send", cliStack) /\ UNCHANGED <<c2s, s2c, cliPromise, cliAnswer>>
      BY <1>5 DEF CliCall, TopIs
    <2>3. CASE cliSocketRequest' = cliSocketRequest /\ cliStack' = cliStack
      BY <1>2, <2>2, <2>3 DEF Owned, OwnAnswer, CliOwnAnswer, Entry
    <2>4. CASE /\ cliSocketRequest[id] = 0
               /\ cliSocketRequest' = [cliSocketRequest EXCEPT ![id] = calls + 1]
               /\ cliStack' = Push(Frame("send", id, calls + 1), cliStack)
      <3>1. \A m \in OddRequest \cup Handler \cup OddAnswer : Entry(m) => Entry(m)'
        BY <1>1, <1>4, <2>4 DEF Entry
      <3>2. cliStack' # <<>> /\ Head(cliStack') = Frame("send", id, calls + 1)
        <4>1. PICK F : F = CliFrameByParity \cup {Frame("send", id, calls + 1)}
          OBVIOUS
        <4>2. PICK f \in F : f = Frame("send", id, calls + 1)
          BY <4>1
        <4>3. cliStack \in Seq(F)
          BY <1>1, <4>1, SeqMonotonic
        <4>4. Push(f, cliStack) # <<>> /\ Head(Push(f, cliStack)) = f
          BY <4>3, PushNumbers
        <4>5. QED
          BY <2>4, <4>2, <4>4
      <3>3. cliSocketRequest'[id] = calls + 1
        BY <1>1, <2>1, <2>4
      <3>4. Entry(Head(cliStack))'
        BY <3>2, <3>3 DEF Entry, Frame
      <3>5. Owned'
        BY <1>2, <2>2, <3>1, <3>4 DEF Owned
      <3>6. QED
        BY <2>2, <3>5 DEF OwnAnswer, CliOwnAnswer
    <2>5. QED
      BY <2>1, <2>3, <2>4
  <1>6. CASE CliSend
    <2>1. /\ cliStack # <<>> /\ Head(cliStack).pc = "send"
          /\ c2s' = Append(c2s, Request(Head(cliStack).id, Head(cliStack).of))
          /\ cliStack' = Goto("drain", cliStack)
          /\ UNCHANGED <<cliSocketRequest, s2c, cliPromise, cliAnswer>>
      BY <1>6 DEF CliSend, TopIs
    <2>2. PICK m \in OddRequest \cup EvenReply : c2s' = Append(c2s, m) /\ Entry(m)
      <3>1. Request(Head(cliStack).id, Head(cliStack).of) \in OddRequest
        BY <2>1, CliTop DEF IInv, Blocked, Request, OddRequest
      <3>2. Entry(Request(Head(cliStack).id, Head(cliStack).of))
        BY <2>1 DEF Owned, TopIs, Entry, Request
      <3>3. QED
        BY <2>1, <3>1, <3>2
    <2>3. \A x : x \in Range(c2s') <=> x \in Range(c2s) \/ x = m
      BY <1>3, <2>2
    <2>4. ~TopIs("send", cliStack')
      <3>1. Frame("drain", Head(cliStack).id, Head(cliStack).of) \in CliFrameByParity
        BY <2>1, CliTop DEF IInv, CliFrameByParity, Frame, Blocked
      <3>2. PICK e \in CliFrameByParity :
                e.pc = "drain" /\ Head(Goto("drain", cliStack)) = e
        BY <1>1, <2>1, <3>1, GotoNumbers
      <3>3. QED
        BY <2>1, <3>2 DEF TopIs
    <2>5. Owned'
      BY <1>2, <2>1, <2>2, <2>3, <2>4 DEF Owned, Entry
    <2>6. QED
      BY <2>1, <2>5 DEF OwnAnswer, CliOwnAnswer
  <1>7. ASSUME UNCHANGED <<cliSocketRequest, s2c, cliPromise, cliAnswer>>,
               ~TopIs("send", cliStack') \/ cliStack' = cliStack,
               c2s' = c2s \/ \E m \in EvenReply : c2s' = Append(c2s, m)
        PROVE  Owned' /\ OwnAnswer'
    <2>1. \A m : m \in Range(c2s') /\ m \in OddRequest => m \in Range(c2s)
      <3>1. ASSUME NEW m \in EvenReply, c2s' = Append(c2s, m)
            PROVE  \A x : x \in Range(c2s') /\ x \in OddRequest => x \in Range(c2s)
        <4>1. PICK e \in OddRequest \cup EvenReply : e = m /\ e \notin OddRequest
          BY DEF OddRequest, EvenReply
        <4>2. \A x : x \in Range(Append(c2s, e)) <=> x \in Range(c2s) \/ x = e
          BY <1>3
        <4>3. QED
          BY <3>1, <4>1, <4>2
      <3>2. QED
        BY <1>7, <3>1
    <2>2. QED
      BY <1>2, <1>7, <2>1 DEF Owned, Entry, OwnAnswer, CliOwnAnswer
  <1>8. CASE CliPop \/ \E f \in Functions : CliTsfn(f)
    <2>1. UNCHANGED <<cliSocketRequest, s2c, c2s, cliPromise, cliAnswer>>
      BY <1>8 DEF CliPop, CliTsfn
    <2>2. CASE cliStack' # cliStack
      <3>1. PICK f \in CliFrameByParity : cliStack' = Push(f, cliStack) /\ f.pc = "run"
        <4>1. callbackQueue # <<>> /\ callbackQueue \in Seq(EvenEmit)
          BY <1>8, <2>2 DEF CliPop, CliTsfn, IInv, WireByParity
        <4>2. PICK e \in EvenEmit : e = Head(callbackQueue)
          BY <4>1, HeadTailProperties
        <4>3. cliStack' = Push(Frame("run", e.id, e.of), cliStack)
          BY <1>8, <2>2, <4>2 DEF CliPop, CliTsfn, RunCallback
        <4>4. Frame("run", e.id, e.of) \in CliFrameByParity
          BY DEF CliFrameByParity, Frame, EvenEmit
        <4>5. QED
          BY <4>3, <4>4 DEF Frame
      <3>2. Head(Push(f, cliStack)) = f
        BY <1>1, PushNumbers
      <3>3. ~TopIs("send", cliStack')
        BY <3>1, <3>2 DEF TopIs
      <3>4. QED
        BY <1>7, <2>1, <3>3
    <2>3. QED
      BY <1>7, <2>1, <2>2
  <1>9. CASE CliWait \/ CliWake
    <2>1. PICK pc \in {"drain", "wait"} :
              /\ cliStack # <<>> /\ Head(cliStack).pc \in {"drain", "wait"}
              /\ cliStack' = Goto(pc, cliStack)
              /\ UNCHANGED <<cliSocketRequest, s2c, c2s, cliPromise, cliAnswer>>
      BY <1>9 DEF CliWait, CliWake, TopIs
    <2>2. Frame(pc, Head(cliStack).id, Head(cliStack).of) \in CliFrameByParity
      BY <2>1, CliTop DEF IInv, CliFrameByParity, Frame, Blocked
    <2>3. PICK e \in CliFrameByParity : e.pc = pc /\ Head(Goto(pc, cliStack)) = e
      BY <1>1, <2>1, <2>2, GotoNumbers
    <2>4. ~TopIs("send", cliStack')
      BY <2>1, <2>3 DEF TopIs
    <2>5. QED
      BY <1>7, <2>1, <2>4
  <1>10. CASE CliReturn \/ CliTimeout \/ CliCallbackReturn \/ CliCallbackThrow
    <2>1. /\ cliStack # <<>>
          /\ \/ cliStack' = Tail(cliStack)
             \/ Tail(cliStack) # <<>> /\ cliStack' = Tail(Tail(cliStack))
          /\ UNCHANGED <<cliSocketRequest, s2c, cliPromise, cliAnswer>>
      BY <1>10 DEF CliReturn, CliTimeout, CliCallbackReturn, CliCallbackThrow, TopIs
    <2>2. ~TopIs("send", cliStack')
      <3>1. PICK t \in Seq(CliFrameByParity) : t = Tail(cliStack)
        BY <1>1, <2>1, HeadTailProperties
      <3>2. SendsLast(t, calls) /\ ~TopIs("send", t)
        BY <1>1, <2>1, <3>1, SendsTail DEF CallOrder
      <3>3. t # <<>> => ~TopIs("send", Tail(t))
        BY <3>2, SendsTail
      <3>4. QED
        BY <2>1, <3>1, <3>2, <3>3
    <2>3. c2s' = c2s \/ \E m \in EvenReply : c2s' = Append(c2s, m)
      <3>1. CASE CliCallbackReturn
        <4>1. Head(cliStack).id \in EvenIds /\ Head(cliStack).of \in Emits
          BY <3>1, CliTop DEF IInv, CliCallbackReturn, TopIs
        <4>2. Head(cliStack).id > 0 =>
                CallbackReply(Head(cliStack).id, Head(cliStack).of) \in EvenReply
          BY <4>1 DEF CallbackReply, EvenReply
        <4>3. QED
          BY <3>1, <4>2 DEF CliCallbackReturn
      <3>2. QED
        BY <1>10, <3>1 DEF CliReturn, CliTimeout, CliCallbackThrow
    <2>4. QED
      BY <1>7, <2>1, <2>2, <2>3
  <1>11. CASE CliDrop
    BY <1>7, <1>11 DEF CliDrop
  <1>12. CASE CliRecvAnswer
    <2>1. /\ cliPromise = 0 /\ s2c # <<>> /\ Head(s2c).id \in OddIds
          /\ cliPromise' = cliSocketRequest[Head(s2c).id]
          /\ cliSocketRequest' = [cliSocketRequest EXCEPT ![Head(s2c).id] = 0]
          /\ UNCHANGED <<cliStack, c2s, s2c, cliAnswer>>
      BY <1>12, ToClientHead DEF IInv, CliRecvAnswer, CliTakesForAnswer
    <2>2. PICK a \in OddAnswer : a = Head(s2c)
      <3>1. Head(s2c) \in OddAnswer \cup EvenAnswer \cup EvenEmit
        BY <1>1, <2>1, HeadTailProperties
      <3>2. QED
        BY <2>1, <3>1, ParityDisjoint DEF EvenAnswer, EvenEmit
    <2>3. \A m : m \in Range(s2c) <=> m \in Range(Tail(s2c)) \/ m = a
      BY <1>1, <2>1, <2>2, TailNumbers
    <2>4. Entry(a) /\ cliPromise' = a.of
      BY <2>1, <2>2, <2>3 DEF Owned, Entry
    <2>5. a.of \in Answered /\ a.of \in Calls /\ a.id \in Ids
      BY <1>4, <2>2, <2>3, AnswerOf DEF Answered, Numbers
    <2>6. a.of \in Range(requestLog) /\ a.of \notin Handled
      BY <2>5 DEF HandledOnce
    <2>7. \A m \in OddRequest \cup Handler \cup OddAnswer : Entry(m) /\ m.of # a.of => Entry(m)'
      BY <1>1, <1>4, <2>1, <2>2, <2>4 DEF Entry
    <2>8. \A k \in Calls : ~(k < k)
      BY WireAssumption DEF Calls
    <2>9. \A m \in Range(c2s) \cup Range(blockQueue) : m \in OddRequest => m.of # a.of
      <3>1. \A k \in Numbers(blockQueue, OddRequest) \cup Numbers(c2s, OddRequest) : a.of < k
        BY <2>6 DEF CallOrder, Pipeline
      <3>2. QED
        BY <2>5, <2>8, <3>1 DEF Numbers
    <2>10. \A m \in Range(srvStack) : m \in Handler => m.of # a.of
      BY <2>6 DEF Handled, Numbers
    <2>11. \A m \in Range(Tail(s2c)) : m \in OddAnswer => m.of # a.of
      <3>1. Head(s2c) \in Answer => Head(s2c).of \notin Numbers(Tail(s2c), Answer)
        BY <1>1, <2>1, OnceTail DEF HandledOnce
      <3>2. QED
        BY <2>2, <3>1, AnswerOf DEF Numbers
    <2>12. TopIs("send", cliStack) => Entry(Head(cliStack))'
      <3>1. SUFFICES ASSUME TopIs("send", cliStack) PROVE Entry(Head(cliStack))'
        OBVIOUS
      <3>2. Head(cliStack).of = calls /\ SentUpTo(cliStack, calls) = calls - 1
        BY <3>1 DEF CallOrder, SendsLast, SentUpTo, TopIs
      <3>3. a.of <= calls - 1
        BY <2>6, <3>2 DEF CallOrder, Pipeline
      <3>4. calls \in Nat /\ a.of \in Nat
        BY <2>5, CallTypes, WireAssumption DEF Calls
      <3>5. Head(cliStack).of # a.of
        BY <3>2, <3>3, <3>4
      <3>6. Entry(Head(cliStack))
        BY <3>1 DEF Owned
      <3>7. Head(cliStack).id # a.id
        BY <2>4, <3>5, <3>6 DEF Entry
      <3>8. QED
        BY <1>1, <1>4, <2>1, <2>2, <3>1, <3>6, <3>7 DEF Entry
    <2>13. cliPromise' # 0
      BY <1>4, <2>4, <2>5
    <2>14. Owned'
      BY <1>2, <2>1, <2>3, <2>7, <2>9, <2>10, <2>11, <2>12, <2>13 DEF Owned
    <2>15. QED
      BY <2>1, <2>2, <2>4, <2>14 DEF OwnAnswer, CliOwnAnswer
  <1>13. CASE CliSetValue
    <2>1. /\ cliPromise # 0 /\ cliPromise' = 0 /\ s2c' = Tail(s2c)
          /\ Head(s2c).of = cliPromise /\ Head(s2c) \in OddAnswer
          /\ cliAnswer' = [cliAnswer EXCEPT ![cliPromise] = cliPromise]
          /\ UNCHANGED <<cliStack, c2s, cliSocketRequest>>
      BY <1>13 DEF CliSetValue, OwnAnswer
    <2>2. CliOwnAnswer'
      BY <1>1, <2>1 DEF OwnAnswer, CliOwnAnswer
    <2>3. QED
      BY <1>2, <2>1, <2>2 DEF Owned, Entry, OwnAnswer
  <1>14. CASE CliRecvEmit \/ CliRecvDrop
    <2>1. /\ cliPromise = 0 /\ cliPromise' = 0 /\ s2c # <<>> /\ s2c' = Tail(s2c)
          /\ UNCHANGED <<cliStack, c2s, cliSocketRequest, cliAnswer>>
      BY <1>14 DEF CliRecvEmit, CliRecvDrop
    <2>2. \A m : m \in Range(s2c) <=> m \in Range(Tail(s2c)) \/ m = Head(s2c)
      BY <1>1, <2>1, TailNumbers
    <2>3. QED
      BY <1>2, <2>1, <2>2 DEF Owned, Entry, OwnAnswer, CliOwnAnswer
  <1>15. QED
    BY <1>5, <1>6, <1>8, <1>9, <1>10, <1>11, <1>12, <1>13, <1>14
    DEF ClientNext, CliJsStep, CliReader

\* Appending to a queue that is not empty leaves its head, and appends to its tail.
LEMMA TailAppend ==
    ASSUME NEW F, NEW q \in Seq(F), q # <<>>, NEW e \in F
    PROVE  /\ Append(q, e) # <<>> /\ Head(Append(q, e)) = Head(q)
           /\ \A m : m \in Range(Tail(Append(q, e))) <=> m \in Range(Tail(q)) \/ m = e
  <1>1. /\ Append(q, e) \in Seq(F) /\ Len(Append(q, e)) = Len(q) + 1
        /\ Len(q) \in Nat \ {0}
        /\ \A i \in 1 .. Len(q) : Append(q, e)[i] = q[i]
        /\ Append(q, e)[Len(q) + 1] = e
    BY AppendProperties, LenProperties, EmptySeq
  <1>2. Append(q, e) # <<>> /\ Head(q) = q[1]
    BY <1>1, EmptySeq, HeadTailProperties
  <1>3. /\ Head(Append(q, e)) = Append(q, e)[1]
        /\ Tail(Append(q, e)) \in Seq(F) /\ Len(Tail(Append(q, e))) = Len(q)
        /\ \A i \in 1 .. Len(q) : Tail(Append(q, e))[i] = Append(q, e)[i + 1]
    BY <1>1, <1>2, HeadTailProperties
  <1>4. /\ Tail(q) \in Seq(F) /\ Len(Tail(q)) = Len(q) - 1
        /\ \A i \in 1 .. Len(q) - 1 : Tail(q)[i] = q[i + 1]
    BY <1>1, HeadTailProperties
  <1>5. /\ DOMAIN Tail(Append(q, e)) = 1 .. Len(q) /\ DOMAIN Tail(q) = 1 .. Len(q) - 1
    BY <1>3, <1>4, LenProperties
  <1>6. /\ \A i \in 1 .. Len(q) - 1 : Tail(Append(q, e))[i] = Tail(q)[i]
        /\ Tail(Append(q, e))[Len(q)] = e
    BY <1>1, <1>3, <1>4
  <1>7. \A m : m \in Range(Tail(Append(q, e))) <=> m \in Range(Tail(q)) \/ m = e
    <2>1. ASSUME NEW i \in 1 .. Len(q)
          PROVE  Tail(Append(q, e))[i] \in Range(Tail(q)) \cup {e}
      <3>1. i \in 1 .. Len(q) - 1 \/ i = Len(q)
        BY <1>1
      <3>2. QED
        BY <1>5, <1>6, <3>1 DEF Range
    <2>2. ASSUME NEW i \in 1 .. Len(q) - 1
          PROVE  Tail(q)[i] \in Range(Tail(Append(q, e)))
      <3>1. i \in 1 .. Len(q)
        BY <1>1
      <3>2. QED
        BY <1>5, <1>6, <3>1 DEF Range
    <2>3. e \in Range(Tail(Append(q, e)))
      <3>1. Len(q) \in 1 .. Len(q)
        BY <1>1
      <3>2. QED
        BY <1>5, <1>6, <3>1 DEF Range
    <2>4. QED
      BY <1>5, <2>1, <2>2, <2>3 DEF Range
  <1>8. QED
    BY <1>1, <1>2, <1>3, <1>7

\* What the server sends, handles and queues has the entry of the call it is for.
LEMMA OwnedServer ==
    ASSUME IInv, Owned, OwnAnswer, ServerNext, UNCHANGED clientVars
    PROVE  Owned' /\ OwnAnswer'
  <1>1. /\ srvStack \in Seq(SrvFrameByParity)
        /\ c2s \in Seq(OddRequest \cup EvenReply)
        /\ blockQueue \in Seq(OddRequest \cup EvenReply)
        /\ s2c \in Seq(OddAnswer \cup EvenAnswer \cup EvenEmit)
    BY DEF IInv, FramesByParity, WireByParity
  <1>2. UNCHANGED <<cliStack, cliSocketRequest, cliPromise, cliAnswer>>
    BY DEF clientVars
  <1>3. ASSUME \A m \in Range(c2s') \cup Range(blockQueue') :
                   m \in OddRequest => m \in Range(c2s) \cup Range(blockQueue),
               \A m \in Range(srvStack') : m \in Handler => Entry(m),
               \/ s2c' = s2c
               \/ \E m \in OddAnswer \cup EvenAnswer \cup EvenEmit :
                    s2c' = Append(s2c, m) /\ (m \in OddAnswer => Entry(m))
        PROVE  Owned' /\ OwnAnswer'
    <2>1. \A m : Entry(m)' <=> Entry(m)
      BY <1>2 DEF Entry
    <2>2. ASSUME NEW m \in OddAnswer \cup EvenAnswer \cup EvenEmit,
                 s2c' = Append(s2c, m), m \in OddAnswer => Entry(m)
          PROVE  /\ cliPromise # 0 => s2c' # <<>> /\ Head(s2c') = Head(s2c)
                 /\ \A a \in Range(IF cliPromise = 0 THEN s2c' ELSE Tail(s2c')) :
                      a \in OddAnswer => Entry(a)
      <3>1. CASE cliPromise = 0
        <4>1. \A a : a \in Range(Append(s2c, m)) <=> a \in Range(s2c) \/ a = m
          BY <1>1, RangeAppend
        <4>2. QED
          BY <2>2, <3>1, <4>1 DEF Owned
      <3>2. CASE cliPromise # 0
        <4>1. s2c # <<>>
          BY <3>2 DEF OwnAnswer
        <4>2. /\ Append(s2c, m) # <<>> /\ Head(Append(s2c, m)) = Head(s2c)
              /\ \A a : a \in Range(Tail(Append(s2c, m))) <=> a \in Range(Tail(s2c)) \/ a = m
          BY <1>1, <4>1, TailAppend
        <4>3. QED
          BY <2>2, <3>2, <4>2 DEF Owned
      <3>3. QED
        BY <3>1, <3>2
    <2>3. /\ cliPromise # 0 => s2c' # <<>> /\ Head(s2c') = Head(s2c)
          /\ \A a \in Range(IF cliPromise = 0 THEN s2c' ELSE Tail(s2c')) :
               a \in OddAnswer => Entry(a)
      BY <1>3, <2>2 DEF Owned, OwnAnswer
    <2>4. Owned'
      BY <1>2, <1>3, <2>1, <2>3 DEF Owned
    <2>5. OwnAnswer'
      BY <1>2, <2>3 DEF OwnAnswer, CliOwnAnswer
    <2>6. QED
      BY <2>4, <2>5
  <1>4. \A m \in Range(srvStack) : m \in Handler => Entry(m)
    BY DEF Owned
  <1>5. ASSUME NEW F, srvStack \in Seq(F), NEW f \in F, srvStack' = Push(f, srvStack),
               f \in Handler => Entry(f)
        PROVE  \A m \in Range(srvStack') : m \in Handler => Entry(m)
    <2>1. \A m : m \in Range(Push(f, srvStack)) <=> m \in Range(srvStack) \/ m = f
      BY <1>5, PushNumbers
    <2>2. QED
      BY <1>4, <1>5, <2>1
  <1>6. ASSUME NEW f \in Functions, SrvEmitSync(f)
        PROVE  Owned' /\ OwnAnswer'
    <2>1. UNCHANGED <<c2s, s2c, blockQueue>>
      BY <1>6 DEF SrvEmitSync
    <2>2. PICK F : F = SrvFrameByParity'
      OBVIOUS
    <2>3. srvStack \in Seq(F) /\ Len(emitted) + 1 \in 1 .. Len(emitted')
      BY <1>1, <1>6, <2>2, EmitGrows DEF SrvEmitSync
    <2>4. PICK g \in F : srvStack' = Push(g, srvStack) /\ g \notin Handler
      <3>1. PICK id \in EvenIds \ {0} :
                srvStack' = Push(Frame("send", id, Len(emitted) + 1), srvStack)
        BY <1>6, NextIdParity DEF SrvEmitSync, IInv, FramesByParity
      <3>2. Frame("send", id, Len(emitted) + 1) \in F
        BY <2>2, <2>3 DEF SrvFrameByParity, Frame, Blocked
      <3>3. Frame("send", id, Len(emitted) + 1) \notin Handler
        BY DEF Frame, Handler
      <3>4. QED
        BY <3>1, <3>2, <3>3
    <2>5. \A m \in Range(srvStack') : m \in Handler => Entry(m)
      BY <1>5, <2>3, <2>4
    <2>6. QED
      BY <1>3, <2>1, <2>5
  <1>7. ASSUME NEW f \in Functions, SrvEmitAsync(f)
        PROVE  Owned' /\ OwnAnswer'
    <2>1. UNCHANGED <<c2s, srvStack, blockQueue>>
      BY <1>7 DEF SrvEmitAsync
    <2>2. PICK m \in EvenEmit : s2c' = Append(s2c, m)
      <3>1. 0 \in EvenIds /\ Len(emitted) + 1 \in Emits
        BY <1>7, WireAssumption, EmitGrows DEF EvenIds, Ids, SrvEmitAsync
      <3>2. EmitCallback(0, Len(emitted) + 1, f) \in EvenEmit
        BY <3>1 DEF EmitCallback, EvenEmit
      <3>3. QED
        BY <1>7, <3>2 DEF SrvEmitAsync
    <2>3. m \notin OddAnswer
      BY DEF OddAnswer, EvenEmit
    <2>4. QED
      BY <1>3, <1>4, <2>1, <2>2, <2>3
  <1>8. CASE SrvSend \/ SrvWait \/ SrvWake
    <2>1. PICK pc \in Blocked :
              /\ srvStack # <<>> /\ Head(srvStack).pc \in Blocked
              /\ srvStack' = Goto(pc, srvStack) /\ UNCHANGED <<c2s, blockQueue>>
      BY <1>8 DEF SrvSend, SrvWait, SrvWake, TopIs, Blocked
    <2>2. Frame(pc, Head(srvStack).id, Head(srvStack).of) \in SrvFrameByParity
      BY <2>1, SrvTop DEF IInv, SrvFrameByParity, Frame
    <2>3. \A m \in Range(srvStack') : m \in Handler => Entry(m)
      <3>1. PICK e \in SrvFrameByParity :
                /\ e.pc = pc
                /\ \A m : m \in Range(Goto(pc, srvStack)) <=> m \in Range(Tail(srvStack)) \/ m = e
        BY <1>1, <2>1, <2>2, GotoNumbers
      <3>2. \A m : m \in Range(srvStack) <=> m \in Range(Tail(srvStack)) \/ m = Head(srvStack)
        BY <1>1, <2>1, TailNumbers
      <3>3. e \notin Handler
        BY <2>1, <3>1 DEF Handler, Blocked
      <3>4. QED
        BY <1>4, <2>1, <3>1, <3>2, <3>3
    <2>4. s2c' = s2c \/ \E m \in EvenEmit : s2c' = Append(s2c, m)
      <3>1. CASE SrvSend
        <4>1. /\ Head(srvStack).id \in EvenIds /\ Head(srvStack).of \in Emits
              /\ Head(srvStack).of \in 1 .. Len(emitted)
          BY <2>1, SrvTop DEF IInv
        <4>2. emitted[Head(srvStack).of] \in Functions
          BY <4>1, ElementOfSeq DEF IInv, MapsTyped
        <4>3. QED
          BY <3>1, <4>1, <4>2 DEF SrvSend, EmitCallback, EvenEmit
      <3>2. QED
        BY <1>8, <3>1 DEF SrvWait, SrvWake
    <2>5. \A m \in EvenEmit : m \notin OddAnswer
      BY DEF OddAnswer, EvenEmit
    <2>6. QED
      BY <1>3, <2>1, <2>3, <2>4, <2>5
  <1>9. CASE SrvReturn \/ SrvTimeout
    <2>1. /\ srvStack # <<>> /\ srvStack' = Tail(srvStack)
          /\ UNCHANGED <<c2s, s2c, blockQueue>>
      BY <1>9 DEF SrvReturn, SrvTimeout, TopIs
    <2>2. \A m : m \in Range(srvStack) <=> m \in Range(Tail(srvStack)) \/ m = Head(srvStack)
      BY <1>1, <2>1, TailNumbers
    <2>3. QED
      BY <1>3, <1>4, <2>1, <2>2
  <1>10. CASE SrvReply
    <2>1. /\ srvStack # <<>> /\ Head(srvStack).pc = "run" /\ srvStack' = Tail(srvStack)
          /\ UNCHANGED <<c2s, blockQueue>>
      BY <1>10 DEF SrvReply, TopIs
    <2>2. \A m : m \in Range(srvStack) <=> m \in Range(Tail(srvStack)) \/ m = Head(srvStack)
      BY <1>1, <2>1, TailNumbers
    <2>3. Head(srvStack) \in SrvFrameByParity
      BY <1>1, <2>1, HeadTailProperties
    <2>4. PICK m \in OddAnswer \cup EvenAnswer :
              /\ s2c' = Append(s2c, m) /\ m.of = Head(srvStack).of
              /\ m \in OddAnswer => m.id = Head(srvStack).id /\ m.id \in OddIds
      BY <1>10, SrvResponse DEF IInv, SrvReply
    <2>5. m \in OddAnswer => Head(srvStack) \in Handler
      BY <2>1, <2>3, <2>4, ParityDisjoint DEF SrvFrameByParity, Handler, Blocked
    <2>6. m \in OddAnswer => Entry(m)
      BY <1>4, <2>2, <2>4, <2>5 DEF Entry
    <2>7. QED
      BY <1>3, <1>4, <2>1, <2>2, <2>4, <2>6
  <1>11. ASSUME blockQueue # <<>>, HandleMessage, UNCHANGED <<c2s, s2c>>
         PROVE  Owned' /\ OwnAnswer'
    <2>1. PICK msg \in OddRequest \cup EvenReply : msg = Head(blockQueue)
      BY <1>1, <1>11, HeadTailProperties
    <2>2. \A m : m \in Range(blockQueue) <=> m \in Range(Tail(blockQueue)) \/ m = Head(blockQueue)
      BY <1>1, <1>11, TailNumbers
    <2>3. PICK f \in SrvFrameByParity : srvStack' = Push(f, srvStack) /\ (f \in Handler => Entry(f))
      <3>1. CASE msg.type = "request"
        <4>1. msg \in OddRequest /\ msg.id \in OddIds /\ msg.of \in Calls
          BY <2>1, <3>1 DEF OddRequest, EvenReply
        <4>2. srvStack' = Push(Frame("run", msg.id, msg.of), srvStack)
          BY <1>11, <2>1, <3>1 DEF HandleMessage
        <4>3. Frame("run", msg.id, msg.of) \in SrvFrameByParity
          BY <4>1 DEF SrvFrameByParity, Frame
        <4>4. Entry(Frame("run", msg.id, msg.of))
          BY <2>1, <2>2, <4>1 DEF Owned, Entry, Frame
        <4>5. QED
          BY <4>2, <4>3, <4>4
      <3>2. CASE msg.type # "request"
        <4>1. srvStack' = Push(Frame("run", msg.id, 0), srvStack)
          BY <1>11, <2>1, <3>2 DEF HandleMessage
        <4>2. Frame("run", msg.id, 0) \in SrvFrameByParity
          BY <2>1, <3>2 DEF SrvFrameByParity, Frame, OddRequest, EvenReply
        <4>3. Frame("run", msg.id, 0) \notin Handler
          BY WireAssumption DEF Frame, Handler, Calls
        <4>4. QED
          BY <4>1, <4>2, <4>3
      <3>3. QED
        BY <3>1, <3>2
    <2>4. \A m \in Range(srvStack') : m \in Handler => Entry(m)
      BY <1>1, <1>5, <2>3
    <2>5. blockQueue' = Tail(blockQueue)
      BY <1>11 DEF HandleMessage
    <2>6. QED
      BY <1>3, <1>11, <2>2, <2>4, <2>5
  <1>12. CASE SrvPop
    BY <1>11, <1>12 DEF SrvPop
  <1>13. CASE SrvTsfn
    <2>1. CASE blockQueue = <<>>
      <3>1. UNCHANGED <<c2s, s2c, blockQueue, srvStack>>
        BY <1>13, <2>1 DEF SrvTsfn
      <3>2. QED
        BY <1>3, <1>4, <3>1
    <2>2. CASE blockQueue # <<>>
      BY <1>11, <1>13, <2>2 DEF SrvTsfn
    <2>3. QED
      BY <2>1, <2>2
  <1>14. CASE SrvRecvReply
    <2>1. UNCHANGED <<c2s, s2c, blockQueue, srvStack>>
      BY <1>14 DEF SrvRecvReply
    <2>2. QED
      BY <1>3, <1>4, <2>1
  <1>15. CASE SrvSetValue \/ SrvRecvMessage
    <2>1. c2s # <<>>
      BY <1>15 DEF SrvSetValue, SrvRecvMessage, IInv, ReadersHoldAnswers
    <2>2. \A m : m \in Range(c2s) <=> m \in Range(Tail(c2s)) \/ m = Head(c2s)
      BY <1>1, <2>1, TailNumbers
    <2>3. PICK m \in OddRequest \cup EvenReply : m = Head(c2s)
      BY <1>1, <2>1, HeadTailProperties
    <2>4. \A x : x \in Range(Append(blockQueue, m)) <=> x \in Range(blockQueue) \/ x = m
      BY <1>1, RangeAppend
    <2>5. /\ c2s' = Tail(c2s) /\ UNCHANGED <<s2c, srvStack>>
          /\ blockQueue' = blockQueue \/ blockQueue' = Append(blockQueue, m)
      BY <1>15, <2>3 DEF SrvSetValue, SrvRecvMessage
    <2>6. QED
      BY <1>3, <1>4, <2>2, <2>3, <2>4, <2>5
  <1>16. QED
    BY <1>6, <1>7, <1>8, <1>9, <1>10, <1>12, <1>13, <1>14, <1>15
    DEF ServerNext, SrvJsStep, SrvReader

-----------------------------------------------------------------------------
(* Together they are inductive.                                            *)

\* The invariant behind the promises, inductive together with IInv.
PInv == CallOrder /\ EmitOrder /\ WaitersOnce /\ HandledOnce /\ Owned /\ OwnAnswer

\* The invariant holds initially.
LEMMA InitPInv == Init => PInv
  <1>1. SUFFICES ASSUME Init PROVE PInv
    OBVIOUS
  <1>2. /\ \A S : Numbers(<<>>, S) = {} /\ Once(<<>>, S) /\ Ascending(<<>>, S)
        /\ Range(<<>>) = {} /\ Increasing(<<>>) /\ DOMAIN <<>> = {}
    <2>1. DOMAIN <<>> = {}
      OBVIOUS
    <2>2. Range(<<>>) = {}
      BY <2>1 DEF Range
    <2>3. QED
      BY <2>1, <2>2 DEF Numbers, Once, Ascending, Increasing
  <1>3. Started(<<>>) = <<>>
    BY DEF Started
  <1>4. \A S, n : Pipeline(<<>>, <<>>, <<>>, S, n) /\ SendsLast(<<>>, n)
    BY <1>2 DEF Pipeline, SendsLast
  <1>5. /\ c2s = <<>> /\ s2c = <<>> /\ cliStack = <<>> /\ srvStack = <<>> /\ blockQueue = <<>>
        /\ callbackQueue = <<>> /\ requestLog = <<>> /\ callbackLog = <<>>
        /\ cliPromise = 0 /\ cliFailed = {} /\ cliAnswer = [k \in Calls |-> 0]
    BY <1>1 DEF Init, ClientInit, ServerInit
  <1>6. CallOrder /\ EmitOrder
    BY <1>3, <1>4, <1>5 DEF CallOrder, EmitOrder
  <1>7. WaitersOnce /\ HandledOnce
    BY <1>2, <1>5 DEF WaitersOnce, HandledOnce, Waited, Handled, Answered
  <1>8. Owned /\ OwnAnswer
    BY <1>2, <1>5 DEF Owned, OwnAnswer, CliOwnAnswer, TopIs
  <1>9. QED
    BY <1>6, <1>7, <1>8 DEF PInv

\* Every step preserves the invariant.
LEMMA NextPInv == IInv /\ PInv /\ [Next]_vars => PInv'
  <1>1. SUFFICES ASSUME IInv, PInv, [Next]_vars PROVE PInv'
    OBVIOUS
  <1>2. /\ CallOrder /\ EmitOrder /\ WaitersOnce /\ HandledOnce /\ Owned /\ OwnAnswer
    BY <1>1 DEF PInv
  <1>3. CASE ClientNext /\ UNCHANGED serverVars
    <2>1. CallOrder' /\ EmitOrder'
      BY <1>1, <1>2, <1>3, CallOrderClient, EmitOrderClient
    <2>2. WaitersOnce' /\ HandledOnce'
      BY <1>1, <1>2, <1>3, WaitersClient, HandledClient
    <2>3. Owned' /\ OwnAnswer'
      BY <1>1, <1>2, <1>3, OwnedClient
    <2>4. QED
      BY <2>1, <2>2, <2>3 DEF PInv
  <1>4. CASE ServerNext /\ UNCHANGED clientVars
    <2>1. CallOrder' /\ EmitOrder'
      BY <1>1, <1>2, <1>4, CallOrderServer, EmitOrderServer
    <2>2. HandledOnce'
      BY <1>1, <1>2, <1>4, HandledServer
    <2>3. Owned' /\ OwnAnswer'
      BY <1>1, <1>2, <1>4, OwnedServer
    <2>4. WaitersOnce'
      BY <1>2, <1>4 DEF clientVars, WaitersOnce, Waited
    <2>5. QED
      BY <2>1, <2>2, <2>3, <2>4 DEF PInv
  <1>5. CASE UNCHANGED vars
    <2>1. UNCHANGED <<c2s, s2c>> /\ UNCHANGED clientVars /\ UNCHANGED serverVars
      BY <1>5 DEF vars, wireVars
    <2>2. CallOrder' /\ EmitOrder'
      BY <1>2, <2>1 DEF clientVars, serverVars, CallOrder, EmitOrder
    <2>3. WaitersOnce' /\ HandledOnce'
      BY <1>2, <2>1
      DEF clientVars, serverVars, WaitersOnce, HandledOnce, Waited, Handled, Answered
    <2>4. Owned' /\ OwnAnswer'
      BY <1>2, <2>1 DEF clientVars, serverVars, Owned, OwnAnswer, CliOwnAnswer, Entry
    <2>5. QED
      BY <2>2, <2>3, <2>4 DEF PInv
  <1>6. QED
    BY <1>1, <1>3, <1>4, <1>5 DEF Next

\* The invariant behind the promises holds in every state.
THEOREM PromiseInvariance == Spec => [](IInv /\ PInv)
  <1>1. Init => IInv /\ PInv
    BY InitIInv, InitPInv
  <1>2. IInv /\ PInv /\ [Next]_vars => IInv' /\ PInv'
    BY NextIInv, NextPInv
  <1>3. QED
    BY <1>1, <1>2, PTL DEF Spec

\* Whoever takes them off the queues, requests are handled in the order of the calls and
\* callbacks run in the order of the emissions, each once.
THEOREM OrderKept == Spec => []InOrderOnce
  <1>1. PInv => InOrderOnce
    <2>1. SUFFICES ASSUME PInv PROVE InOrderOnce
      OBVIOUS
    <2>2. Increasing(requestLog) /\ Increasing(Started(callbackLog))
      BY <2>1 DEF PInv, CallOrder, EmitOrder, Pipeline
    <2>3. \A i, j \in DOMAIN requestLog : i < j => requestLog[i] < requestLog[j]
      BY <2>2 DEF Increasing
    <2>4. \A i, j \in DOMAIN callbackLog : i < j => callbackLog[i].of < callbackLog[j].of
      BY <2>2 DEF Increasing, Started
    <2>5. QED
      BY <2>3, <2>4 DEF InOrderOnce
  <1>2. QED
    BY <1>1, PromiseInvariance, PTL

\* A call is answered with what the server computed for that very call, also after the
\* client's ids have wrapped around.
THEOREM AnswersAreOwn == Spec => []CliOwnAnswer
  <1>1. PInv => CliOwnAnswer
    BY DEF PInv, OwnAnswer
  <1>2. QED
    BY <1>1, PromiseInvariance, PTL

-----------------------------------------------------------------------------
(* The calls refine RemoteCall.                                            *)

\* Who is blocked on the client's stack, in both vocabularies.
LEMMA BlockedFrames ==
    ASSUME NEW s \in Seq(CliFrameByParity)
    PROVE  {frame.of : frame \in FramesOf(s, Blocked)} = Numbers(s, Waiter)
  <1>1. \A f \in CliFrameByParity : f \in Waiter <=> f.pc \in Blocked
    BY DEF CliFrameByParity, Waiter, Blocked
  <1>2. \A i \in DOMAIN s : s[i] \in CliFrameByParity
    BY LenProperties, ElementOfSeq
  <1>3. FramesOf(s, Blocked) = Range(s) \cap Waiter
    BY <1>1, <1>2 DEF FramesOf, Range
  <1>4. QED
    BY <1>3 DEF Numbers

\* Whose handlers are on the server's stack, likewise.
LEMMA RunningFrames ==
    ASSUME NEW F, NEW s \in Seq(F),
           \A f \in F : f \in Handler <=> f.pc = "run" /\ f.of # 0
    PROVE  {frame.of : frame \in FramesOf(s, {"run"})} \ {0} = Numbers(s, Handler)
  <1>1. \A i \in DOMAIN s : s[i] \in F
    BY LenProperties, ElementOfSeq
  <1>2. \A f : f \in Range(s) \cap Handler <=> f \in FramesOf(s, {"run"}) /\ f.of # 0
    BY <1>1 DEF FramesOf, Range
  <1>3. QED
    BY <1>2 DEF Numbers

\* The two sides of the refinement mapping, in the vocabulary of the invariant.
LEMMA CallsOfViews ==
    ASSUME IInv
    PROVE  /\ CliBlockedOn = Waited
           /\ {frame.of : frame \in FramesOf(srvStack, {"run"})} \ {0} = Handled
  <1>1. cliStack \in Seq(CliFrameByParity) /\ srvStack \in Seq(SrvFrameByParity)
    BY DEF IInv, FramesByParity
  <1>2. \A f \in SrvFrameByParity : f \in Handler <=> f.pc = "run" /\ f.of # 0
    BY WireAssumption DEF SrvFrameByParity, Handler, Blocked, Calls
  <1>3. QED
    BY <1>1, <1>2, BlockedFrames, RunningFrames DEF CliBlockedOn, Waited, Handled

\* A step of the client asks, fails, returns with an answer, or changes nothing.
LEMMA ClientKeepsPromise ==
    ASSUME IInv, PInv, ClientNext, UNCHANGED serverVars,
           CliBlockedOn = Waited, CliBlockedOn' = Waited'
    PROVE  CallsView!Next \/ UNCHANGED CallsView!callVars
  <1>1. ClientMove
    BY WaitersClient DEF PInv
  <1>2. requestLog' = requestLog /\ srvStack' = srvStack
    BY DEF serverVars
  <1>3. /\ \A k \in Waited : k \in Calls /\ k \in 1 .. calls /\ k \notin cliFailed
        /\ calls \in Nat
    BY WireAssumption DEF PInv, WaitersOnce, Waited, Numbers, Waiter, Calls, IInv, MapsTyped
  <1>4. CASE /\ calls' = calls + 1 /\ cliFailed' = cliFailed
             /\ \A a : a \in Waited' <=> a \in Waited \/ a = calls + 1
    <2>1. CliBlockedOn' = CliBlockedOn \cup {calls + 1}
      BY <1>4
    <2>2. CallsView!Ask
      BY <1>2, <1>4, <2>1 DEF CallsView!Ask
    <2>3. QED
      BY <2>2 DEF CallsView!Next
  <1>5. CASE /\ calls' = calls + 1 /\ cliFailed' = cliFailed \cup {calls + 1}
             /\ \A a : a \in Waited' <=> a \in Waited
    <2>1. CliBlockedOn' = CliBlockedOn
      BY <1>5
    <2>2. CallsView!Refuse
      BY <1>2, <1>5, <2>1 DEF CallsView!Refuse
    <2>3. QED
      BY <2>2 DEF CallsView!Next
  <1>6. ASSUME NEW k \in Waited, calls' = calls,
               \A a : a \in Waited' <=> a \in Waited /\ a # k,
               \/ cliFailed' = cliFailed \cup {k}
               \/ cliFailed' = cliFailed /\ cliAnswer[k] # 0
        PROVE  CallsView!Next
    <2>1. CliBlockedOn' = CliBlockedOn \ {k}
      BY <1>6
    <2>2. k \in 1 .. calls /\ k \in CliBlockedOn \ cliFailed
      BY <1>3, <1>6
    <2>3. CASE cliFailed' = cliFailed \cup {k}
      <3>1. CallsView!GiveUp(k)
        BY <1>2, <1>6, <2>1, <2>2, <2>3 DEF CallsView!GiveUp
      <3>2. QED
        BY <2>2, <3>1 DEF CallsView!Next
    <2>4. CASE cliFailed' = cliFailed /\ cliAnswer[k] # 0
      <3>1. k \in Range(requestLog) /\ k \notin Handled
        BY <1>3, <2>4 DEF PInv, HandledOnce
      <3>2. k \notin {frame.of : frame \in FramesOf(srvStack, {"run"})} \ {0}
        BY <3>1, CallsOfViews
      <3>3. \E i \in DOMAIN requestLog : requestLog[i] = k
        BY <3>1 DEF Range
      <3>4. CallsView!Return(k)
        BY <1>2, <1>6, <2>1, <2>2, <2>4, <3>2, <3>3 DEF CallsView!Return
      <3>5. QED
        BY <2>2, <3>4 DEF CallsView!Next
    <2>5. QED
      BY <1>6, <2>3, <2>4
  <1>7. CASE /\ calls' = calls /\ cliFailed' = cliFailed
             /\ \A a : a \in Waited' <=> a \in Waited
    <2>1. CliBlockedOn' = CliBlockedOn
      BY <1>7
    <2>2. QED
      BY <1>2, <1>7, <2>1 DEF CallsView!callVars
  <1>8. QED
    BY <1>1, <1>4, <1>5, <1>6, <1>7 DEF ClientMove

\* A step of the server starts a call, finishes one, or changes nothing.
LEMMA ServerKeepsPromise ==
    ASSUME IInv, PInv, ServerNext, UNCHANGED clientVars,
           NEW R, R = {frame.of : frame \in FramesOf(srvStack, {"run"})} \ {0}, R = Handled,
           NEW T, T = {frame.of : frame \in FramesOf(srvStack', {"run"})} \ {0}, T = Handled'
    PROVE  CallsView!Next \/ UNCHANGED CallsView!callVars
  <1>1. ServerMove
    BY HandledServer DEF PInv
  <1>2. calls' = calls /\ cliFailed' = cliFailed /\ CliBlockedOn' = CliBlockedOn
    BY DEF clientVars, CliBlockedOn
  <1>3. /\ \A k \in Calls : k <= calls => k \in 1 .. calls
        /\ \A k \in Handled : k \in 1 .. calls
    <2>1. calls \in Nat /\ SentUpTo(cliStack, calls) \in Nat /\ SentUpTo(cliStack, calls) <= calls
      BY CallTypes DEF PInv, SentUpTo
    <2>2. \A k \in Calls : k \in Nat /\ 1 <= k
      BY WireAssumption DEF Calls
    <2>3. \A k \in Handled : k \in Calls /\ k <= SentUpTo(cliStack, calls)
      BY DEF PInv, HandledOnce, CallOrder, Pipeline, Handled, Numbers, Handler
    <2>4. QED
      BY <2>1, <2>2, <2>3
  <1>4. ASSUME NEW k \in Calls, k <= calls, \A a \in Range(requestLog) : a < k,
               requestLog' = Append(requestLog, k),
               \A a : a \in Handled' <=> a \in Handled \/ a = k
        PROVE  CallsView!Next
    <2>1. T = R \cup {k}
      BY <1>4
    <2>2. k \in 1 .. calls /\ \A i \in DOMAIN requestLog : requestLog[i] < k
      BY <1>3, <1>4 DEF Range
    <2>3. CallsView!Start(k)
      BY <1>2, <1>4, <2>1, <2>2 DEF CallsView!Start
    <2>4. QED
      BY <2>2, <2>3 DEF CallsView!Next
  <1>5. ASSUME NEW k \in Handled, requestLog' = requestLog,
               \A a : a \in Handled' <=> a \in Handled /\ a # k
        PROVE  CallsView!Next
    <2>1. k \in R /\ T = R \ {k}
      BY <1>5
    <2>2. CallsView!Finish(k)
      BY <1>2, <1>5, <2>1 DEF CallsView!Finish
    <2>3. QED
      BY <1>3, <2>2 DEF CallsView!Next
  <1>6. CASE requestLog' = requestLog /\ \A a : a \in Handled' <=> a \in Handled
    <2>1. T = R
      BY <1>6
    <2>2. QED
      BY <1>2, <1>6, <2>1 DEF CallsView!callVars
  <1>7. QED
    BY <1>1, <1>4, <1>5, <1>6 DEF ServerMove

\* A call returns to the application only when the server has handled that very call to
\* its end, in order and once; a call that failed does not return after all.
THEOREM PromiseKept == Spec => CallsKeepPromise
  <1>1. Init => CallsView!Init
    <2>1. SUFFICES ASSUME Init PROVE CallsView!Init
      OBVIOUS
    <2>2. /\ calls = 0 /\ requestLog = <<>> /\ cliFailed = {} /\ cliStack = <<>> /\ srvStack = <<>>
      BY <2>1 DEF Init, ClientInit, ServerInit
    <2>3. \A pcs : FramesOf(<<>>, pcs) = {}
      BY DEF FramesOf
    <2>4. QED
      BY <2>2, <2>3 DEF CallsView!Init, CliBlockedOn
  <1>2. IInv /\ PInv /\ IInv' /\ [Next]_vars => [CallsView!Next]_(CallsView!callVars)
    <2>1. SUFFICES ASSUME IInv, PInv, IInv', [Next]_vars
                   PROVE  CallsView!Next \/ UNCHANGED CallsView!callVars
      OBVIOUS
    <2>2. /\ CliBlockedOn = Waited
          /\ {frame.of : frame \in FramesOf(srvStack, {"run"})} \ {0} = Handled
      BY <2>1, CallsOfViews
    <2>3. CliBlockedOn' = Waited'
      BY <2>1, BlockedFrames DEF IInv, FramesByParity, CliBlockedOn, Waited
    <2>4. {frame.of : frame \in FramesOf(srvStack', {"run"})} \ {0} = Handled'
      <3>1. PICK F : F = SrvFrameByParity'
        OBVIOUS
      <3>2. srvStack' \in Seq(F)
        BY <2>1, <3>1 DEF IInv, FramesByParity
      <3>3. \A f \in F : f \in Handler <=> f.pc = "run" /\ f.of # 0
        BY <3>1, WireAssumption DEF SrvFrameByParity, Handler, Blocked, Calls
      <3>4. QED
        BY <3>2, <3>3, RunningFrames DEF Handled
    <2>5. CASE ClientNext /\ UNCHANGED serverVars
      BY <2>1, <2>2, <2>3, <2>5, ClientKeepsPromise
    <2>6. CASE ServerNext /\ UNCHANGED clientVars
      BY <2>1, <2>2, <2>4, <2>6, ServerKeepsPromise
    <2>7. CASE UNCHANGED vars
      BY <2>7 DEF vars, clientVars, serverVars, CallsView!callVars, CliBlockedOn
    <2>8. QED
      BY <2>1, <2>5, <2>6, <2>7 DEF Next
  <1>3. QED
    BY <1>1, <1>2, PromiseInvariance, PTL DEF Spec, CallsKeepPromise, CallsView!Spec
=============================================================================
