-------------------------- MODULE RpcEmissions_proofs --------------------------
(***************************************************************************)
(* What the engine's emissions are promised, proved.  The server keeps no  *)
(* watch over ids that are still in use, as the client does, so that some  *)
(* of it holds only as long as its ids suffice.  Then where calls and      *)
(* emissions are until they are answered: none that somebody waits for is  *)
(* lost, and few are left without an invocation that will run them.        *)
(***************************************************************************)
EXTENDS SkylineRpc_proofs, FiniteSetTheorems

\* No emission gets an id that another has had.
IdsSuffice == 2 * MaxEmits < IdLimit - 1

\* Among the elements of q in S there is one of this id and number.
Has(q, S, i, e) == \E m \in Range(q) : m \in S /\ m.id = i /\ m.of = e

\* The activations of the server that wait for a reply, and those of the client that
\* run a callback.
SrvWaiter == [pc : Blocked, id : EvenIds \ {0}, of : Emits]
Callback  == [pc : {"run"}, id : EvenIds, of : Emits]

\* Where a synchronous emission e with id i is known: on its way to its reply, in the
\* reply, on the server's stack, in the server's map.
Due(i, e) ==
    /\ i # 0
    /\ \/ Has(s2c, EvenEmit, i, e)
       \/ Has(callbackQueue, EvenEmit, i, e)
       \/ Has(cliStack, Callback, i, e)
Replied(i, e) == Has(c2s, EvenReply, i, e)
Waits(i, e)   == Has(srvStack, SrvWaiter, i, e)
Stored(i, e)  == e # 0 /\ srvSocketRequest[i] = e

Carried(i, e) == Due(i, e) \/ Replied(i, e) \/ Waits(i, e) \/ Stored(i, e)

EmitLog   == Range(Started(callbackLog))
Running   == Numbers(cliStack, Callback)
RepliedTo == Numbers(c2s, EvenReply)

\* Ids and emissions correspond, and the next id is new.
IdsApart ==
    /\ srvRequestId <= 2 * Len(emitted) + 2
    /\ \A i \in Ids, e \in Emits : Carried(i, e) => i < srvRequestId /\ e <= Len(emitted)
    /\ \A i, j \in Ids, e, f \in Emits : Carried(i, e) /\ Carried(j, f) => (i = j <=> e = f)

\* A callback runs once, and is replied to after it has run.
RunOnce ==
    /\ Once(cliStack, Callback)
    /\ \A e \in Running : e \in EmitLog /\ srvAnswer[e] = 0 /\ e \notin RepliedTo
    /\ \A e \in RepliedTo : e \in EmitLog
    /\ \A e \in Emits : srvAnswer[e] # 0 => e \in EmitLog

\* What the reader is about to set is the reply to the emission whose promise it holds.
OwnReply ==
    /\ srvPromise # 0 => c2s # <<>> /\ Head(c2s) \in EvenReply /\ Head(c2s).of = srvPromise
    /\ SrvOwnAnswer

\* The map holds the promises of those who wait and have no reply yet, and no others.
WaitersStored ==
    /\ Once(srvStack, SrvWaiter)
    /\ \A i \in Ids, e \in Emits :
         /\ Stored(i, e) => Waits(i, e) /\ srvAnswer[e] = 0 /\ e # srvPromise
         /\ Waits(i, e) => Stored(i, e) \/ e = srvPromise \/ srvAnswer[e] # 0

\* What is on its way to its reply is waited for, or has expired.
DueWaits == \A i \in Ids, e \in Emits : Due(i, e) => Waits(i, e) \/ e \in expired

\* A failed emission gets no reply: its callback threw and has not sent any, or it has
\* expired and nobody waits.
FailedDone ==
    /\ \A e \in thrown : e \in EmitLog \ (Running \cup RepliedTo) /\ srvAnswer[e] = 0
    /\ \A e \in expired : e <= Len(emitted) /\ \A i \in Ids : ~Waits(i, e)

EInv == IdsApart /\ RunOnce /\ OwnReply /\ WaitersStored /\ DueWaits /\ FailedDone

-----------------------------------------------------------------------------
(* Queues and stacks.                                                      *)

\* What is in a queue that an element has been appended to.
LEMMA HasAppend ==
    ASSUME NEW F, NEW q \in Seq(F), NEW m \in F, NEW S
    PROVE  \A i, e : Has(Append(q, m), S, i, e) <=>
                       Has(q, S, i, e) \/ (m \in S /\ m.id = i /\ m.of = e)
  <1>1. \A x : x \in Range(Append(q, m)) <=> x \in Range(q) \/ x = m
    BY RangeAppend
  <1>2. QED
    BY <1>1 DEF Has

\* What is in a queue or stack is its head or in its tail.
LEMMA HasTail ==
    ASSUME NEW F, NEW q \in Seq(F), q # <<>>, NEW S
    PROVE  \A i, e : Has(q, S, i, e) <=>
                       \/ Has(Tail(q), S, i, e)
                       \/ Head(q) \in S /\ Head(q).id = i /\ Head(q).of = e
  <1>1. \A x : x \in Range(q) <=> x \in Range(Tail(q)) \/ x = Head(q)
    BY TailNumbers
  <1>2. QED
    BY <1>1 DEF Has

\* What is on a stack that a frame has been pushed on.
LEMMA HasPush ==
    ASSUME NEW F, NEW q \in Seq(F), NEW m \in F, NEW S
    PROVE  \A i, e : Has(Push(m, q), S, i, e) <=>
                       Has(q, S, i, e) \/ (m \in S /\ m.id = i /\ m.of = e)
  <1>1. \A x : x \in Range(Push(m, q)) <=> x \in Range(q) \/ x = m
    BY PushNumbers
  <1>2. QED
    BY <1>1 DEF Has

\* A stack whose top goes to another pc, both in S or both not, has what it had.
LEMMA HasGoto ==
    ASSUME NEW F, NEW q \in Seq(F), q # <<>>, NEW pc, Frame(pc, Head(q).id, Head(q).of) \in F,
           NEW S, Frame(pc, Head(q).id, Head(q).of) \in S <=> Head(q) \in S
    PROVE  /\ \A i, e : Has(Goto(pc, q), S, i, e) <=> Has(q, S, i, e)
           /\ \A a : a \in Numbers(Goto(pc, q), S) <=> a \in Numbers(q, S)
  <1>1. PICK t \in Seq(F) : t = Tail(q)
    BY HeadTailProperties
  <1>2. PICK m \in F : m = Frame(pc, Head(q).id, Head(q).of)
    OBVIOUS
  <1>3. Goto(pc, q) = Push(m, t)
    BY <1>1, <1>2 DEF Goto
  <1>4. m.id = Head(q).id /\ m.of = Head(q).of
    BY <1>2 DEF Frame
  <1>5. /\ \A i, e : Has(Push(m, t), S, i, e) <=>
                       Has(t, S, i, e) \/ (m \in S /\ m.id = i /\ m.of = e)
        /\ \A a : a \in Numbers(Push(m, t), S) <=> a \in Numbers(t, S) \/ (m \in S /\ a = m.of)
    <2>1. \A i, e : Has(Push(m, t), S, i, e) <=>
                      Has(t, S, i, e) \/ (m \in S /\ m.id = i /\ m.of = e)
      BY HasPush
    <2>2. \A a : a \in Numbers(Push(m, t), S) <=> a \in Numbers(t, S) \/ (m \in S /\ a = m.of)
      <3>1. \A x : x \in Range(Push(m, t)) <=> x \in Range(t) \/ x = m
        BY PushNumbers
      <3>2. QED
        BY <3>1 DEF Numbers
    <2>3. QED
      BY <2>1, <2>2
  <1>6. /\ \A i, e : Has(q, S, i, e) <=>
                       \/ Has(Tail(q), S, i, e)
                       \/ Head(q) \in S /\ Head(q).id = i /\ Head(q).of = e
        /\ \A a : a \in Numbers(q, S) <=>
                    a \in Numbers(Tail(q), S) \/ (Head(q) \in S /\ a = Head(q).of)
    <2>1. \A i, e : Has(q, S, i, e) <=>
                      \/ Has(Tail(q), S, i, e)
                      \/ Head(q) \in S /\ Head(q).id = i /\ Head(q).of = e
      BY HasTail
    <2>2. \A a : a \in Numbers(q, S) <=>
                   a \in Numbers(Tail(q), S) \/ (Head(q) \in S /\ a = Head(q).of)
      BY TailNumbers
    <2>3. QED
      BY <2>1, <2>2
  <1>7. m \in S <=> Head(q) \in S
    BY <1>2
  <1>8. \A i, e : Has(Goto(pc, q), S, i, e) <=> Has(q, S, i, e)
    BY <1>1, <1>3, <1>4, <1>5, <1>6, <1>7
  <1>9. \A a : a \in Numbers(Goto(pc, q), S) <=> a \in Numbers(q, S)
    BY <1>1, <1>3, <1>4, <1>5, <1>6, <1>7
  <1>10. QED
    BY <1>8, <1>9

\* The numbers are those of what is there.
LEMMA NumbersHas ==
    ASSUME NEW q, NEW S
    PROVE  \A i, e : Has(q, S, i, e) => e \in Numbers(q, S)
  BY DEF Has, Numbers

-----------------------------------------------------------------------------
(* The client runs callbacks and replies.                                  *)

\* How a step of the client may change what is run and replied to.
CallbackMove ==
    \/ /\ UNCHANGED <<EmitLog, thrown>> /\ Started(callbackLog)' = Started(callbackLog)
       /\ \A e : e \in Running' <=> e \in Running
       /\ \A e : e \in RepliedTo' => e \in RepliedTo
    \/ \E n \in Emits :
         /\ \A e \in EmitLog : e < n
         /\ Started(callbackLog)' = Append(Started(callbackLog), n)
         /\ \A e : e \in EmitLog' <=> e \in EmitLog \/ e = n
         /\ \A e : e \in Running' <=> e \in Running \/ e = n
         /\ \A e : e \in RepliedTo' => e \in RepliedTo
         /\ n <= Len(emitted) /\ thrown' = thrown
    \/ \E n \in Running :
         /\ EmitLog' = EmitLog /\ Started(callbackLog)' = Started(callbackLog)
         /\ \A e : e \in Running' <=> e \in Running /\ e # n
         /\ \/ thrown' = thrown /\ \A e : e \in RepliedTo' => e \in RepliedTo \/ e = n
            \/ thrown' = thrown \cup {n} /\ \A e : e \in RepliedTo' => e \in RepliedTo

\* What the client knows of an emission it passes on, and gives away to nobody else.
ClientCarries ==
    /\ Once(cliStack', Callback)
    /\ \A i \in Ids, e \in Emits : Due(i, e)' => Due(i, e)
    /\ \A i \in Ids, e \in Emits : Replied(i, e)' => Replied(i, e) \/ Due(i, e)
    /\ c2s # <<>> => c2s' # <<>> /\ Head(c2s') = Head(c2s)
    /\ CallbackMove

\* What is queued has not been started.
LEMMA QueuedIsNew ==
    ASSUME IInv, EmitOrder, callbackQueue # <<>>
    PROVE  /\ Head(callbackQueue) \in EvenEmit /\ Head(callbackQueue).of \in Emits
           /\ \A e \in EmitLog : e < Head(callbackQueue).of
           /\ Head(callbackQueue).of \notin EmitLog
           /\ Head(callbackQueue).of <= Len(emitted)
  <1>1. /\ Head(callbackQueue) \in EvenEmit /\ callbackQueue \in Seq(EvenEmit)
    BY HeadTailProperties DEF IInv, WireByParity
  <1>2. Head(callbackQueue).of \in Numbers(callbackQueue, EvenEmit)
    BY <1>1, TailNumbers
  <1>3. /\ Head(callbackQueue).of \in Nat
        /\ \A a \in EmitLog : a < Head(callbackQueue).of
        /\ Head(callbackQueue).of <= SentUpTo(srvStack, Len(emitted))
    BY <1>1, <1>2, EmitTypes DEF EmitOrder, Pipeline, EmitLog
  <1>4. Head(callbackQueue).of <= Len(emitted)
    BY <1>3, EmitTypes DEF SentUpTo
  <1>5. QED
    BY <1>1, <1>3, <1>4 DEF EvenEmit

\* A callback starts with the oldest emission.
LEMMA CallbackStarts ==
    ASSUME IInv, EmitOrder, RunOnce, callbackQueue # <<>>, NEW f \in Functions, RunCallback(f),
           c2s' = c2s, s2c' = s2c, thrown' = thrown
    PROVE  ClientCarries
  <1>1. PICK m \in EvenEmit :
            /\ m = Head(callbackQueue) /\ m.of \in Emits /\ m.of \notin EmitLog
            /\ (\A e \in EmitLog : e < m.of) /\ m.of <= Len(emitted)
    BY QueuedIsNew
  <1>2. /\ callbackQueue \in Seq(EvenEmit) /\ cliStack \in Seq(CliFrameByParity)
        /\ callbackLog \in Seq([of : Emits, fn : Functions])
    BY DEF IInv, MapsTyped, WireByParity, FramesByParity
  <1>3. PICK g \in CliFrameByParity :
            /\ cliStack' = Push(g, cliStack) /\ g \in Callback
            /\ g.id = m.id /\ g.of = m.of
    <2>1. /\ Frame("run", m.id, m.of) \in CliFrameByParity
          /\ Frame("run", m.id, m.of) \in Callback
      BY DEF CliFrameByParity, Callback, Frame, EvenEmit
    <2>2. QED
      BY <1>1, <2>1 DEF RunCallback, Frame
  <1>4. /\ \A e : e \in EmitLog' <=> e \in EmitLog \/ e = m.of
        /\ Started(callbackLog)' = Append(Started(callbackLog), m.of)
    <2>1. PICK r \in [of : Emits, fn : Functions] : r = [of |-> m.of, fn |-> f] /\ r.of = m.of
      <3>1. [of |-> m.of, fn |-> f] \in [of : Emits, fn : Functions]
        BY <1>1
      <3>2. PICK r \in [of : Emits, fn : Functions] : r = [of |-> m.of, fn |-> f]
        BY <3>1
      <3>3. r.of = m.of
        BY <3>2
      <3>4. QED
        BY <3>2, <3>3
    <2>2. callbackLog' = Append(callbackLog, r)
      BY <1>1, <2>1 DEF RunCallback
    <2>3. \A x \in [of : Emits, fn : Functions] : x.of \in Nat
      BY WireAssumption DEF Emits
    <2>4. /\ Started(callbackLog) \in Seq(Nat)
          /\ Started(Append(callbackLog, r)) = Append(Started(callbackLog), r.of)
      BY <1>2, <2>3, StartedLog
    <2>5. m.of \in Nat
      BY <2>1, <2>3
    <2>6. \A e : e \in Range(Append(Started(callbackLog), m.of)) <=>
                   e \in Range(Started(callbackLog)) \/ e = m.of
      BY <2>4, <2>5, RangeAppend
    <2>7. QED
      BY <2>1, <2>2, <2>4, <2>6 DEF EmitLog
  <1>5. /\ \A i, e : Has(cliStack', Callback, i, e) <=>
                       Has(cliStack, Callback, i, e) \/ (m.id = i /\ m.of = e)
        /\ \A e : e \in Numbers(cliStack', Callback) <=>
                    e \in Numbers(cliStack, Callback) \/ e = m.of
    <2>1. \A i, e : Has(Push(g, cliStack), Callback, i, e) <=>
                      \/ Has(cliStack, Callback, i, e)
                      \/ g \in Callback /\ g.id = i /\ g.of = e
      BY <1>2, HasPush
    <2>2. \A e : e \in Numbers(Push(g, cliStack), Callback) <=>
                   e \in Numbers(cliStack, Callback) \/ (g \in Callback /\ e = g.of)
      <3>1. \A x : x \in Range(Push(g, cliStack)) <=> x \in Range(cliStack) \/ x = g
        BY <1>2, PushNumbers
      <3>2. QED
        BY <3>1 DEF Numbers
    <2>3. QED
      BY <1>3, <2>1, <2>2
  <1>6. \A i, e : Has(callbackQueue, EvenEmit, i, e) <=>
                    Has(callbackQueue', EvenEmit, i, e) \/ (m.id = i /\ m.of = e)
    BY <1>1, <1>2, HasTail DEF RunCallback
  <1>7. Once(cliStack', Callback)
    <2>1. m.of \notin Running
      BY <1>1 DEF RunOnce
    <2>2. QED
      BY <1>2, <1>3, <2>1, OncePush DEF RunOnce, Running
  <1>8. \A i, e : Due(i, e)' => Due(i, e)
    BY <1>5, <1>6 DEF Due
  <1>9. RepliedTo' = RepliedTo /\ \A i, e : Replied(i, e)' <=> Replied(i, e)
    BY DEF RepliedTo, Replied
  <1>10. CallbackMove
    BY <1>1, <1>4, <1>5, <1>9 DEF CallbackMove, Running
  <1>11. QED
    BY <1>7, <1>8, <1>9, <1>10 DEF ClientCarries

\* A callback ends, and an emission is run or dropped, as the oldest there is.
LEMMA CarriedByClient ==
    ASSUME IInv, EmitOrder, RunOnce, ClientNext
    PROVE  ClientCarries
  <1>1. /\ cliStack \in Seq(CliFrameByParity) /\ Once(cliStack, Callback)
        /\ c2s \in Seq(OddRequest \cup EvenReply)
        /\ s2c \in Seq(OddAnswer \cup EvenAnswer \cup EvenEmit)
        /\ callbackQueue \in Seq(EvenEmit)
    BY DEF IInv, FramesByParity, WireByParity, RunOnce
  <1>2. ASSUME NEW m \in OddRequest \cup EvenReply, c2s' = Append(c2s, m)
        PROVE  /\ c2s # <<>> => c2s' # <<>> /\ Head(c2s') = Head(c2s)
               /\ \A i, e : Replied(i, e)' <=>
                              Replied(i, e) \/ (m \in EvenReply /\ m.id = i /\ m.of = e)
               /\ \A e : e \in RepliedTo' <=> e \in RepliedTo \/ (m \in EvenReply /\ e = m.of)
    <2>1. c2s # <<>> => c2s' # <<>> /\ Head(c2s') = Head(c2s)
      BY <1>1, <1>2, TailAppend
    <2>2. /\ \A i, e : Has(Append(c2s, m), EvenReply, i, e) <=>
                         \/ Has(c2s, EvenReply, i, e)
                         \/ m \in EvenReply /\ m.id = i /\ m.of = e
          /\ \A e : e \in Numbers(Append(c2s, m), EvenReply) <=>
                      e \in Numbers(c2s, EvenReply) \/ (m \in EvenReply /\ e = m.of)
      BY <1>1, HasAppend, AppendNumbers
    <2>3. QED
      BY <1>2, <2>1, <2>2 DEF Replied, RepliedTo
  <1>3. ASSUME callbackLog' = callbackLog, thrown' = thrown,
               \A i \in Ids, e \in Emits : Due(i, e)' => Due(i, e),
               Once(cliStack', Callback), \A e : e \in Running' <=> e \in Running,
               c2s' = c2s
        PROVE  ClientCarries
    <2>1. /\ EmitLog' = EmitLog /\ Started(callbackLog)' = Started(callbackLog)
          /\ RepliedTo' = RepliedTo
      BY <1>3 DEF EmitLog, RepliedTo
    <2>2. \A i, e : Replied(i, e)' <=> Replied(i, e)
      BY <1>3 DEF Replied
    <2>3. CallbackMove
      BY <1>3, <2>1 DEF CallbackMove
    <2>4. QED
      BY <1>3, <2>2, <2>3 DEF ClientCarries
  <1>4. \A g \in CliFrameByParity : g \in Callback <=> g.pc = "run"
    BY DEF CliFrameByParity, Callback, Blocked
  <1>5. ASSUME NEW g \in CliFrameByParity, g.pc \in Blocked, cliStack' = Push(g, cliStack)
        PROVE  /\ Once(cliStack', Callback)
               /\ \A i, e : Has(cliStack', Callback, i, e) <=> Has(cliStack, Callback, i, e)
               /\ \A e : e \in Running' <=> e \in Running
    <2>1. g \notin Callback
      BY <1>5 DEF Callback, Blocked
    <2>2. QED
      BY <1>1, <1>5, <2>1, OncePush, HasPush, PushNumbers DEF Running
  <1>6. ASSUME cliStack # <<>>, Head(cliStack).pc \in Blocked, NEW pc \in Blocked,
               cliStack' = Goto(pc, cliStack)
        PROVE  /\ Once(cliStack', Callback)
               /\ \A i, e : Has(cliStack', Callback, i, e) <=> Has(cliStack, Callback, i, e)
               /\ \A e : e \in Running' <=> e \in Running
    <2>1. Frame(pc, Head(cliStack).id, Head(cliStack).of) \in CliFrameByParity
      BY <1>6, CliTop DEF IInv, CliFrameByParity, Frame
    <2>2. /\ Frame(pc, Head(cliStack).id, Head(cliStack).of) \notin Callback
          /\ Head(cliStack) \notin Callback
      BY <1>6 DEF Frame, Callback, Blocked
    <2>3. Once(Goto(pc, cliStack), Callback)
      BY <1>1, <1>6, <2>1, <2>2, OnceGoto
    <2>4. /\ \A i, e : Has(Goto(pc, cliStack), Callback, i, e) <=> Has(cliStack, Callback, i, e)
          /\ \A e : e \in Numbers(Goto(pc, cliStack), Callback) <=>
                      e \in Numbers(cliStack, Callback)
      BY <1>1, <1>6, <2>1, <2>2, HasGoto
    <2>5. QED
      BY <1>6, <2>3, <2>4 DEF Running
  <1>7. ASSUME NEW s \in Seq(CliFrameByParity), s # <<>>, Once(s, Callback)
        PROVE  /\ Tail(s) \in Seq(CliFrameByParity) /\ Once(Tail(s), Callback)
               /\ \A i, e : Has(Tail(s), Callback, i, e) => Has(s, Callback, i, e)
               /\ \A e : e \in Numbers(Tail(s), Callback) <=>
                    e \in Numbers(s, Callback) /\ (Head(s) \in Callback => e # Head(s).of)
    BY <1>7, OnceTail, HasTail, TailNumbers
  <1>8. CASE CliCall
    <2>1. UNCHANGED <<callbackLog, thrown, c2s, s2c, callbackQueue>>
      BY <1>8 DEF CliCall
    <2>2. CASE cliStack' = cliStack
      BY <1>1, <1>3, <2>1, <2>2 DEF Due, Running
    <2>3. CASE cliStack' # cliStack
      <3>1. PICK id \in OddIds : cliStack' = Push(Frame("send", id, calls + 1), cliStack)
        BY <1>8, <2>3, NextIdParity DEF CliCall, IInv, FramesByParity
      <3>2. calls + 1 \in Calls
        BY <1>8, WireAssumption DEF CliCall, Calls, IInv, MapsTyped
      <3>3. PICK g \in CliFrameByParity : g.pc \in Blocked /\ cliStack' = Push(g, cliStack)
        BY <3>1, <3>2 DEF CliFrameByParity, Frame, Blocked
      <3>4. QED
        BY <1>3, <1>5, <2>1, <3>3 DEF Due
    <2>4. QED
      BY <2>2, <2>3
  <1>9. CASE CliSend
    <2>1. /\ cliStack # <<>> /\ Head(cliStack).pc \in Blocked /\ cliStack' = Goto("drain", cliStack)
          /\ "drain" \in Blocked /\ UNCHANGED <<s2c, callbackQueue, callbackLog, thrown>>
      BY <1>9 DEF CliSend, TopIs, Blocked
    <2>2. PICK m \in OddRequest : c2s' = Append(c2s, m)
      BY <1>9, <2>1, CliTop DEF CliSend, IInv, Request, OddRequest
    <2>3. m \notin EvenReply
      BY DEF OddRequest, EvenReply
    <2>4. /\ Once(cliStack', Callback)
          /\ \A i, e : Has(cliStack', Callback, i, e) <=> Has(cliStack, Callback, i, e)
          /\ \A e : e \in Running' <=> e \in Running
      BY <1>6, <2>1
    <2>5. \A i, e : Due(i, e)' => Due(i, e)
      BY <2>1, <2>4 DEF Due
    <2>6. UNCHANGED <<EmitLog, thrown>> /\ Started(callbackLog)' = Started(callbackLog)
      BY <2>1 DEF EmitLog
    <2>7. QED
      BY <1>2, <2>2, <2>3, <2>4, <2>5, <2>6 DEF ClientCarries, CallbackMove
  <1>10. CASE CliWait \/ CliWake
    <2>1. PICK pc \in Blocked :
              /\ cliStack # <<>> /\ Head(cliStack).pc \in Blocked /\ cliStack' = Goto(pc, cliStack)
              /\ UNCHANGED <<c2s, s2c, callbackQueue, callbackLog, thrown>>
      BY <1>10 DEF CliWait, CliWake, TopIs, Blocked
    <2>2. QED
      BY <1>3, <1>6, <2>1 DEF Due
  <1>11. CASE CliPop
    <2>1. callbackQueue # <<>> /\ Head(callbackQueue).fn \in Functions
      BY <1>11, QueuedIsNew DEF CliPop, EvenEmit
    <2>2. QED
      BY <1>11, <2>1, CallbackStarts DEF CliPop
  <1>12. CASE CliDrop
    <2>1. /\ callbackQueue # <<>> /\ callbackQueue' = Tail(callbackQueue)
          /\ UNCHANGED <<c2s, s2c, cliStack, callbackLog, thrown>>
      BY <1>12 DEF CliDrop
    <2>2. \A i, e : Has(callbackQueue', EvenEmit, i, e) => Has(callbackQueue, EvenEmit, i, e)
      BY <1>1, <2>1, HasTail
    <2>3. QED
      BY <1>1, <1>3, <2>1, <2>2 DEF Due, Running
  <1>13. ASSUME NEW f \in Functions, CliTsfn(f)
         PROVE  ClientCarries
    <2>1. CASE callbackQueue = <<>>
      BY <1>1, <1>3, <1>13, <2>1 DEF CliTsfn, Due, Running
    <2>2. CASE callbackQueue # <<>>
      BY <1>13, <2>2, CallbackStarts DEF CliTsfn
    <2>3. QED
      BY <2>1, <2>2
  <1>14. CASE CliReturn \/ CliTimeout
    <2>1. /\ cliStack # <<>> /\ Head(cliStack).pc # "run" /\ cliStack' = Tail(cliStack)
          /\ UNCHANGED <<c2s, s2c, callbackQueue, callbackLog, thrown>>
      BY <1>14 DEF CliReturn, CliTimeout, TopIs
    <2>2. Head(cliStack) \notin Callback
      BY <2>1 DEF Callback
    <2>3. QED
      BY <1>1, <1>3, <1>7, <2>1, <2>2 DEF Due, Running
  <1>15. CASE CliCallbackReturn
    <2>1. /\ cliStack # <<>> /\ Head(cliStack).pc = "run" /\ cliStack' = Tail(cliStack)
          /\ UNCHANGED <<s2c, callbackQueue, callbackLog, thrown>>
      BY <1>15 DEF CliCallbackReturn, TopIs
    <2>2. /\ Head(cliStack) \in Callback /\ Head(cliStack).id \in EvenIds
          /\ Head(cliStack).of \in Emits
      BY <1>4, <2>1, CliTop DEF IInv
    <2>3. /\ \A i, e : Due(i, e)' => Due(i, e)
          /\ \A e : e \in Running' <=> e \in Running /\ e # Head(cliStack).of
          /\ Once(cliStack', Callback)
      BY <1>1, <1>7, <2>1, <2>2 DEF Due, Running
    <2>4. /\ Head(cliStack).of \in Running
          /\ Has(cliStack, Callback, Head(cliStack).id, Head(cliStack).of)
      BY <1>1, <2>1, <2>2, TailNumbers, HasTail DEF Running
    <2>5. EmitLog' = EmitLog /\ Started(callbackLog)' = Started(callbackLog)
      BY <2>1 DEF EmitLog
    <2>6. CASE Head(cliStack).id = 0
      <3>1. c2s' = c2s
        BY <1>15, <2>6 DEF CliCallbackReturn
      <3>2. RepliedTo' = RepliedTo /\ \A i, e : Replied(i, e)' <=> Replied(i, e)
        BY <3>1 DEF RepliedTo, Replied
      <3>3. QED
        BY <2>1, <2>3, <2>4, <2>5, <3>1, <3>2 DEF ClientCarries, CallbackMove
    <2>7. CASE Head(cliStack).id # 0
      <3>1. Head(cliStack).id > 0
        BY <2>2, <2>7, WireAssumption DEF EvenIds, Ids
      <3>2. PICK m \in EvenReply :
                /\ c2s' = Append(c2s, m)
                /\ m.id = Head(cliStack).id /\ m.of = Head(cliStack).of
        BY <1>15, <2>2, <2>7, <3>1 DEF CliCallbackReturn, CallbackReply, EvenReply
      <3>3. Due(m.id, m.of)
        BY <2>4, <2>7, <3>2 DEF Due
      <3>4. QED
        BY <1>2, <2>1, <2>3, <2>4, <2>5, <3>2, <3>3 DEF ClientCarries, CallbackMove
    <2>8. QED
      BY <2>6, <2>7
  <1>16. CASE CliCallbackThrow
    <2>1. /\ cliStack # <<>> /\ Head(cliStack).pc = "run"
          /\ thrown' = thrown \cup {Head(cliStack).of}
          /\ UNCHANGED <<c2s, s2c, callbackQueue, callbackLog>>
          /\ \/ cliStack' = Tail(cliStack)
             \/ Tail(cliStack) # <<>> /\ cliStack' = Tail(Tail(cliStack))
      BY <1>16 DEF CliCallbackThrow, TopIs
    <2>2. Head(cliStack) \in Callback /\ Head(cliStack).of \in Running
      <3>1. Head(cliStack) \in Callback
        BY <1>4, <2>1, CliTop DEF IInv
      <3>2. QED
        BY <1>1, <2>1, <3>1, TailNumbers DEF Running
    <2>3. PICK t \in Seq(CliFrameByParity) :
              /\ t = Tail(cliStack) /\ Once(t, Callback)
              /\ \A i, e : Has(t, Callback, i, e) => Has(cliStack, Callback, i, e)
              /\ \A e : e \in Numbers(t, Callback) <=> e \in Running /\ e # Head(cliStack).of
      BY <1>1, <1>7, <2>1, <2>2 DEF Running
    <2>4. ASSUME t # <<>>
          PROVE  Head(t) \notin Callback
      <3>1. /\ Len(t) \in Nat \ {0} /\ Len(t) = Len(cliStack) - 1
            /\ Head(t) = t[1] /\ t[1] = cliStack[1 + 1]
        BY <1>1, <2>1, <2>3, <2>4, HeadTailProperties, LenProperties, EmptySeq
      <3>2. cliStack[1].pc = "run" /\ 1 \in 1 .. Len(cliStack) - 1
        BY <2>1, <3>1, CliTop DEF IInv
      <3>3. Head(t).pc \in Blocked
        BY <3>1, <3>2 DEF IInv, FramesByParity, RunsOnBlocked
      <3>4. QED
        BY <3>3 DEF Callback, Blocked
    <2>5. /\ Once(cliStack', Callback)
          /\ \A i, e : Has(cliStack', Callback, i, e) => Has(cliStack, Callback, i, e)
          /\ \A e : e \in Running' <=> e \in Running /\ e # Head(cliStack).of
      <3>1. CASE cliStack' = t
        BY <2>3, <3>1 DEF Running
      <3>2. CASE t # <<>> /\ cliStack' = Tail(t)
        BY <1>7, <2>3, <2>4, <3>2 DEF Running
      <3>3. QED
        BY <2>1, <2>3, <3>1, <3>2
    <2>6. /\ EmitLog' = EmitLog /\ Started(callbackLog)' = Started(callbackLog)
          /\ RepliedTo' = RepliedTo /\ \A i, e : Replied(i, e)' <=> Replied(i, e)
      BY <2>1 DEF EmitLog, RepliedTo, Replied
    <2>7. \A i, e : Due(i, e)' => Due(i, e)
      BY <2>1, <2>5 DEF Due
    <2>8. QED
      BY <2>1, <2>2, <2>5, <2>6, <2>7 DEF ClientCarries, CallbackMove
  <1>17. CASE CliRecvAnswer
    BY <1>1, <1>3, <1>17 DEF CliRecvAnswer, Due, Running
  <1>18. CASE CliSetValue \/ CliRecvEmit \/ CliRecvDrop
    <2>1. /\ s2c # <<>> /\ s2c' = Tail(s2c) /\ UNCHANGED <<c2s, cliStack, callbackLog, thrown>>
          /\ \/ callbackQueue' = callbackQueue
             \/ Head(s2c) \in EvenEmit /\ callbackQueue' = Append(callbackQueue, Head(s2c))
      BY <1>18, ToClientHead
      DEF CliSetValue, CliRecvEmit, CliRecvDrop, IInv, ReadersHoldAnswers
    <2>2. \A i, e : Has(s2c, EvenEmit, i, e) <=>
                      \/ Has(s2c', EvenEmit, i, e)
                      \/ Head(s2c) \in EvenEmit /\ Head(s2c).id = i /\ Head(s2c).of = e
      BY <1>1, <2>1, HasTail
    <2>3. \A i, e : Has(callbackQueue', EvenEmit, i, e) =>
                      Has(callbackQueue, EvenEmit, i, e) \/ Has(s2c, EvenEmit, i, e)
      <3>1. CASE callbackQueue' = callbackQueue
        BY <3>1
      <3>2. CASE Head(s2c) \in EvenEmit /\ callbackQueue' = Append(callbackQueue, Head(s2c))
        BY <1>1, <2>2, <3>2, HasAppend
      <3>3. QED
        BY <2>1, <3>1, <3>2
    <2>4. QED
      BY <1>1, <1>3, <2>1, <2>2, <2>3 DEF Due, Running
  <1>19. QED
    BY <1>8, <1>9, <1>10, <1>11, <1>12, <1>13, <1>14, <1>15, <1>16, <1>17, <1>18
    DEF ClientNext, CliJsStep, CliReader

\* So the client keeps what the emissions are promised.
LEMMA EmissionsClient ==
    ASSUME IInv, EInv, ClientCarries, UNCHANGED serverVars
    PROVE  EInv'
  <1>1. UNCHANGED <<srvRequestId, srvSocketRequest, srvPromise, srvStack, srvAnswer, emitted, expired>>
    BY DEF serverVars
  <1>2. \A i, e : (Waits(i, e)' <=> Waits(i, e)) /\ (Stored(i, e)' <=> Stored(i, e))
    BY <1>1 DEF Waits, Stored
  <1>3. \A i \in Ids, e \in Emits : Carried(i, e)' => Carried(i, e)
    BY <1>2 DEF ClientCarries, Carried
  <1>4. IdsApart'
    BY <1>1, <1>3 DEF EInv, IdsApart
  <1>5. RunOnce'
    <2>1. RunOnce /\ CallbackMove /\ Once(cliStack', Callback)
      BY DEF EInv, ClientCarries
    <2>2. SUFFICES /\ \A e \in Running' : e \in EmitLog' /\ srvAnswer[e] = 0 /\ e \notin RepliedTo'
                   /\ \A e \in RepliedTo' : e \in EmitLog'
                   /\ \A e \in Emits : srvAnswer[e] # 0 => e \in EmitLog'
      BY <1>1, <2>1 DEF RunOnce
    <2>3. \A n \in Emits : (\A e \in EmitLog : e < n) => n \notin EmitLog
      BY WireAssumption DEF Emits
    <2>4. QED
      BY <2>1, <2>3 DEF CallbackMove, RunOnce
  <1>6. OwnReply'
    BY <1>1 DEF EInv, OwnReply, ClientCarries, SrvOwnAnswer
  <1>7. WaitersStored'
    BY <1>1, <1>2 DEF EInv, WaitersStored
  <1>8. DueWaits'
    BY <1>1, <1>2 DEF EInv, DueWaits, ClientCarries
  <1>9. FailedDone'
    <2>1. \A n \in Emits : (\A e \in EmitLog : e < n) => n \notin EmitLog
      BY WireAssumption DEF Emits
    <2>2. \A e \in thrown' : e \in EmitLog' \ (Running' \cup RepliedTo') /\ srvAnswer[e] = 0
      BY <2>1 DEF EInv, FailedDone, RunOnce, ClientCarries, CallbackMove
    <2>3. QED
      BY <1>1, <1>2, <2>2 DEF EInv, FailedDone
  <1>10. QED
    BY <1>4, <1>5, <1>6, <1>7, <1>8, <1>9 DEF EInv

-----------------------------------------------------------------------------
(* The server emits, and waits for replies.                                *)

\* How a step of the server may change what is emitted and waited for.
EmissionMove ==
    \/ /\ Len(emitted') = Len(emitted) + 1 /\ expired' = expired
       /\ \/ \A i, e : Waits(i, e)' <=> Waits(i, e)
          \/ \E id : \A i, e :
               Waits(i, e)' <=> Waits(i, e) \/ (i = id /\ e = Len(emitted) + 1)
    \/ /\ emitted' = emitted
       /\ \E id \in Ids, n \in Emits :
            /\ Waits(id, n) /\ \A i, e : Waits(i, e)' <=> Waits(i, e) /\ e # n
            /\ \/ expired' = expired \cup {n}
               \/ expired' = expired /\ srvAnswer[n] # 0
    \/ /\ emitted' = emitted /\ expired' = expired
       /\ \A i, e : Waits(i, e)' <=> Waits(i, e)

\* What has been started has been emitted, and what is on its way has not been started.
LEMMA StartedOnce ==
    ASSUME IInv, EmitOrder
    PROVE  /\ \A e \in EmitLog : e \in Nat /\ e <= Len(emitted)
           /\ \A i, e : Has(s2c, EvenEmit, i, e) \/ Has(callbackQueue, EvenEmit, i, e)
                          => e \notin EmitLog
  <1>1. /\ Started(callbackLog) \in Seq(Nat) /\ Len(emitted) \in Nat
        /\ SentUpTo(srvStack, Len(emitted)) <= Len(emitted)
    BY EmitTypes DEF SentUpTo
  <1>2. \A e \in EmitLog : e \in Nat
    BY <1>1, LenProperties, ElementOfSeq DEF EmitLog, Range
  <1>3. /\ \A a \in EmitLog : a <= SentUpTo(srvStack, Len(emitted))
        /\ \A a \in EmitLog :
             \A b \in Numbers(callbackQueue, EvenEmit) \cup Numbers(s2c, EvenEmit) : a < b
    BY DEF EmitOrder, Pipeline, EmitLog
  <1>4. SentUpTo(srvStack, Len(emitted)) \in Nat
    BY EmitTypes
  <1>5. \A a \in EmitLog : a \notin Numbers(callbackQueue, EvenEmit) \cup Numbers(s2c, EvenEmit)
    BY <1>2, <1>3
  <1>6. QED
    BY <1>1, <1>2, <1>3, <1>4, <1>5, NumbersHas

\* What waits, is stored or is the promise in the reader's hands has been emitted.
LEMMA KnownEmitted ==
    ASSUME IInv, EmitOrder, EInv
    PROVE  /\ \A i, e : Waits(i, e) => i \in EvenIds \ {0} /\ e \in Emits
           /\ \A i \in Ids : \A e : Stored(i, e) => e \in Emits /\ i \in EvenIds
           /\ \A e \in Emits : srvAnswer[e] # 0 \/ e = srvPromise => e \in EmitLog
  <1>1. \A i, e : Waits(i, e) => i \in EvenIds \ {0} /\ e \in Emits
    BY DEF Waits, Has, SrvWaiter
  <1>2. \A i \in Ids : \A e : Stored(i, e) => e \in Emits /\ i \in EvenIds
    BY WireAssumption DEF Stored, IInv, MapsTyped, FramesByParity, Emits
  <1>3. ASSUME NEW e \in Emits, e = srvPromise
        PROVE  e \in EmitLog
    <2>1. c2s # <<>> /\ Head(c2s) \in EvenReply /\ Head(c2s).of = e
      BY <1>3, WireAssumption DEF EInv, OwnReply, Emits
    <2>2. Head(c2s).of \in RepliedTo
      BY <2>1, TailNumbers DEF IInv, WireByParity, RepliedTo
    <2>3. QED
      BY <2>1, <2>2 DEF EInv, RunOnce
  <1>4. QED
    BY <1>1, <1>2, <1>3 DEF EInv, RunOnce

\* Where nothing but what is waited for gets on its way, nothing changes.
LEMMA WaitersKept ==
    ASSUME EInv, UNCHANGED clientVars, c2s' = c2s,
           UNCHANGED <<srvRequestId, srvSocketRequest, srvPromise, srvAnswer, emitted, expired>>,
           Once(srvStack', SrvWaiter), \A i, e : Waits(i, e)' <=> Waits(i, e),
           \A i \in Ids, e \in Emits : Due(i, e)' => Due(i, e) \/ Waits(i, e)
    PROVE  EInv' /\ EmissionMove
  <1>1. /\ \A i, e : (Stored(i, e)' <=> Stored(i, e)) /\ (Replied(i, e)' <=> Replied(i, e))
        /\ Running' = Running /\ EmitLog' = EmitLog /\ RepliedTo' = RepliedTo
        /\ cliStack' = cliStack
    BY DEF Stored, Replied, Running, EmitLog, RepliedTo, clientVars
  <1>2. IdsApart'
    <2>1. \A i \in Ids, e \in Emits : Carried(i, e)' => Carried(i, e)
      BY <1>1 DEF Carried
    <2>2. QED
      BY <2>1 DEF EInv, IdsApart
  <1>3. RunOnce' /\ OwnReply'
    BY <1>1 DEF EInv, RunOnce, OwnReply, SrvOwnAnswer
  <1>4. WaitersStored'
    BY <1>1 DEF EInv, WaitersStored
  <1>5. DueWaits'
    BY DEF EInv, DueWaits
  <1>6. FailedDone'
    BY <1>1 DEF EInv, FailedDone, clientVars
  <1>7. QED
    BY <1>2, <1>3, <1>4, <1>5, <1>6 DEF EInv, EmissionMove

\* What the server's stack has when its top, a waiter, is gone.
LEMMA WaiterGoes ==
    ASSUME IInv, EInv, srvStack # <<>>, Head(srvStack).pc \in Blocked, srvStack' = Tail(srvStack)
    PROVE  /\ Once(srvStack', SrvWaiter)
           /\ Waits(Head(srvStack).id, Head(srvStack).of)
           /\ \A i, e : Waits(i, e)' <=> Waits(i, e) /\ e # Head(srvStack).of
           /\ Head(srvStack).of \in Emits /\ Head(srvStack).id \in Ids
  <1>1. srvStack \in Seq(SrvFrameByParity) /\ Once(srvStack, SrvWaiter)
    BY DEF IInv, FramesByParity, EInv, WaitersStored
  <1>2. Head(srvStack) \in SrvWaiter
    <2>1. Head(srvStack) \in SrvFrameByParity /\ Head(srvStack).of \in Emits
      BY <1>1, HeadTailProperties, SrvTop DEF IInv
    <2>2. QED
      BY <2>1 DEF SrvFrameByParity, SrvWaiter, Blocked
  <1>3. \A i, e : Has(srvStack, SrvWaiter, i, e) <=>
                    \/ Has(Tail(srvStack), SrvWaiter, i, e)
                    \/ Head(srvStack).id = i /\ Head(srvStack).of = e
    BY <1>1, <1>2, HasTail
  <1>4. Once(Tail(srvStack), SrvWaiter)
        /\ Head(srvStack).of \notin Numbers(Tail(srvStack), SrvWaiter)
    BY <1>1, <1>2, OnceTail
  <1>5. \A i, e : Has(Tail(srvStack), SrvWaiter, i, e) => e # Head(srvStack).of
    BY <1>4, NumbersHas
  <1>6. Head(srvStack).of \in Emits /\ Head(srvStack).id \in Ids
    BY <1>2 DEF SrvWaiter, EvenIds
  <1>7. ASSUME NEW i, NEW e, Waits(i, e), e # Head(srvStack).of
        PROVE  Waits(i, e)'
    BY <1>3, <1>7 DEF Waits
  <1>8. QED
    BY <1>3, <1>4, <1>5, <1>6, <1>7 DEF Waits

\* Who returns with a reply, or expires, is not looked for any more.
LEMMA WaiterLeaves ==
    ASSUME IInv, EmitOrder, EInv, SrvReturn \/ SrvTimeout, UNCHANGED clientVars
    PROVE  EInv' /\ EmissionMove
  <1>1. /\ srvStack # <<>> /\ Head(srvStack).pc \in Blocked /\ srvStack' = Tail(srvStack)
        /\ UNCHANGED <<srvRequestId, srvPromise, srvAnswer, emitted, c2s, s2c>>
    BY DEF SrvReturn, SrvTimeout, TopIs, Blocked
  <1>2. PICK n \in Emits, id \in Ids :
            /\ n = Head(srvStack).of /\ id = Head(srvStack).id
            /\ Once(srvStack', SrvWaiter) /\ Waits(id, n)
            /\ \A i, e : Waits(i, e)' <=> Waits(i, e) /\ e # n
    BY <1>1, WaiterGoes
  <1>3. /\ \A i, e : (Due(i, e)' <=> Due(i, e)) /\ (Replied(i, e)' <=> Replied(i, e))
        /\ Running' = Running /\ EmitLog' = EmitLog /\ RepliedTo' = RepliedTo
        /\ cliStack' = cliStack
    BY <1>1 DEF Due, Replied, Running, EmitLog, RepliedTo, clientVars
  <1>4. RunOnce' /\ OwnReply'
    BY <1>1, <1>3 DEF EInv, RunOnce, OwnReply, SrvOwnAnswer
  <1>5. CASE SrvReturn
    <2>1. /\ srvAnswer[n] # 0 /\ srvSocketRequest' = srvSocketRequest /\ expired' = expired
      BY <1>2, <1>5 DEF SrvReturn, SrvReady
    <2>2. \A i, e : Stored(i, e)' <=> Stored(i, e)
      BY <2>1 DEF Stored
    <2>3. IdsApart'
      <3>1. \A i \in Ids, e \in Emits : Carried(i, e)' => Carried(i, e)
        BY <1>2, <1>3, <2>2 DEF Carried
      <3>2. QED
        BY <1>1, <3>1 DEF EInv, IdsApart
    <2>4. WaitersStored'
      BY <1>1, <1>2, <2>1, <2>2 DEF EInv, WaitersStored
    <2>5. \A i : ~Due(i, n)
      <3>1. n \in EmitLog /\ n \notin Running
        BY <1>2, <2>1 DEF EInv, RunOnce
      <3>2. \A i : ~Has(cliStack, Callback, i, n)
        BY <3>1, NumbersHas DEF Running
      <3>3. QED
        BY <3>1, <3>2, StartedOnce DEF Due
    <2>6. DueWaits'
      BY <1>2, <1>3, <2>1, <2>5 DEF EInv, DueWaits
    <2>7. FailedDone'
      BY <1>1, <1>2, <1>3, <2>1 DEF EInv, FailedDone, clientVars
    <2>8. QED
      BY <1>1, <1>2, <1>4, <2>1, <2>3, <2>4, <2>6, <2>7 DEF EInv, EmissionMove
  <1>6. CASE SrvTimeout
    <2>1. /\ srvSocketRequest' = [srvSocketRequest EXCEPT ![id] = 0]
          /\ expired' = expired \cup {n} /\ srvSocketRequest \in [Ids -> 0 .. MaxEmits]
      BY <1>2, <1>6 DEF SrvTimeout, IInv, MapsTyped
    <2>2. \A i \in Ids : \A e : Stored(i, e)' <=> Stored(i, e) /\ i # id
      BY <2>1 DEF Stored
    <2>3. IdsApart'
      <3>1. \A i \in Ids, e \in Emits : Carried(i, e)' => Carried(i, e)
        BY <1>2, <1>3, <2>2 DEF Carried
      <3>2. QED
        BY <1>1, <3>1 DEF EInv, IdsApart
    <2>4. \A i \in Ids, e \in Emits : Waits(i, e) => (i = id <=> e = n)
      BY <1>2 DEF EInv, IdsApart, Carried
    <2>5. WaitersStored'
      BY <1>1, <1>2, <2>2, <2>4 DEF EInv, WaitersStored
    <2>6. DueWaits'
      BY <1>2, <1>3, <2>1 DEF EInv, DueWaits
    <2>7. FailedDone'
      <3>1. n <= Len(emitted)
        BY <1>2 DEF EInv, IdsApart, Carried
      <3>2. QED
        BY <1>1, <1>2, <1>3, <2>1, <3>1 DEF EInv, FailedDone, clientVars
    <2>8. QED
      BY <1>1, <1>2, <1>4, <2>1, <2>3, <2>5, <2>6, <2>7 DEF EInv, EmissionMove
  <1>7. QED
    BY <1>5, <1>6

\* The id of an emission is new, if the ids suffice, and so is its entry.
LEMMA EmissionStarts ==
    ASSUME IdsSuffice, IInv, EmitOrder, EInv, NEW f \in Functions, SrvEmitSync(f),
           UNCHANGED clientVars
    PROVE  EInv' /\ EmissionMove
  <1>1. PICK n \in Nat : n = Len(emitted) /\ n < MaxEmits /\ n + 1 \in Emits
    BY EmitTypes, EmitGrows DEF SrvEmitSync, CanEmit
  <1>2. Len(emitted') = n + 1
    BY <1>1, EmitGrows DEF SrvEmitSync
  <1>3. PICK id \in EvenIds \ {0} :
            /\ id = srvRequestId /\ srvRequestId' = id + 2
            /\ srvSocketRequest' =
                 [srvSocketRequest EXCEPT ![id] = IF @ = 0 THEN n + 1 ELSE @]
            /\ srvStack' = Push(Frame("send", id, n + 1), srvStack)
    <2>1. srvRequestId \in EvenIds \ {0} /\ srvRequestId <= 2 * n + 2
      BY <1>1 DEF IInv, FramesByParity, EInv, IdsApart
    <2>2. srvRequestId \in Nat
      BY <2>1, WireAssumption DEF EvenIds, Ids
    <2>3. 2 * n + 2 <= 2 * MaxEmits
      BY <1>1, WireAssumption
    <2>4. srvRequestId < IdLimit - 1
      BY <2>1, <2>2, <2>3, <1>1, WireAssumption DEF IdsSuffice
    <2>5. NextId(srvRequestId, 2) = srvRequestId
      BY <2>2, <2>4, WireAssumption DEF NextId
    <2>6. QED
      BY <1>1, <2>1, <2>5 DEF SrvEmitSync
  <1>4. id \in Ids /\ id \in Nat /\ Ids \subseteq Nat /\ Emits \subseteq Nat
    BY WireAssumption DEF EvenIds, Ids, Emits
  <1>5. \A i \in Ids, e \in Emits : Carried(i, e) => i < id /\ e <= n
    BY <1>1, <1>3 DEF EInv, IdsApart
  <1>6. \A i \in Ids, e \in Emits : Carried(i, e) => i # id /\ e # n + 1
    BY <1>1, <1>4, <1>5
  <1>7. srvSocketRequest \in [Ids -> 0 .. MaxEmits] /\ srvSocketRequest[id] = 0
    <2>1. srvSocketRequest \in [Ids -> 0 .. MaxEmits]
      BY DEF IInv, MapsTyped
    <2>2. ASSUME srvSocketRequest[id] # 0
          PROVE  FALSE
      <3>1. Stored(id, srvSocketRequest[id]) /\ srvSocketRequest[id] \in Emits
        BY <1>4, <2>1, <2>2, WireAssumption DEF Stored, Emits
      <3>2. QED
        BY <1>4, <1>6, <3>1 DEF Carried
    <2>3. QED
      BY <2>1, <2>2
  <1>8. \A i \in Ids, e \in Emits : Stored(i, e)' <=> Stored(i, e) \/ (i = id /\ e = n + 1)
    BY <1>1, <1>3, <1>4, <1>7 DEF Stored
  <1>9. /\ Once(srvStack', SrvWaiter)
        /\ \A i, e : Waits(i, e)' <=> Waits(i, e) \/ (i = id /\ e = n + 1)
    <2>1. PICK F : F = SrvFrameByParity'
      OBVIOUS
    <2>2. srvStack \in Seq(F)
      BY <2>1, EmitGrows DEF SrvEmitSync, IInv, FramesByParity
    <2>3. PICK g \in F :
              /\ srvStack' = Push(g, srvStack) /\ g \in SrvWaiter
              /\ g.id = id /\ g.of = n + 1
      <3>1. n + 1 \in 1 .. Len(emitted')
        BY <1>1, <1>2
      <3>2. /\ Frame("send", id, n + 1) \in F
            /\ Frame("send", id, n + 1) \in SrvWaiter
        BY <1>1, <2>1, <3>1 DEF SrvFrameByParity, SrvWaiter, Frame, Blocked
      <3>3. QED
        BY <1>3, <3>2 DEF Frame
    <2>4. g.of \notin Numbers(srvStack, SrvWaiter)
      <3>1. ASSUME n + 1 \in Numbers(srvStack, SrvWaiter)
            PROVE  \E i \in Ids : Waits(i, n + 1)
        BY <3>1 DEF Numbers, Waits, Has, SrvWaiter, EvenIds
      <3>2. QED
        BY <1>1, <1>6, <2>3, <3>1 DEF Carried
    <2>5. Once(Push(g, srvStack), SrvWaiter)
      BY <2>2, <2>4, OncePush DEF EInv, WaitersStored
    <2>6. \A i, e : Has(Push(g, srvStack), SrvWaiter, i, e) <=>
                      Has(srvStack, SrvWaiter, i, e) \/ (g \in SrvWaiter /\ g.id = i /\ g.of = e)
      BY <2>2, HasPush
    <2>7. QED
      BY <2>3, <2>5, <2>6 DEF Waits
  <1>10. /\ \A i, e : (Due(i, e)' <=> Due(i, e)) /\ (Replied(i, e)' <=> Replied(i, e))
         /\ Running' = Running /\ EmitLog' = EmitLog /\ RepliedTo' = RepliedTo
         /\ cliStack' = cliStack /\ UNCHANGED <<srvPromise, srvAnswer, expired, c2s>>
    BY DEF Due, Replied, Running, EmitLog, RepliedTo, clientVars, SrvEmitSync
  <1>11. \A i \in Ids, e \in Emits : Carried(i, e)' <=> Carried(i, e) \/ (i = id /\ e = n + 1)
    BY <1>8, <1>9, <1>10 DEF Carried
  <1>12. IdsApart'
    <2>1. srvRequestId' <= 2 * Len(emitted') + 2
      BY <1>1, <1>2, <1>3, <1>4 DEF EInv, IdsApart
    <2>2. \A i \in Ids, e \in Emits : Carried(i, e)' => i < srvRequestId' /\ e <= Len(emitted')
      BY <1>1, <1>2, <1>3, <1>4, <1>5, <1>11
    <2>3. \A i, j \in Ids, e, f2 \in Emits :
            Carried(i, e)' /\ Carried(j, f2)' => (i = j <=> e = f2)
      BY <1>6, <1>11 DEF EInv, IdsApart
    <2>4. QED
      BY <2>1, <2>2, <2>3 DEF IdsApart
  <1>13. RunOnce' /\ OwnReply'
    BY <1>10 DEF EInv, RunOnce, OwnReply, SrvOwnAnswer
  <1>14. WaitersStored'
    <2>1. srvAnswer[n + 1] = 0 /\ n + 1 # srvPromise
      <3>1. n + 1 \notin EmitLog
        BY <1>1, StartedOnce
      <3>2. QED
        BY <1>1, <3>1, KnownEmitted
    <2>2. QED
      BY <1>8, <1>9, <1>10, <2>1 DEF EInv, WaitersStored
  <1>15. DueWaits'
    BY <1>9, <1>10 DEF EInv, DueWaits
  <1>16. FailedDone'
    <2>1. \A e \in expired : e \in Nat /\ e <= n
      BY <1>1, <1>4 DEF EInv, FailedDone, IInv, MapsTyped
    <2>2. \A e \in expired : e # n + 1 /\ e <= n + 1
      BY <1>1, <2>1
    <2>3. QED
      BY <1>2, <1>9, <1>10, <2>2 DEF EInv, FailedDone, clientVars
  <1>17. EmissionMove
    <2>1. /\ Len(emitted') = Len(emitted) + 1 /\ expired' = expired
          /\ \A i, e : Waits(i, e)' <=> Waits(i, e) \/ (i = id /\ e = Len(emitted) + 1)
      BY <1>1, <1>2, <1>9, <1>10
    <2>2. QED
      BY <2>1 DEF EmissionMove
  <1>18. QED
    BY <1>12, <1>13, <1>14, <1>15, <1>16, <1>17 DEF EInv

\* An asynchronous emission is waited for by nobody.
LEMMA EmissionSent ==
    ASSUME IInv, EmitOrder, EInv, NEW f \in Functions, SrvEmitAsync(f), UNCHANGED clientVars
    PROVE  EInv' /\ EmissionMove
  <1>1. PICK n \in Nat : n = Len(emitted) /\ n + 1 \in Emits /\ Len(emitted') = n + 1
    BY EmitTypes, EmitGrows DEF SrvEmitAsync
  <1>2. PICK m \in EvenEmit : s2c' = Append(s2c, m) /\ m.id = 0
    <2>1. 0 \in EvenIds
      BY WireAssumption DEF EvenIds, Ids
    <2>2. EmitCallback(0, n + 1, f) \in EvenEmit
      BY <1>1, <2>1 DEF EmitCallback, EvenEmit
    <2>3. QED
      BY <1>1, <2>2 DEF SrvEmitAsync, EmitCallback
  <1>3. s2c \in Seq(OddAnswer \cup EvenAnswer \cup EvenEmit)
    BY DEF IInv, WireByParity
  <1>4. \A i, e : Has(Append(s2c, m), EvenEmit, i, e) <=>
                    Has(s2c, EvenEmit, i, e) \/ (m \in EvenEmit /\ m.id = i /\ m.of = e)
    BY <1>3, HasAppend
  <1>5. /\ \A i, e : (Due(i, e)' <=> Due(i, e)) /\ (Replied(i, e)' <=> Replied(i, e))
                     /\ (Waits(i, e)' <=> Waits(i, e)) /\ (Stored(i, e)' <=> Stored(i, e))
        /\ Running' = Running /\ EmitLog' = EmitLog /\ RepliedTo' = RepliedTo
        /\ UNCHANGED <<cliStack, srvPromise, srvAnswer, expired, c2s, srvStack, srvRequestId>>
    BY <1>2, <1>4
    DEF Due, Replied, Waits, Stored, Running, EmitLog, RepliedTo, clientVars, SrvEmitAsync
  <1>6. IdsApart'
    <2>1. Emits \subseteq Nat /\ srvRequestId \in Nat
      BY WireAssumption DEF Emits, IInv, FramesByParity, EvenIds, Ids
    <2>2. \A i, e : Carried(i, e)' <=> Carried(i, e)
      BY <1>5 DEF Carried
    <2>3. \A i \in Ids, e \in Emits : Carried(i, e)' => e <= n /\ e \in Nat /\ i < srvRequestId
      BY <1>1, <2>1, <2>2 DEF EInv, IdsApart
    <2>4. \A e \in Nat : e <= n => e <= n + 1
      BY <1>1
    <2>5. srvRequestId <= 2 * Len(emitted') + 2
      BY <1>1, <2>1 DEF EInv, IdsApart
    <2>6. QED
      BY <1>1, <1>5, <2>2, <2>3, <2>4, <2>5 DEF EInv, IdsApart
  <1>7. RunOnce' /\ OwnReply' /\ WaitersStored' /\ DueWaits'
    BY <1>5 DEF EInv, RunOnce, OwnReply, SrvOwnAnswer, WaitersStored, DueWaits
  <1>8. FailedDone'
    <2>1. \A e \in expired : e \in Nat /\ e <= n
      BY <1>1, WireAssumption DEF EInv, FailedDone, IInv, MapsTyped, Emits
    <2>2. \A e \in expired : e <= n + 1
      BY <1>1, <2>1
    <2>3. QED
      BY <1>1, <1>5, <2>2 DEF EInv, FailedDone, clientVars
  <1>9. QED
    BY <1>1, <1>5, <1>6, <1>7, <1>8 DEF EInv, EmissionMove

\* The reader takes the promise of the very emission that is replied to.
LEMMA ReplyRead ==
    ASSUME IInv, EmitOrder, EInv, SrvReader, UNCHANGED clientVars
    PROVE  EInv' /\ EmissionMove
  <1>1. /\ UNCHANGED <<srvRequestId, srvStack, emitted, expired, s2c>>
        /\ c2s \in Seq(OddRequest \cup EvenReply)
        /\ srvSocketRequest \in [Ids -> 0 .. MaxEmits]
    BY DEF SrvReader, SrvRecvReply, SrvSetValue, SrvRecvMessage, IInv, MapsTyped, WireByParity
  <1>2. /\ \A i, e : (Due(i, e)' <=> Due(i, e)) /\ (Waits(i, e)' <=> Waits(i, e))
        /\ Running' = Running /\ EmitLog' = EmitLog /\ cliStack' = cliStack
    BY <1>1 DEF Due, Waits, Running, EmitLog, clientVars
  <1>3. DueWaits'
    BY <1>1, <1>2 DEF EInv, DueWaits
  <1>4. ASSUME \A i \in Ids, e \in Emits : Replied(i, e)' => Replied(i, e),
               \A i \in Ids, e \in Emits : Stored(i, e)' => Stored(i, e)
        PROVE  IdsApart'
    <2>1. \A i \in Ids, e \in Emits : Carried(i, e)' => Carried(i, e)
      BY <1>2, <1>4 DEF Carried
    <2>2. QED
      BY <1>1, <2>1 DEF EInv, IdsApart
  <1>5. ASSUME c2s # <<>>, c2s' = Tail(c2s)
        PROVE  /\ \A i, e : Replied(i, e)' => Replied(i, e)
               /\ \A e : e \in RepliedTo' => e \in RepliedTo
               /\ Head(c2s) \in EvenReply => Head(c2s).of \in RepliedTo
    BY <1>1, <1>5, HasTail, TailNumbers DEF Replied, RepliedTo
  <1>6. EmissionMove
    BY <1>1, <1>2 DEF EmissionMove
  <1>7. CASE SrvRecvReply
    <2>1. PICK m \in EvenReply : m = Head(c2s) /\ srvSocketRequest[m.id] # 0
      <3>1. /\ Head(c2s) \in OddRequest \cup EvenReply /\ Head(c2s).id \in Ids
            /\ srvSocketRequest[Head(c2s).id] # 0
        BY <1>1, <1>7, ToServerHead DEF SrvRecvReply, SrvTakesForReply
      <3>2. Head(c2s).id \in EvenIds
        BY <3>1 DEF IInv, FramesByParity
      <3>3. Head(c2s) \notin OddRequest
        BY <3>2, ParityDisjoint DEF OddRequest
      <3>4. QED
        BY <3>1, <3>3
    <2>2. PICK id \in Ids, v \in Emits : id = m.id /\ v = srvSocketRequest[id] /\ Stored(id, v)
      <3>1. m.id \in Ids
        BY DEF EvenReply, EvenIds
      <3>2. srvSocketRequest[m.id] \in Emits
        BY <1>1, <2>1, <3>1, WireAssumption DEF Emits
      <3>3. QED
        BY <2>1, <3>1, <3>2 DEF Stored
    <2>3. /\ srvPromise = 0 /\ srvPromise' = v /\ c2s # <<>>
          /\ srvSocketRequest' = [srvSocketRequest EXCEPT ![id] = 0]
          /\ UNCHANGED <<c2s, srvAnswer>>
      BY <1>7, <2>1, <2>2 DEF SrvRecvReply
    <2>4. m.of = v
      <3>1. Replied(id, m.of) /\ m.of \in Emits
        BY <1>1, <2>1, <2>2, <2>3, HasTail DEF Replied, EvenReply
      <3>2. QED
        BY <2>2, <3>1 DEF EInv, IdsApart, Carried
    <2>5. \A i \in Ids : \A e : Stored(i, e)' <=> Stored(i, e) /\ i # id
      BY <1>1, <2>3 DEF Stored
    <2>6. \A i, e : Replied(i, e)' <=> Replied(i, e)
      BY <2>3 DEF Replied
    <2>7. IdsApart'
      BY <1>4, <2>5, <2>6
    <2>8. RunOnce'
      <3>1. RepliedTo' = RepliedTo
        BY <2>3 DEF RepliedTo
      <3>2. QED
        BY <1>2, <2>3, <3>1 DEF EInv, RunOnce
    <2>9. OwnReply'
      BY <2>1, <2>3, <2>4 DEF EInv, OwnReply, SrvOwnAnswer
    <2>10. WaitersStored'
      <3>1. Once(srvStack', SrvWaiter)
        BY <1>1 DEF EInv, WaitersStored
      <3>2. \A i \in Ids, e \in Emits : Stored(i, e) => (i = id <=> e = v)
        BY <2>2 DEF EInv, IdsApart, Carried
      <3>3. ASSUME NEW i \in Ids, NEW e \in Emits, Stored(i, e)'
            PROVE  Waits(i, e)' /\ srvAnswer'[e] = 0 /\ e # srvPromise'
        BY <1>2, <2>3, <2>5, <3>2, <3>3 DEF EInv, WaitersStored
      <3>4. ASSUME NEW i \in Ids, NEW e \in Emits, Waits(i, e)'
            PROVE  Stored(i, e)' \/ e = srvPromise' \/ srvAnswer'[e] # 0
        <4>1. e # 0
          BY WireAssumption DEF Emits
        <4>2. QED
          BY <1>2, <2>3, <2>5, <3>2, <3>4, <4>1 DEF EInv, WaitersStored
      <3>5. QED
        BY <3>1, <3>3, <3>4 DEF WaitersStored
    <2>11. FailedDone'
      <3>1. RepliedTo' = RepliedTo
        BY <2>3 DEF RepliedTo
      <3>2. QED
        BY <1>1, <1>2, <2>3, <3>1 DEF EInv, FailedDone, clientVars
    <2>12. QED
      BY <1>3, <1>6, <2>7, <2>8, <2>9, <2>10, <2>11 DEF EInv
  <1>8. CASE SrvSetValue
    <2>1. PICK p \in Emits : p = srvPromise
      BY <1>8, WireAssumption DEF SrvSetValue, IInv, MapsTyped, Emits
    <2>2. /\ c2s # <<>> /\ c2s' = Tail(c2s) /\ srvSocketRequest' = srvSocketRequest
          /\ Head(c2s) \in EvenReply /\ Head(c2s).of = p /\ srvPromise' = 0
          /\ srvAnswer' = [srvAnswer EXCEPT ![p] = p] /\ srvAnswer \in [Emits -> 0 .. MaxEmits]
      BY <1>8, <2>1 DEF SrvSetValue, EInv, OwnReply, IInv, MapsTyped
    <2>3. p \in RepliedTo /\ p \in EmitLog /\ p \notin Running
      BY <1>5, <2>2 DEF EInv, RunOnce
    <2>4. \A i, e : Stored(i, e)' <=> Stored(i, e)
      BY <2>2 DEF Stored
    <2>5. IdsApart'
      BY <1>4, <1>5, <2>2, <2>4
    <2>6. \A e \in Emits : srvAnswer'[e] = IF e = p THEN p ELSE srvAnswer[e]
      BY <2>2
    <2>7. \A e \in Running : e \in Emits
      BY DEF Running, Numbers, Callback
    <2>8. RunOnce'
      <3>1. \A e \in Running' : e \in EmitLog' /\ srvAnswer'[e] = 0 /\ e \notin RepliedTo'
        BY <1>2, <1>5, <2>2, <2>3, <2>6, <2>7 DEF EInv, RunOnce
      <3>2. \A e \in RepliedTo' : e \in EmitLog'
        BY <1>2, <1>5, <2>2 DEF EInv, RunOnce
      <3>3. \A e \in Emits : srvAnswer'[e] # 0 => e \in EmitLog'
        BY <1>2, <2>3, <2>6 DEF EInv, RunOnce
      <3>4. QED
        BY <1>2, <3>1, <3>2, <3>3 DEF EInv, RunOnce
    <2>9. OwnReply'
      BY <2>2, <2>6 DEF EInv, OwnReply, SrvOwnAnswer
    <2>10. WaitersStored'
      <3>1. p # 0 /\ \A e \in Emits : e # 0
        BY WireAssumption DEF Emits
      <3>2. QED
        BY <1>1, <1>2, <2>1, <2>2, <2>4, <2>6, <3>1 DEF EInv, WaitersStored
    <2>11. FailedDone'
      <3>1. p \notin thrown /\ \A e \in thrown : e \in Emits
        BY <2>3 DEF EInv, FailedDone, IInv, MapsTyped
      <3>2. \A e \in thrown : e \in EmitLog' \ (Running' \cup RepliedTo') /\ srvAnswer'[e] = 0
        BY <1>2, <1>5, <2>2, <2>6, <3>1 DEF EInv, FailedDone
      <3>3. QED
        BY <1>1, <1>2, <3>2 DEF EInv, FailedDone, clientVars
    <2>12. QED
      BY <1>3, <1>6, <2>5, <2>8, <2>9, <2>10, <2>11 DEF EInv
  <1>9. CASE SrvRecvMessage
    <2>1. /\ c2s # <<>> /\ c2s' = Tail(c2s) /\ srvPromise = 0
          /\ UNCHANGED <<srvSocketRequest, srvPromise, srvAnswer>>
      BY <1>9 DEF SrvRecvMessage
    <2>2. \A i, e : Stored(i, e)' <=> Stored(i, e)
      BY <2>1 DEF Stored
    <2>3. IdsApart'
      BY <1>4, <1>5, <2>1, <2>2
    <2>4. RunOnce' /\ OwnReply'
      BY <1>2, <1>5, <2>1 DEF EInv, RunOnce, OwnReply, SrvOwnAnswer
    <2>5. WaitersStored'
      BY <1>1, <1>2, <2>1, <2>2 DEF EInv, WaitersStored
    <2>6. FailedDone'
      BY <1>1, <1>2, <1>5, <2>1 DEF EInv, FailedDone, clientVars
    <2>7. QED
      BY <1>3, <1>6, <2>3, <2>4, <2>5, <2>6 DEF EInv
  <1>10. QED
    BY <1>7, <1>8, <1>9 DEF SrvReader

\* So the server keeps what the emissions are promised, as long as its ids suffice.
LEMMA EmissionsServer ==
    ASSUME IdsSuffice, IInv, EmitOrder, EInv, ServerNext, UNCHANGED clientVars
    PROVE  EInv' /\ EmissionMove
  <1>1. /\ srvStack \in Seq(SrvFrameByParity) /\ Once(srvStack, SrvWaiter)
        /\ s2c \in Seq(OddAnswer \cup EvenAnswer \cup EvenEmit)
        /\ callbackQueue' = callbackQueue /\ cliStack' = cliStack
    BY DEF IInv, FramesByParity, WireByParity, EInv, WaitersStored, clientVars
  <1>2. \A i, e : Due(i, e)' <=>
                    i # 0 /\ (Has(s2c', EvenEmit, i, e) \/ Has(callbackQueue, EvenEmit, i, e)
                               \/ Has(cliStack, Callback, i, e))
    BY <1>1 DEF Due
  <1>3. ASSUME srvStack # <<>>, Head(srvStack).pc \in Blocked, NEW pc \in Blocked,
               srvStack' = Goto(pc, srvStack)
        PROVE  /\ Once(srvStack', SrvWaiter) /\ \A i, e : Waits(i, e)' <=> Waits(i, e)
               /\ Head(srvStack) \in SrvWaiter /\ Waits(Head(srvStack).id, Head(srvStack).of)
    <2>1. Frame(pc, Head(srvStack).id, Head(srvStack).of) \in SrvFrameByParity
      BY <1>3, SrvTop DEF IInv, SrvFrameByParity, Frame
    <2>2. Head(srvStack) \in SrvWaiter
      <3>1. Head(srvStack) \in SrvFrameByParity /\ Head(srvStack).of \in Emits
        BY <1>1, <1>3, HeadTailProperties, SrvTop DEF IInv
      <3>2. QED
        BY <1>3, <3>1 DEF SrvFrameByParity, SrvWaiter, Blocked
    <2>3. Frame(pc, Head(srvStack).id, Head(srvStack).of) \in SrvWaiter
      BY <2>2 DEF SrvWaiter, Frame
    <2>4. Once(Goto(pc, srvStack), SrvWaiter)
      BY <1>1, <1>3, <2>1, <2>2, OnceGoto
    <2>5. \A i, e : Has(Goto(pc, srvStack), SrvWaiter, i, e) <=> Has(srvStack, SrvWaiter, i, e)
      BY <1>1, <1>3, <2>1, <2>2, <2>3, HasGoto
    <2>6. Waits(Head(srvStack).id, Head(srvStack).of)
      BY <1>1, <1>3, <2>2, HasTail DEF Waits
    <2>7. QED
      BY <1>3, <2>2, <2>4, <2>5, <2>6 DEF Waits
  <1>4. ASSUME NEW f \in Functions, SrvEmitSync(f) \/ SrvEmitAsync(f)
        PROVE  EInv' /\ EmissionMove
    BY <1>4, EmissionStarts, EmissionSent
  <1>5. CASE SrvSend
    <2>1. /\ srvStack # <<>> /\ Head(srvStack).pc \in Blocked /\ srvStack' = Goto("drain", srvStack)
          /\ "drain" \in Blocked /\ c2s' = c2s
          /\ UNCHANGED <<srvRequestId, srvSocketRequest, srvPromise, srvAnswer, emitted, expired>>
      BY <1>5 DEF SrvSend, TopIs, Blocked
    <2>2. /\ Once(srvStack', SrvWaiter) /\ \A i, e : Waits(i, e)' <=> Waits(i, e)
          /\ Waits(Head(srvStack).id, Head(srvStack).of)
      BY <1>3, <2>1
    <2>3. PICK m \in EvenEmit :
              /\ s2c' = Append(s2c, m)
              /\ m.id = Head(srvStack).id /\ m.of = Head(srvStack).of
      <3>1. /\ Head(srvStack).id \in EvenIds /\ Head(srvStack).of \in Emits
            /\ Head(srvStack).of \in 1 .. Len(emitted)
        BY <2>1, SrvTop DEF IInv, Blocked
      <3>2. emitted[Head(srvStack).of] \in Functions
        BY <3>1, ElementOfSeq DEF IInv, MapsTyped
      <3>3. EmitCallback(Head(srvStack).id, Head(srvStack).of, emitted[Head(srvStack).of])
              \in EvenEmit
        BY <3>1, <3>2 DEF EmitCallback, EvenEmit
      <3>4. QED
        BY <1>5, <3>3 DEF SrvSend, EmitCallback
    <2>4. \A i, e : Has(Append(s2c, m), EvenEmit, i, e) <=>
                      Has(s2c, EvenEmit, i, e) \/ (m \in EvenEmit /\ m.id = i /\ m.of = e)
      BY <1>1, HasAppend
    <2>5. \A i, e : Due(i, e)' => Due(i, e) \/ Waits(i, e)
      BY <1>2, <2>2, <2>3, <2>4 DEF Due
    <2>6. QED
      BY <2>1, <2>2, <2>5, WaitersKept
  <1>6. CASE SrvWait \/ SrvWake
    <2>1. PICK pc \in Blocked :
              /\ srvStack # <<>> /\ Head(srvStack).pc \in Blocked /\ srvStack' = Goto(pc, srvStack)
              /\ c2s' = c2s /\ s2c' = s2c
              /\ UNCHANGED <<srvRequestId, srvSocketRequest, srvPromise, srvAnswer, emitted,
                             expired>>
      BY <1>6 DEF SrvWait, SrvWake, TopIs, Blocked
    <2>2. Once(srvStack', SrvWaiter) /\ \A i, e : Waits(i, e)' <=> Waits(i, e)
      BY <1>3, <2>1
    <2>3. \A i, e : Due(i, e)' => Due(i, e)
      BY <1>2, <2>1 DEF Due
    <2>4. QED
      BY <2>1, <2>2, <2>3, WaitersKept
  <1>7. ASSUME NEW g \in SrvFrameByParity, g.pc = "run", srvStack' = Push(g, srvStack)
        PROVE  Once(srvStack', SrvWaiter) /\ \A i, e : Waits(i, e)' <=> Waits(i, e)
    <2>1. g \notin SrvWaiter
      BY <1>7 DEF SrvWaiter, Blocked
    <2>2. /\ Once(Push(g, srvStack), SrvWaiter)
          /\ \A i, e : Has(Push(g, srvStack), SrvWaiter, i, e) <=>
                         \/ Has(srvStack, SrvWaiter, i, e)
                         \/ g \in SrvWaiter /\ g.id = i /\ g.of = e
      BY <1>1, <2>1, OncePush, HasPush
    <2>3. QED
      BY <1>7, <2>1, <2>2 DEF Waits
  <1>8. CASE SrvPop \/ SrvTsfn
    <2>1. /\ c2s' = c2s /\ s2c' = s2c
          /\ UNCHANGED <<srvRequestId, srvSocketRequest, srvPromise, srvAnswer, emitted, expired>>
      BY <1>8 DEF SrvPop, SrvTsfn
    <2>2. ASSUME srvStack' = srvStack
          PROVE  Once(srvStack', SrvWaiter) /\ \A i, e : Waits(i, e)' <=> Waits(i, e)
      BY <1>1, <2>2 DEF Waits
    <2>3. ASSUME blockQueue # <<>>, HandleMessage
          PROVE  Once(srvStack', SrvWaiter) /\ \A i, e : Waits(i, e)' <=> Waits(i, e)
      <3>1. PICK msg \in OddRequest \cup EvenReply : msg = Head(blockQueue)
        BY <2>3, HeadTailProperties DEF IInv, WireByParity
      <3>2. PICK k : k = IF msg.type = "request" THEN msg.of ELSE 0
        OBVIOUS
      <3>3. srvStack' = Push(Frame("run", msg.id, k), srvStack)
        BY <2>3, <3>1, <3>2 DEF HandleMessage
      <3>4. \/ msg.id \in OddIds /\ k \in Calls
            \/ msg.id \in EvenIds /\ k = 0
        BY <3>1, <3>2 DEF OddRequest, EvenReply
      <3>5. Frame("run", msg.id, k) \in SrvFrameByParity
        BY <3>4 DEF SrvFrameByParity, Frame
      <3>6. Frame("run", msg.id, k).pc = "run"
        BY DEF Frame
      <3>7. QED
        BY <1>7, <3>3, <3>5, <3>6
    <2>4. Once(srvStack', SrvWaiter) /\ \A i, e : Waits(i, e)' <=> Waits(i, e)
      BY <1>8, <2>2, <2>3 DEF SrvPop, SrvTsfn
    <2>5. \A i, e : Due(i, e)' => Due(i, e)
      BY <1>2, <2>1 DEF Due
    <2>6. QED
      BY <2>1, <2>4, <2>5, WaitersKept
  <1>9. CASE SrvReply
    <2>1. /\ srvStack # <<>> /\ Head(srvStack).pc = "run" /\ srvStack' = Tail(srvStack) /\ c2s' = c2s
          /\ UNCHANGED <<srvRequestId, srvSocketRequest, srvPromise, srvAnswer, emitted, expired>>
      BY <1>9 DEF SrvReply, TopIs
    <2>2. PICK m \in OddAnswer \cup EvenAnswer : s2c' = Append(s2c, m)
      <3>1. Response(AsNumber(Head(srvStack).id), Head(srvStack).of) \in OddAnswer \cup EvenAnswer
        BY <2>1, SrvResponse DEF IInv, TopIs
      <3>2. QED
        BY <1>9, <3>1 DEF SrvReply
    <2>3. m \notin EvenEmit
      BY DEF OddAnswer, EvenAnswer, EvenEmit
    <2>4. \A i, e : Has(Append(s2c, m), EvenEmit, i, e) <=>
                      Has(s2c, EvenEmit, i, e) \/ (m \in EvenEmit /\ m.id = i /\ m.of = e)
      BY <1>1, HasAppend
    <2>5. \A i, e : Due(i, e)' => Due(i, e)
      BY <1>2, <2>2, <2>3, <2>4 DEF Due
    <2>6. Head(srvStack) \notin SrvWaiter
      BY <2>1 DEF SrvWaiter, Blocked
    <2>7. /\ Once(Tail(srvStack), SrvWaiter)
          /\ \A i, e : Has(srvStack, SrvWaiter, i, e) <=>
                         \/ Has(Tail(srvStack), SrvWaiter, i, e)
                         \/ Head(srvStack) \in SrvWaiter /\ Head(srvStack).id = i
                              /\ Head(srvStack).of = e
      BY <1>1, <2>1, OnceTail, HasTail
    <2>8. Once(srvStack', SrvWaiter) /\ \A i, e : Waits(i, e)' <=> Waits(i, e)
      BY <2>1, <2>6, <2>7 DEF Waits
    <2>9. QED
      BY <2>1, <2>5, <2>8, WaitersKept
  <1>10. CASE SrvReturn \/ SrvTimeout
    BY <1>10, WaiterLeaves
  <1>11. CASE SrvReader
    BY <1>11, ReplyRead
  <1>12. QED
    BY <1>4, <1>5, <1>6, <1>8, <1>9, <1>10, <1>11 DEF ServerNext, SrvJsStep

-----------------------------------------------------------------------------
(* The client's map and its waiters.                                       *)

\* An activation of the client waits for the answer to call k, whose id is i.
CliWaits(i, k) == Has(cliStack, Waiter, i, k)

\* A call is waited for, has failed or has its answer.
CallsKnown == \A k \in 1 .. calls : k \in Waited \/ k \in cliFailed \/ cliAnswer[k] # 0

\* The map holds the promises of those who wait and have no answer yet, and else only those
\* of calls that have failed.
EntriesFit ==
    /\ \A i \in Ids, k \in Calls : cliSocketRequest[i] = k =>
         /\ k <= calls /\ cliAnswer[k] = 0 /\ k # cliPromise
         /\ k \in cliFailed \/ CliWaits(i, k)
    /\ \A i, j \in Ids, k \in Calls :
         cliSocketRequest[i] = k /\ cliSocketRequest[j] = k => i = j
    /\ \A i \in Ids, k \in Calls : CliWaits(i, k) =>
         cliSocketRequest[i] = k \/ cliPromise = k \/ cliAnswer[k] # 0

\* An answer once there stays.
LEMMA AnswersStay ==
    ASSUME IInv, ClientNext
    PROVE  \A k \in Calls : cliAnswer[k] # 0 => cliAnswer'[k] # 0
  <1>1. CASE CliSetValue
    <2>1. /\ cliAnswer \in [Calls -> 0 .. MaxCalls]
          /\ cliAnswer' = [cliAnswer EXCEPT ![cliPromise] = Head(s2c).of]
      BY <1>1 DEF CliSetValue, IInv, MapsTyped
    <2>2. Head(s2c).of # 0
      BY <1>1, ToClientHead, WireAssumption
      DEF CliSetValue, IInv, ReadersHoldAnswers, Calls
    <2>3. QED
      BY <2>1, <2>2
  <1>2. CASE cliAnswer' = cliAnswer
    BY <1>2
  <1>3. QED
    BY <1>1, <1>2
    DEF ClientNext, CliJsStep, CliReader, CliCall, CliSend, CliPop, CliDrop, CliWait, CliWake,
        CliReturn, CliTimeout, CliCallbackReturn, CliCallbackThrow, CliTsfn, RunCallback,
        CliRecvAnswer, CliRecvEmit, CliRecvDrop

\* No call is forgotten.
LEMMA CallsKnownClient ==
    ASSUME IInv, WaitersOnce, CallsKnown, ClientNext
    PROVE  CallsKnown'
  <1>1. ClientMove
    BY WaitersClient
  <1>2. \A k \in Calls : cliAnswer[k] # 0 => cliAnswer'[k] # 0
    BY AnswersStay
  <1>3. calls \in Nat /\ \A k \in 1 .. calls : k \in Calls
    BY WireAssumption DEF IInv, MapsTyped, Calls
  <1>4. calls' \in {calls, calls + 1}
    BY <1>1 DEF ClientMove
  <1>5. \A k \in 1 .. calls' : k \in 1 .. calls \/ (k = calls + 1 /\ calls' = calls + 1)
    BY <1>3, <1>4
  <1>6. ASSUME NEW k \in 1 .. calls
        PROVE  k \in Waited' \/ k \in cliFailed' \/ cliAnswer'[k] # 0
    <2>1. k \in Waited \/ k \in cliFailed \/ cliAnswer'[k] # 0
      BY <1>2, <1>3 DEF CallsKnown
    <2>2. QED
      BY <1>1, <1>2, <1>3, <2>1 DEF ClientMove
  <1>7. calls' = calls + 1 => calls + 1 \in Waited' \/ calls + 1 \in cliFailed'
    BY <1>1, <1>3 DEF ClientMove
  <1>8. QED
    BY <1>5, <1>6, <1>7 DEF CallsKnown

\* What the client's stack has when its top, a waiter, is gone.
LEMMA CliWaiterGoes ==
    ASSUME NEW s \in Seq(CliFrameByParity), Once(s, Waiter), s # <<>>, Head(s).pc \in Blocked
    PROVE  /\ Head(s).of \in Calls /\ Head(s).id \in Ids
           /\ \A i, k : Has(Tail(s), Waiter, i, k) <=> Has(s, Waiter, i, k) /\ k # Head(s).of
           /\ Has(s, Waiter, Head(s).id, Head(s).of)
  <1>1. Head(s) \in Waiter
    <2>1. Head(s) \in CliFrameByParity
      BY HeadTailProperties
    <2>2. QED
      BY <2>1 DEF CliFrameByParity, Waiter, Blocked
  <1>2. \A i, k : Has(s, Waiter, i, k) <=>
                    Has(Tail(s), Waiter, i, k) \/ (Head(s).id = i /\ Head(s).of = k)
    BY <1>1, HasTail
  <1>3. Head(s).of \notin Numbers(Tail(s), Waiter)
    BY <1>1, OnceTail
  <1>4. \A i, k : Has(Tail(s), Waiter, i, k) => k # Head(s).of
    BY <1>3, NumbersHas
  <1>5. Head(s).of \in Calls /\ Head(s).id \in Ids
    BY <1>1 DEF Waiter, OddIds
  <1>6. ASSUME NEW i, NEW k, Has(s, Waiter, i, k), k # Head(s).of
        PROVE  Has(Tail(s), Waiter, i, k)
    BY <1>2, <1>6
  <1>7. QED
    BY <1>2, <1>4, <1>5, <1>6

\* A waiter leaves with its answer or fails; either way the map keeps fitting.
LEMMA CliWaiterLeaves ==
    ASSUME EntriesFit, NEW n \in Calls,
           \A i, k : CliWaits(i, k)' <=> CliWaits(i, k) /\ k # n,
           \/ cliFailed' = cliFailed \cup {n}
           \/ cliFailed' = cliFailed /\ cliAnswer[n] # 0,
           UNCHANGED <<cliSocketRequest, cliAnswer, cliPromise, calls>>
    PROVE  EntriesFit'
  BY DEF EntriesFit

\* No message and no waiter is touched, nor the map.
LEMMA EntriesStay ==
    ASSUME EntriesFit, \A i, k : CliWaits(i, k)' <=> CliWaits(i, k),
           UNCHANGED <<cliSocketRequest, cliAnswer, cliPromise, calls, cliFailed>>
    PROVE  EntriesFit'
  BY DEF EntriesFit

\* An entry is made by a call for itself and taken by the reader for the answer.
LEMMA EntriesFitClient ==
    ASSUME IInv, PInv, EntriesFit, ClientNext
    PROVE  EntriesFit'
  <1>1. /\ cliStack \in Seq(CliFrameByParity) /\ Once(cliStack, Waiter)
        /\ cliSocketRequest \in [Ids -> 0 .. MaxCalls] /\ cliAnswer \in [Calls -> 0 .. MaxCalls]
        /\ calls \in Nat /\ cliPromise \in 0 .. MaxCalls
        /\ callbackQueue \in Seq(EvenEmit)
    BY WireAssumption
    DEF IInv, MapsTyped, FramesByParity, WireByParity, PInv, WaitersOnce
  <1>2. Calls \subseteq Nat \ {0}
    BY WireAssumption DEF Calls
  <1>3. ASSUME NEW g \in CliFrameByParity, g.pc = "run", cliStack' = Push(g, cliStack)
        PROVE  \A i, k : CliWaits(i, k)' <=> CliWaits(i, k)
    <2>1. g \notin Waiter
      BY <1>3 DEF Waiter, Blocked
    <2>2. \A i, k : Has(Push(g, cliStack), Waiter, i, k) <=>
                      \/ Has(cliStack, Waiter, i, k)
                      \/ g \in Waiter /\ g.id = i /\ g.of = k
      BY <1>1, HasPush
    <2>3. QED
      BY <1>3, <2>1, <2>2 DEF CliWaits
  <1>4. ASSUME cliStack' = cliStack
        PROVE  \A i, k : CliWaits(i, k)' <=> CliWaits(i, k)
    BY <1>4 DEF CliWaits
  <1>5. CASE CliCall
    <2>1. /\ calls' = calls + 1 /\ UNCHANGED <<cliAnswer, cliPromise>>
          /\ calls + 1 \in Calls
      BY <1>1, <1>5, WireAssumption DEF CliCall, Calls
    <2>2. PICK id \in OddIds :
              \/ /\ cliSocketRequest[id] = 0
                 /\ cliSocketRequest' = [cliSocketRequest EXCEPT ![id] = calls + 1]
                 /\ cliStack' = Push(Frame("send", id, calls + 1), cliStack)
                 /\ cliFailed' = cliFailed
              \/ /\ UNCHANGED <<cliSocketRequest, cliStack>>
                 /\ cliFailed' = cliFailed \cup {calls + 1}
      BY <1>5, NextIdParity DEF CliCall, Registered, IInv, FramesByParity
    <2>3. id \in Ids
      BY DEF OddIds
    <2>4. \A k \in Calls : k <= calls => k <= calls + 1 /\ k # calls + 1
      BY <1>1, <1>2
    <2>5. CASE UNCHANGED <<cliSocketRequest, cliStack>> /\ cliFailed' = cliFailed \cup {calls + 1}
      <3>1. \A i, k : CliWaits(i, k)' <=> CliWaits(i, k)
        BY <1>4, <2>5
      <3>2. QED
        BY <2>1, <2>4, <2>5, <3>1 DEF EntriesFit
    <2>6. CASE /\ cliSocketRequest[id] = 0
               /\ cliSocketRequest' = [cliSocketRequest EXCEPT ![id] = calls + 1]
               /\ cliStack' = Push(Frame("send", id, calls + 1), cliStack)
               /\ cliFailed' = cliFailed
      <3>1. \A i, k : CliWaits(i, k)' <=> CliWaits(i, k) \/ (i = id /\ k = calls + 1)
        <4>1. PICK g \in CliFrameByParity :
                  /\ g = Frame("send", id, calls + 1) /\ g \in Waiter
                  /\ g.id = id /\ g.of = calls + 1
          <5>1. /\ Frame("send", id, calls + 1) \in CliFrameByParity
                /\ Frame("send", id, calls + 1) \in Waiter
            BY <2>1 DEF CliFrameByParity, Waiter, Frame, Blocked
          <5>2. QED
            BY <5>1 DEF Frame
        <4>2. \A i, k : Has(Push(g, cliStack), Waiter, i, k) <=>
                          \/ Has(cliStack, Waiter, i, k)
                          \/ g \in Waiter /\ g.id = i /\ g.of = k
          BY <1>1, HasPush
        <4>3. QED
          BY <2>6, <4>1, <4>2 DEF CliWaits
      <3>2. \A i \in Ids : cliSocketRequest'[i] =
                             IF i = id THEN calls + 1 ELSE cliSocketRequest[i]
        BY <1>1, <2>3, <2>6
      <3>3. cliAnswer[calls + 1] = 0 /\ calls + 1 # cliPromise
        <4>1. \A k \in Range(requestLog) : k # calls + 1
          <5>1. /\ \A k \in Range(requestLog) : k <= SentUpTo(cliStack, calls)
                /\ SentUpTo(cliStack, calls) \in Nat /\ requestLog \in Seq(Nat)
            BY CallTypes DEF PInv, CallOrder, Pipeline
          <5>2. \A k \in Range(requestLog) : k \in Nat
            BY <5>1, LenProperties, ElementOfSeq DEF Range
          <5>3. SentUpTo(cliStack, calls) <= calls
            BY <1>1 DEF SentUpTo
          <5>4. QED
            BY <1>1, <5>1, <5>2, <5>3
        <4>2. cliPromise # 0 => cliPromise \in Range(requestLog)
          <5>1. ASSUME cliPromise # 0
                PROVE  cliPromise \in Answered
            BY <5>1, TailNumbers, AnswerOf DEF PInv, OwnAnswer, Answered, IInv, WireByParity
          <5>2. QED
            BY <5>1 DEF PInv, HandledOnce
        <4>3. QED
          BY <1>1, <2>1, <4>1, <4>2 DEF PInv, HandledOnce
      <3>4. \A i \in Ids, k \in Calls : cliSocketRequest[i] = k => k # calls + 1
        BY <2>4 DEF EntriesFit
      <3>5. ASSUME NEW i \in Ids, NEW k \in Calls, cliSocketRequest'[i] = k
            PROVE  /\ k <= calls' /\ cliAnswer'[k] = 0 /\ k # cliPromise'
                   /\ k \in cliFailed' \/ CliWaits(i, k)'
        <4>1. CASE i = id
          BY <1>1, <2>1, <3>1, <3>2, <3>3, <3>5, <4>1
        <4>2. CASE i # id
          BY <2>1, <2>4, <2>6, <3>1, <3>2, <3>5, <4>2 DEF EntriesFit
        <4>3. QED
          BY <4>1, <4>2
      <3>6. \A i, j \in Ids, k \in Calls :
              cliSocketRequest'[i] = k /\ cliSocketRequest'[j] = k => i = j
        BY <3>2, <3>4 DEF EntriesFit
      <3>7. \A i \in Ids, k \in Calls : CliWaits(i, k)' =>
              cliSocketRequest'[i] = k \/ cliPromise' = k \/ cliAnswer'[k] # 0
        <4>1. \A i \in Ids, k \in Calls : cliSocketRequest[i] = k => i # id
          BY <1>2, <2>6
        <4>2. QED
          BY <2>1, <3>1, <3>2, <4>1 DEF EntriesFit
      <3>8. QED
        BY <3>5, <3>6, <3>7 DEF EntriesFit
    <2>7. QED
      BY <2>2, <2>5, <2>6
  <1>6. CASE CliSend \/ CliWait \/ CliWake
    <2>1. PICK pc \in Blocked :
              /\ cliStack # <<>> /\ Head(cliStack).pc \in Blocked
              /\ cliStack' = Goto(pc, cliStack)
              /\ UNCHANGED <<cliSocketRequest, cliAnswer, cliPromise, calls, cliFailed>>
      BY <1>6 DEF CliSend, CliWait, CliWake, TopIs, Blocked
    <2>2. Head(cliStack) \in Waiter
      <3>1. Head(cliStack) \in CliFrameByParity
        BY <1>1, <2>1, HeadTailProperties
      <3>2. QED
        BY <2>1, <3>1 DEF CliFrameByParity, Waiter, Blocked
    <2>3. /\ Frame(pc, Head(cliStack).id, Head(cliStack).of) \in CliFrameByParity
          /\ Frame(pc, Head(cliStack).id, Head(cliStack).of) \in Waiter
      BY <2>1, <2>2 DEF CliFrameByParity, Waiter, Frame
    <2>4. \A i, k : Has(Goto(pc, cliStack), Waiter, i, k) <=> Has(cliStack, Waiter, i, k)
      BY <1>1, <2>1, <2>2, <2>3, HasGoto
    <2>5. \A i, k : CliWaits(i, k)' <=> CliWaits(i, k)
      BY <2>1, <2>4 DEF CliWaits
    <2>6. QED
      BY <2>1, <2>5, EntriesStay
  <1>7. CASE CliPop \/ \E f \in Functions : CliTsfn(f)
    <2>1. UNCHANGED <<cliSocketRequest, cliAnswer, cliPromise, calls, cliFailed>>
      BY <1>7 DEF CliPop, CliTsfn
    <2>2. cliStack' = cliStack \/ \E g \in CliFrameByParity :
                                    g.pc = "run" /\ cliStack' = Push(g, cliStack)
      <3>1. ASSUME NEW f, callbackQueue # <<>>, RunCallback(f)
            PROVE  \E g \in CliFrameByParity : g.pc = "run" /\ cliStack' = Push(g, cliStack)
        <4>1. PICK e \in EvenEmit : e = Head(callbackQueue)
          BY <1>1, <3>1, HeadTailProperties
        <4>2. cliStack' = Push(Frame("run", e.id, e.of), cliStack)
          BY <3>1, <4>1 DEF RunCallback
        <4>3. Frame("run", e.id, e.of) \in CliFrameByParity
          BY DEF CliFrameByParity, Frame, EvenEmit
        <4>4. Frame("run", e.id, e.of).pc = "run"
          BY DEF Frame
        <4>5. QED
          BY <4>2, <4>3, <4>4
      <3>2. QED
        BY <1>7, <3>1 DEF CliPop, CliTsfn
    <2>3. QED
      BY <1>3, <1>4, <2>1, <2>2, EntriesStay
  <1>8. CASE CliReturn \/ CliTimeout
    <2>1. /\ cliStack # <<>> /\ Head(cliStack).pc \in Blocked /\ cliStack' = Tail(cliStack)
          /\ \/ cliFailed' = cliFailed \cup {Head(cliStack).of}
             \/ cliFailed' = cliFailed /\ cliAnswer[Head(cliStack).of] # 0
          /\ UNCHANGED <<cliSocketRequest, cliAnswer, cliPromise, calls>>
      BY <1>8 DEF CliReturn, CliTimeout, TopIs, Blocked, CliReady
    <2>2. /\ Head(cliStack).of \in Calls
          /\ \A i, k : CliWaits(i, k)' <=> CliWaits(i, k) /\ k # Head(cliStack).of
      BY <1>1, <2>1, CliWaiterGoes DEF CliWaits
    <2>3. QED
      BY <2>1, <2>2, CliWaiterLeaves
  <1>9. CASE CliCallbackReturn \/ CliCallbackThrow
    <2>1. /\ cliStack # <<>> /\ Head(cliStack).pc = "run"
          /\ UNCHANGED <<cliSocketRequest, cliAnswer, cliPromise, calls>>
      BY <1>9 DEF CliCallbackReturn, CliCallbackThrow, TopIs
    <2>2. Head(cliStack) \notin Waiter
      BY <2>1 DEF Waiter, Blocked
    <2>3. PICK t \in Seq(CliFrameByParity) :
              /\ t = Tail(cliStack) /\ Once(t, Waiter)
              /\ \A i, k : Has(t, Waiter, i, k) <=> CliWaits(i, k)
      BY <1>1, <2>1, <2>2, HeadTailProperties, OnceTail, HasTail DEF CliWaits
    <2>4. CASE cliStack' = t /\ cliFailed' = cliFailed
      <3>1. \A i, k : CliWaits(i, k)' <=> CliWaits(i, k)
        BY <2>3, <2>4 DEF CliWaits
      <3>2. QED
        BY <2>1, <2>4, <3>1, EntriesStay
    <2>5. CASE t # <<>> /\ cliStack' = Tail(t) /\ cliFailed' = cliFailed \cup {Head(t).of}
      <3>1. Head(t).pc \in Blocked
        <4>1. /\ Len(t) \in Nat \ {0} /\ Len(t) = Len(cliStack) - 1
              /\ Head(t) = t[1] /\ t[1] = cliStack[1 + 1]
          BY <1>1, <2>1, <2>3, <2>5, HeadTailProperties, LenProperties, EmptySeq
        <4>2. cliStack[1].pc = "run" /\ 1 \in 1 .. Len(cliStack) - 1
          BY <2>1, <4>1, CliTop DEF IInv
        <4>3. QED
          BY <4>1, <4>2 DEF IInv, FramesByParity, RunsOnBlocked
      <3>2. /\ Head(t).of \in Calls
            /\ \A i, k : Has(Tail(t), Waiter, i, k) <=> Has(t, Waiter, i, k) /\ k # Head(t).of
        BY <2>3, <2>5, <3>1, CliWaiterGoes
      <3>3. \A i, k : CliWaits(i, k)' <=> CliWaits(i, k) /\ k # Head(t).of
        BY <2>3, <2>5, <3>2 DEF CliWaits
      <3>4. QED
        BY <2>1, <2>5, <3>2, <3>3, CliWaiterLeaves
    <2>6. QED
      <3>1. CASE CliCallbackReturn
        BY <2>3, <2>4, <3>1 DEF CliCallbackReturn
      <3>2. CASE CliCallbackThrow
        BY <2>3, <2>4, <2>5, <3>2 DEF CliCallbackThrow
      <3>3. QED
        BY <1>9, <3>1, <3>2
  <1>10. CASE CliRecvAnswer
    <2>1. PICK id \in Ids, v \in Calls :
              /\ v = cliSocketRequest[id] /\ cliPromise = 0 /\ cliPromise' = v
              /\ cliSocketRequest' = [cliSocketRequest EXCEPT ![id] = 0]
              /\ UNCHANGED <<cliStack, cliAnswer, calls, cliFailed>>
      <3>1. Head(s2c).id \in Ids
        BY <1>10, ToClientHead DEF CliRecvAnswer, IInv
      <3>2. cliSocketRequest[Head(s2c).id] \in Calls
        BY <1>1, <1>10, <3>1, WireAssumption DEF CliRecvAnswer, Calls
      <3>3. QED
        BY <1>10, <3>1, <3>2 DEF CliRecvAnswer
    <2>2. \A i, k : CliWaits(i, k)' <=> CliWaits(i, k)
      BY <1>4, <2>1
    <2>3. \A i \in Ids : cliSocketRequest'[i] = IF i = id THEN 0 ELSE cliSocketRequest[i]
      BY <1>1, <2>1
    <2>4. \A i \in Ids, k \in Calls : cliSocketRequest[i] = k => (i = id <=> k = v)
      BY <2>1 DEF EntriesFit
    <2>5. \A i \in Ids, k \in Calls : cliSocketRequest'[i] = k =>
            cliSocketRequest[i] = k /\ i # id /\ k # v
      BY <1>2, <2>3, <2>4
    <2>6. \A i \in Ids, k \in Calls : CliWaits(i, k)' =>
            cliSocketRequest'[i] = k \/ cliPromise' = k \/ cliAnswer'[k] # 0
      BY <1>2, <2>1, <2>2, <2>3, <2>4 DEF EntriesFit
    <2>7. QED
      BY <2>1, <2>2, <2>5, <2>6 DEF EntriesFit
  <1>11. CASE CliSetValue
    <2>1. PICK p \in Calls :
              /\ p = cliPromise /\ cliPromise' = 0
              /\ cliAnswer' = [cliAnswer EXCEPT ![p] = Head(s2c).of]
              /\ UNCHANGED <<cliStack, cliSocketRequest, calls, cliFailed>>
      <3>1. cliPromise \in Calls
        BY <1>1, <1>11, WireAssumption DEF CliSetValue, Calls
      <3>2. QED
        BY <1>11, <3>1 DEF CliSetValue
    <2>2. Head(s2c).of # 0
      BY <1>2, <2>1 DEF PInv, OwnAnswer
    <2>3. \A i, k : CliWaits(i, k)' <=> CliWaits(i, k)
      BY <1>4, <2>1
    <2>4. \A k \in Calls : cliAnswer'[k] = IF k = p THEN Head(s2c).of ELSE cliAnswer[k]
      BY <1>1, <2>1
    <2>5. QED
      BY <1>2, <2>1, <2>2, <2>3, <2>4 DEF EntriesFit
  <1>12. CASE CliDrop \/ CliRecvEmit \/ CliRecvDrop
    <2>1. UNCHANGED <<cliStack, cliSocketRequest, cliAnswer, cliPromise, calls, cliFailed>>
      BY <1>12 DEF CliDrop, CliRecvEmit, CliRecvDrop
    <2>2. QED
      BY <1>4, <2>1, EntriesStay
  <1>13. QED
    BY <1>5, <1>6, <1>7, <1>8, <1>9, <1>10, <1>11, <1>12 DEF ClientNext, CliJsStep, CliReader

-----------------------------------------------------------------------------
(* The invariants hold.                                                    *)

CallInv == CallsKnown /\ EntriesFit

\* They hold initially.
LEMMA InitEmissions == Init => EInv /\ CallInv
  <1>1. SUFFICES ASSUME Init PROVE EInv /\ CallInv
    OBVIOUS
  <1>2. /\ c2s = <<>> /\ s2c = <<>> /\ callbackQueue = <<>> /\ cliStack = <<>> /\ srvStack = <<>>
        /\ callbackLog = <<>> /\ emitted = <<>> /\ thrown = {} /\ expired = {} /\ cliFailed = {}
        /\ srvRequestId = 2 /\ srvPromise = 0 /\ calls = 0 /\ cliPromise = 0
        /\ srvSocketRequest = [id \in Ids |-> 0] /\ srvAnswer = [e \in Emits |-> 0]
        /\ cliSocketRequest = [id \in Ids |-> 0] /\ cliAnswer = [k \in Calls |-> 0]
    BY <1>1 DEF Init, ClientInit, ServerInit
  <1>3. /\ \A S : Numbers(<<>>, S) = {} /\ Once(<<>>, S)
        /\ \A S, i, e : ~Has(<<>>, S, i, e)
    <2>1. Range(<<>>) = {} /\ DOMAIN <<>> = {}
      BY DEF Range
    <2>2. QED
      BY <2>1 DEF Numbers, Once, Has
  <1>4. \A i \in Ids, e \in Emits : ~Carried(i, e)
    BY <1>2, <1>3 DEF Carried, Due, Replied, Waits, Stored
  <1>5. IdsApart
    BY <1>2, <1>4 DEF IdsApart
  <1>6. RunOnce /\ OwnReply /\ DueWaits /\ FailedDone
    BY <1>2, <1>3, <1>4
    DEF RunOnce, OwnReply, SrvOwnAnswer, DueWaits, FailedDone, Running, RepliedTo, Carried
  <1>7. WaitersStored
    BY <1>2, <1>3, <1>4 DEF WaitersStored, Carried
  <1>8. CallInv
    <2>1. \A k \in Calls : k # 0
      BY WireAssumption DEF Calls
    <2>2. QED
      BY <1>2, <1>3, <2>1 DEF CallInv, CallsKnown, EntriesFit, CliWaits
  <1>9. QED
    BY <1>5, <1>6, <1>7, <1>8 DEF EInv

\* Every step keeps what the client's map is for.
LEMMA NextCallInv == IInv /\ PInv /\ CallInv /\ [Next]_vars => CallInv'
  <1>1. SUFFICES ASSUME IInv, PInv, CallInv, [Next]_vars PROVE CallInv'
    OBVIOUS
  <1>2. CASE ClientNext
    BY <1>1, <1>2, CallsKnownClient, EntriesFitClient DEF CallInv, PInv
  <1>3. CASE UNCHANGED clientVars
    BY <1>1, <1>3
    DEF CallInv, CallsKnown, EntriesFit, Waited, CliWaits, clientVars
  <1>4. QED
    BY <1>1, <1>2, <1>3 DEF Next, vars

\* Every step keeps what the emissions are promised, as long as the ids suffice.
LEMMA NextEInv ==
    ASSUME IdsSuffice
    PROVE  IInv /\ PInv /\ EInv /\ [Next]_vars => EInv'
  <1>1. SUFFICES ASSUME IInv, PInv, EInv, [Next]_vars PROVE EInv'
    OBVIOUS
  <1>2. EmitOrder /\ RunOnce
    BY <1>1 DEF PInv, EInv
  <1>3. CASE ClientNext /\ UNCHANGED serverVars
    BY <1>1, <1>2, <1>3, CarriedByClient, EmissionsClient
  <1>4. CASE ServerNext /\ UNCHANGED clientVars
    BY <1>1, <1>2, <1>4, EmissionsServer
  <1>5. CASE UNCHANGED vars
    <2>1. /\ UNCHANGED <<srvRequestId, srvSocketRequest, srvPromise, srvAnswer, emitted, expired>>
          /\ UNCHANGED clientVars /\ c2s' = c2s /\ s2c' = s2c /\ srvStack' = srvStack
          /\ callbackQueue' = callbackQueue /\ cliStack' = cliStack
      BY <1>5 DEF vars, wireVars, serverVars, clientVars
    <2>2. Once(srvStack', SrvWaiter) /\ \A i, e : Waits(i, e)' <=> Waits(i, e)
      BY <1>1, <2>1 DEF EInv, WaitersStored, Waits
    <2>3. \A i, e : Due(i, e)' => Due(i, e)
      BY <2>1 DEF Due
    <2>4. QED
      BY <1>1, <2>1, <2>2, <2>3, WaitersKept
  <1>6. QED
    BY <1>1, <1>3, <1>4, <1>5 DEF Next

\* The invariants of the calls hold, however often the ids come round.
THEOREM CallInvariance == Spec => [](IInv /\ PInv /\ CallInv)
  <1>1. Init => CallInv
    BY InitEmissions
  <1>2. QED
    BY <1>1, NextCallInv, PromiseInvariance, PTL DEF Spec

\* Those of the emissions hold as long as the server's ids suffice.
THEOREM EmissionInvariance ==
    ASSUME IdsSuffice
    PROVE  Spec => [](IInv /\ PInv /\ CallInv /\ EInv)
  <1>1. Init => EInv
    BY InitEmissions
  <1>2. IInv /\ PInv /\ EInv /\ [Next]_vars => EInv'
    BY NextEInv
  <1>3. QED
    BY <1>1, <1>2, CallInvariance, PTL DEF Spec

\* An emission is answered with the result of that very emission's callback, as long as
\* the server's ids suffice.
THEOREM RepliesAreOwn ==
    ASSUME IdsSuffice
    PROVE  Spec => []SrvOwnAnswer
  <1>1. EInv => SrvOwnAnswer
    BY DEF EInv, OwnReply
  <1>2. QED
    BY <1>1, EmissionInvariance, PTL

\* The frames of a stack that are in any of some pcs are of its range.
LEMMA FramesInRange ==
    ASSUME NEW F, NEW s \in Seq(F), NEW pcs
    PROVE  /\ \A f : f \in FramesOf(s, pcs) <=> f \in Range(s) /\ f.pc \in pcs
           /\ \A f \in Range(s) : f \in F
           /\ \A i \in DOMAIN s : s[i] \in Range(s)
  <1>1. DOMAIN s = 1 .. Len(s) /\ \A i \in 1 .. Len(s) : s[i] \in F
    BY LenProperties, ElementOfSeq
  <1>2. QED
    BY <1>1 DEF FramesOf, Range

\* Who is blocked, in both vocabularies.
LEMMA BlockedWait ==
    ASSUME IInv
    PROVE  /\ \A f \in FramesOf(cliStack, Blocked) :
                f.id \in Ids /\ f.of \in Calls /\ CliWaits(f.id, f.of)
           /\ \A i, k : CliWaits(i, k) =>
                \E f \in FramesOf(cliStack, Blocked) : f.id = i /\ f.of = k
           /\ \A f \in FramesOf(srvStack, Blocked) :
                f.id \in Ids /\ f.of \in Emits /\ Waits(f.id, f.of)
           /\ \A i, e : Waits(i, e) =>
                \E f \in FramesOf(srvStack, Blocked) : f.id = i /\ f.of = e
  <1>1. /\ cliStack \in Seq(CliFrameByParity) /\ srvStack \in Seq(SrvFrameByParity)
        /\ Len(emitted) \in Nat /\ Len(emitted) <= MaxEmits
    BY LenProperties DEF IInv, MapsTyped, FramesByParity
  <1>2. \A f \in CliFrameByParity : f.pc \in Blocked <=> f \in Waiter
    BY DEF CliFrameByParity, Waiter, Blocked
  <1>3. \A f \in SrvFrameByParity : f.pc \in Blocked <=> f \in SrvWaiter
    <2>1. \A e \in 1 .. Len(emitted) : e \in Emits
      BY <1>1, WireAssumption DEF Emits
    <2>2. QED
      BY <2>1 DEF SrvFrameByParity, SrvWaiter, Blocked
  <1>4. \A f : f \in FramesOf(cliStack, Blocked) <=> f \in Range(cliStack) /\ f \in Waiter
    BY <1>1, <1>2, FramesInRange DEF Waiter
  <1>5. \A f : f \in FramesOf(srvStack, Blocked) <=> f \in Range(srvStack) /\ f \in SrvWaiter
    BY <1>1, <1>3, FramesInRange DEF SrvWaiter
  <1>6. /\ \A f \in Waiter : f.id \in Ids /\ f.of \in Calls
        /\ \A f \in SrvWaiter : f.id \in Ids /\ f.of \in Emits
    BY DEF Waiter, SrvWaiter, OddIds, EvenIds
  <1>7. QED
    BY <1>4, <1>5, <1>6 DEF CliWaits, Waits, Has

-----------------------------------------------------------------------------
(* No promise is set twice.                                                *)

\* A promise is in the map under one id, or in the reader's hands, or set, and in one of
\* these places only; those of n calls have been made.
SetOnce(map, promise, answer, n) ==
    /\ \A i \in DOMAIN map : map[i] # 0 =>
         map[i] <= n /\ map[i] # promise /\ answer[map[i]] = 0
    /\ \A i, j \in DOMAIN map : map[i] # 0 /\ map[i] = map[j] => i = j
    /\ \A k \in DOMAIN answer : k = promise \/ answer[k] # 0 => k <= n
    /\ promise # 0 => answer[promise] = 0

\* What either side does to them: a call is made, and its promise stored; an entry is
\* erased; the reader takes a promise from its entry, and sets it.
LEMMA SetOnceKept ==
    ASSUME NEW N \in Nat, NEW I, NEW map \in [I -> 0 .. N], NEW promise \in 0 .. N,
           NEW answer \in [1 .. N -> 0 .. N], NEW n \in Nat, SetOnce(map, promise, answer, n)
    PROVE  /\ SetOnce(map, promise, answer, n + 1)
           /\ n < N => \A id \in I : SetOnce([map EXCEPT ![id] = n + 1], promise, answer, n + 1)
           /\ \A id : SetOnce([map EXCEPT ![id] = 0], promise, answer, n)
           /\ promise = 0 => \A id \in I : SetOnce([map EXCEPT ![id] = 0], map[id], answer, n)
           /\ promise # 0 => \A v : SetOnce(map, 0, [answer EXCEPT ![promise] = v], n)
  <1>1. /\ \A i \in I : map[i] # 0 =>
             map[i] <= n /\ map[i] # promise /\ answer[map[i]] = 0 /\ map[i] \in 1 .. N
        /\ \A i, j \in I : map[i] # 0 /\ map[i] = map[j] => i = j
        /\ \A k \in 1 .. N : k = promise \/ answer[k] # 0 => k <= n
        /\ promise # 0 => answer[promise] = 0 /\ promise \in 1 .. N
    BY DEF SetOnce
  <1>2. \A i \in I : map[i] \in Nat
    OBVIOUS
  <1>3. SetOnce(map, promise, answer, n + 1)
    BY <1>1, <1>2 DEF SetOnce
  <1>4. ASSUME n < N, NEW id \in I
        PROVE  SetOnce([map EXCEPT ![id] = n + 1], promise, answer, n + 1)
    <2>1. n + 1 \in 1 .. N /\ n + 1 # promise /\ answer[n + 1] = 0
      BY <1>1, <1>4
    <2>2. \A i \in I : map[i] # n + 1
      BY <1>1
    <2>3. QED
      BY <1>1, <1>2, <2>1, <2>2 DEF SetOnce
  <1>5. ASSUME NEW id
        PROVE  SetOnce([map EXCEPT ![id] = 0], promise, answer, n)
    BY <1>1 DEF SetOnce
  <1>6. ASSUME promise = 0, NEW id \in I
        PROVE  SetOnce([map EXCEPT ![id] = 0], map[id], answer, n)
    BY <1>1, <1>6 DEF SetOnce
  <1>7. ASSUME promise # 0, NEW v
        PROVE  SetOnce(map, 0, [answer EXCEPT ![promise] = v], n)
    BY <1>1, <1>7 DEF SetOnce
  <1>8. QED
    BY <1>3, <1>4, <1>5, <1>6, <1>7

\* Each step does one of these, or nothing, on either side.
LEMMA SetOnceStep ==
    ASSUME IInv, [Next]_vars,
           SetOnce(cliSocketRequest, cliPromise, cliAnswer, calls),
           SetOnce(srvSocketRequest, srvPromise, srvAnswer, Len(emitted))
    PROVE  /\ SetOnce(cliSocketRequest, cliPromise, cliAnswer, calls)'
           /\ SetOnce(srvSocketRequest, srvPromise, srvAnswer, Len(emitted))'
  <1>1. /\ MaxCalls \in Nat /\ MaxEmits \in Nat /\ calls \in Nat /\ Len(emitted) \in Nat
        /\ cliSocketRequest \in [Ids -> 0 .. MaxCalls]
        /\ srvSocketRequest \in [Ids -> 0 .. MaxEmits]
        /\ cliAnswer \in [1 .. MaxCalls -> 0 .. MaxCalls]
        /\ srvAnswer \in [1 .. MaxEmits -> 0 .. MaxEmits]
        /\ cliPromise \in 0 .. MaxCalls /\ srvPromise \in 0 .. MaxEmits
    BY WireAssumption, LenProperties DEF IInv, MapsTyped, Calls, Emits
  <1>2. CASE ClientNext /\ UNCHANGED serverVars
    <2>1. CASE CliCall
      <3>1. NextId(cliRequestId, 1) \in Ids
        BY NextIdParity DEF IInv, FramesByParity, OddIds
      <3>2. /\ SetOnce(cliSocketRequest, cliPromise, cliAnswer, calls + 1)
            /\ calls < MaxCalls =>
                 SetOnce([cliSocketRequest EXCEPT ![NextId(cliRequestId, 1)] = calls + 1],
                         cliPromise, cliAnswer, calls + 1)
        BY <1>1, <3>1, SetOnceKept
      <3>3. QED
        BY <1>2, <2>1, <3>2 DEF CliCall, serverVars
    <2>2. CASE CliRecvAnswer
      <3>1. Head(s2c).id \in Ids
        BY <2>2, ToClientHead DEF IInv, WireByParity, CliRecvAnswer
      <3>2. QED
        BY <1>1, <1>2, <2>2, <3>1, SetOnceKept DEF CliRecvAnswer, serverVars
    <2>3. CASE CliSetValue
      BY <1>1, <1>2, <2>3, SetOnceKept DEF CliSetValue, serverVars
    <2>4. CASE UNCHANGED <<cliSocketRequest, cliPromise, cliAnswer, calls>>
      BY <1>2, <2>4 DEF serverVars
    <2>5. QED
      BY <1>2, <2>1, <2>2, <2>3, <2>4
      DEF ClientNext, CliJsStep, CliReader, CliSend, CliPop, CliDrop, CliWait, CliWake, CliReturn,
          CliTimeout, CliCallbackReturn, CliCallbackThrow, CliTsfn, CliRecvEmit, CliRecvDrop
  <1>3. CASE ServerNext /\ UNCHANGED clientVars
    <2>1. CASE \E f \in Functions : SrvEmitSync(f) \/ SrvEmitAsync(f)
      <3>1. PICK f \in Functions : SrvEmitSync(f) \/ SrvEmitAsync(f)
        BY <2>1
      <3>2. Len(emitted) < MaxEmits /\ Len(emitted') = Len(emitted) + 1
        BY <3>1, AppendProperties DEF SrvEmitSync, SrvEmitAsync, CanEmit, IInv, MapsTyped
      <3>3. NextId(srvRequestId, 2) \in Ids
        BY NextIdParity DEF IInv, FramesByParity, EvenIds
      <3>4. /\ SetOnce(srvSocketRequest, srvPromise, srvAnswer, Len(emitted) + 1)
            /\ SetOnce([srvSocketRequest EXCEPT ![NextId(srvRequestId, 2)] = Len(emitted) + 1],
                       srvPromise, srvAnswer, Len(emitted) + 1)
        BY <1>1, <3>2, <3>3, SetOnceKept
      <3>5. \/ srvSocketRequest' = srvSocketRequest
            \/ srvSocketRequest' =
                 [srvSocketRequest EXCEPT ![NextId(srvRequestId, 2)] = Len(emitted) + 1]
        BY <1>1, <3>1, <3>3 DEF SrvEmitSync, SrvEmitAsync
      <3>6. srvPromise' = srvPromise /\ srvAnswer' = srvAnswer
        BY <3>1 DEF SrvEmitSync, SrvEmitAsync
      <3>7. QED
        BY <1>3, <3>2, <3>4, <3>5, <3>6 DEF clientVars
    <2>2. CASE SrvTimeout
      BY <1>1, <1>3, <2>2, SetOnceKept DEF SrvTimeout, clientVars
    <2>3. CASE SrvRecvReply
      <3>1. Head(c2s).id \in Ids
        BY <2>3, ToServerHead DEF IInv, WireByParity, SrvRecvReply
      <3>2. QED
        BY <1>1, <1>3, <2>3, <3>1, SetOnceKept DEF SrvRecvReply, clientVars
    <2>4. CASE SrvSetValue
      BY <1>1, <1>3, <2>4, SetOnceKept DEF SrvSetValue, clientVars
    <2>5. CASE UNCHANGED <<srvSocketRequest, srvPromise, srvAnswer, emitted>>
      BY <1>3, <2>5 DEF clientVars
    <2>6. QED
      BY <1>3, <2>1, <2>2, <2>3, <2>4, <2>5
      DEF ServerNext, SrvJsStep, SrvReader, SrvSend, SrvPop, SrvWait, SrvWake, SrvReturn, SrvTsfn,
          SrvReply, SrvRecvMessage
  <1>4. CASE UNCHANGED vars
    BY <1>4 DEF vars, clientVars, serverVars
  <1>5. QED
    BY <1>2, <1>3, <1>4 DEF Next

\* Neither reader thread sets a promise that is set, however often the ids come round and
\* whatever timed out.
THEOREM PromisesSetOnce == Spec => []PromisesOpen
  <1> DEFINE CliOnce == SetOnce(cliSocketRequest, cliPromise, cliAnswer, calls)
             SrvOnce == SetOnce(srvSocketRequest, srvPromise, srvAnswer, Len(emitted))
  <1>1. Init => CliOnce /\ SrvOnce
    BY EmptySeq DEF Init, ClientInit, ServerInit, SetOnce
  <1>2. IInv /\ CliOnce /\ SrvOnce /\ [Next]_vars => CliOnce' /\ SrvOnce'
    BY SetOnceStep
  <1>3. CliOnce /\ SrvOnce => PromisesOpen
    BY DEF SetOnce, PromisesOpen
  <1>4. QED
    BY <1>1, <1>2, <1>3, Invariance, PTL DEF Spec

-----------------------------------------------------------------------------
(* What follows for those who wait.                                        *)

\* socketRequest and those who wait fit each other, on both sides.
THEOREM WaitersRegistered ==
    ASSUME IdsSuffice
    PROVE  Spec => []RegistrationsFitWaiters
  <1>1. IInv /\ CallInv /\ EInv /\ PromisesOpen => RegistrationsFitWaiters
    <2>1. SUFFICES ASSUME IInv, CallInv, EInv, PromisesOpen PROVE RegistrationsFitWaiters
      OBVIOUS
    <2>2. \A f \in FramesOf(cliStack, Blocked) :
            cliSocketRequest[f.id] = f.of \/ cliPromise = f.of \/ cliAnswer[f.of] # 0
      BY <2>1, BlockedWait DEF CallInv, EntriesFit
    <2>3. \A f \in FramesOf(srvStack, Blocked) :
            srvSocketRequest[f.id] = f.of \/ srvPromise = f.of \/ srvAnswer[f.of] # 0
      BY <2>1, BlockedWait DEF EInv, WaitersStored, Stored
    <2>4. \A id \in Ids : srvSocketRequest[id] # 0 =>
            \E f \in FramesOf(srvStack, Blocked) : f.id = id /\ f.of = srvSocketRequest[id]
      <3>1. ASSUME NEW id \in Ids, srvSocketRequest[id] # 0
            PROVE  Waits(id, srvSocketRequest[id])
        <4>1. srvSocketRequest[id] \in Emits
          BY <2>1, <3>1, WireAssumption DEF IInv, MapsTyped, Emits
        <4>2. QED
          BY <2>1, <3>1, <4>1 DEF EInv, WaitersStored, Stored
      <3>2. QED
        BY <2>1, <3>1, BlockedWait
    <2>5. \A id \in Ids : cliSocketRequest[id] # 0 =>
            \/ cliSocketRequest[id] \in cliFailed
            \/ \E f \in FramesOf(cliStack, Blocked) : f.id = id /\ f.of = cliSocketRequest[id]
      <3>1. ASSUME NEW id \in Ids, cliSocketRequest[id] # 0
            PROVE  cliSocketRequest[id] \in cliFailed \/ CliWaits(id, cliSocketRequest[id])
        <4>1. cliSocketRequest[id] \in Calls
          BY <2>1, <3>1, WireAssumption DEF IInv, MapsTyped, Calls
        <4>2. QED
          BY <2>1, <3>1, <4>1 DEF CallInv, EntriesFit
      <3>2. QED
        BY <2>1, <3>1, BlockedWait
    <2>6. QED
      BY <2>1, <2>2, <2>3, <2>4, <2>5 DEF RegistrationsFitWaiters
  <1>2. QED
    BY <1>1, EmissionInvariance, PromisesSetOnce, PTL

\* Nobody works for a caller that has gone on.
THEOREM CallersWait ==
    ASSUME IdsSuffice
    PROVE  Spec => []HandlersHaveCallers
  <1>1. IInv /\ PInv /\ CallInv /\ EInv => HandlersHaveCallers
    <2>1. SUFFICES ASSUME IInv, PInv, CallInv, EInv PROVE HandlersHaveCallers
      OBVIOUS
    <2>2. /\ cliStack \in Seq(CliFrameByParity) /\ srvStack \in Seq(SrvFrameByParity)
      BY <2>1 DEF IInv, FramesByParity
    <2>3. ASSUME NEW i \in DOMAIN srvStack, IsRequestFrame(srvStack[i])
          PROVE  srvStack[i].of \in CliBlockedOn \cup cliFailed
      <3>1. srvStack[i] \in Range(srvStack) /\ srvStack[i] \in SrvFrameByParity
        BY <2>2, <2>3, FramesInRange
      <3>2. srvStack[i] \in Handler
        BY <2>3, <3>1 DEF IsRequestFrame, SrvFrameByParity, Handler, Blocked
      <3>3. srvStack[i].of \in Handled
        BY <3>1, <3>2 DEF Handled, Numbers
      <3>4. PICK k \in Calls : k = srvStack[i].of /\ k \in Range(requestLog) /\ cliAnswer[k] = 0
        BY <2>1, <3>2, <3>3 DEF PInv, HandledOnce, Handler
      <3>5. k \in 1 .. calls
        <4>1. k <= SentUpTo(cliStack, calls) /\ calls \in Nat /\ k \in Nat \ {0}
          BY <2>1, <3>4, CallTypes, WireAssumption DEF PInv, CallOrder, Pipeline, Calls
        <4>2. k <= calls
          BY <4>1 DEF SentUpTo
        <4>3. QED
          BY <4>1, <4>2
      <3>6. k \in Waited \/ k \in cliFailed
        BY <2>1, <3>4, <3>5 DEF CallInv, CallsKnown
      <3>7. CliBlockedOn = Waited
        BY <2>1, CallsOfViews
      <3>8. QED
        BY <3>4, <3>6, <3>7
    <2>4. ASSUME NEW i \in DOMAIN cliStack, cliStack[i].pc = "run", cliStack[i].id > 0
          PROVE  cliStack[i].of \in SrvBlockedOn \cup expired
      <3>1. cliStack[i] \in Range(cliStack) /\ cliStack[i] \in CliFrameByParity
        BY <2>2, <2>4, FramesInRange
      <3>2. cliStack[i] \in Callback
        BY <2>4, <3>1 DEF CliFrameByParity, Callback, Blocked
      <3>3. cliStack[i].id \in Ids /\ cliStack[i].of \in Emits /\ cliStack[i].id # 0
        BY <2>4, <3>2 DEF Callback, EvenIds
      <3>4. Due(cliStack[i].id, cliStack[i].of)
        BY <3>1, <3>2, <3>3 DEF Due, Has
      <3>5. Waits(cliStack[i].id, cliStack[i].of) \/ cliStack[i].of \in expired
        BY <2>1, <3>3, <3>4 DEF EInv, DueWaits
      <3>6. QED
        BY <2>1, <3>5, BlockedWait DEF SrvBlockedOn
    <2>5. QED
      BY <2>3, <2>4 DEF HandlersHaveCallers
  <1>2. QED
    BY <1>1, EmissionInvariance, PTL

-----------------------------------------------------------------------------
(* The emissions refine RemoteCall.                                        *)

\* Whose callbacks are on a client's stack, in both vocabularies.
LEMMA CallbackFrames ==
    ASSUME NEW s \in Seq(CliFrameByParity)
    PROVE  {frame.of : frame \in FramesOf(s, {"run"})} = Numbers(s, Callback)
  <1>1. \A f \in CliFrameByParity : f \in Callback <=> f.pc = "run"
    BY DEF CliFrameByParity, Callback, Blocked
  <1>2. \A f : f \in FramesOf(s, {"run"}) <=> f \in Range(s) \cap Callback
    BY <1>1, FramesInRange
  <1>3. QED
    BY <1>2 DEF Numbers

\* Who is blocked on a server's stack, likewise.
LEMMA WaiterFrames ==
    ASSUME NEW F, NEW s \in Seq(F), \A f \in F : f.pc \in Blocked <=> f \in SrvWaiter
    PROVE  \A e : e \in {frame.of : frame \in FramesOf(s, Blocked)} <=>
                     \E i : Has(s, SrvWaiter, i, e)
  <1>1. \A f : f \in FramesOf(s, Blocked) <=> f \in Range(s) \cap SrvWaiter
    BY FramesInRange DEF SrvWaiter
  <1>2. QED
    BY <1>1 DEF Has

\* The emissions that are waited for, in both vocabularies.
LEMMA EmissionsOfViews ==
    ASSUME IInv
    PROVE  /\ \A e : e \in SrvBlockedOn <=> \E i : Waits(i, e)
           /\ {frame.of : frame \in FramesOf(cliStack, {"run"})} = Running
  <1>1. cliStack \in Seq(CliFrameByParity)
    BY DEF IInv, FramesByParity
  <1>2. QED
    BY <1>1, BlockedWait, CallbackFrames DEF SrvBlockedOn, Running

\* A step of the client starts a callback, ends one, well or not, or changes nothing.
LEMMA CallbacksKeepPromise ==
    ASSUME IInv, PInv, EInv, ClientNext, UNCHANGED serverVars,
           NEW R, R = {frame.of : frame \in FramesOf(cliStack, {"run"})}, R = Running,
           NEW T, T = {frame.of : frame \in FramesOf(cliStack', {"run"})}, T = Running'
    PROVE  EmissionsView!Next \/ UNCHANGED EmissionsView!callVars
  <1>1. CallbackMove
    BY CarriedByClient DEF PInv, EInv, ClientCarries
  <1>2. Len(emitted') = Len(emitted) /\ SrvBlockedOn' = SrvBlockedOn /\ expired' = expired
    BY DEF serverVars, SrvBlockedOn
  <1>3. /\ \A n \in Emits : n <= Len(emitted) => n \in 1 .. Len(emitted)
        /\ \A n \in Running : n \in 1 .. Len(emitted)
    <2>1. Len(emitted) \in Nat /\ \A n \in Emits : n \in Nat /\ 1 <= n
      BY EmitTypes, WireAssumption DEF PInv, Emits
    <2>2. \A n \in Running : n \in Emits /\ n <= Len(emitted)
      BY StartedOnce DEF PInv, EInv, RunOnce, Running, Numbers, Callback
    <2>3. QED
      BY <2>1, <2>2
  <1>4. ASSUME NEW n \in Emits, n <= Len(emitted), \A e \in EmitLog : e < n, thrown' = thrown,
               Started(callbackLog)' = Append(Started(callbackLog), n),
               \A e : e \in Running' <=> e \in Running \/ e = n
        PROVE  EmissionsView!Next
    <2>1. T = R \cup {n}
      BY <1>4
    <2>2. n \in 1 .. Len(emitted)
          /\ \A i \in DOMAIN Started(callbackLog) : Started(callbackLog)[i] < n
      BY <1>3, <1>4 DEF EmitLog, Range
    <2>3. EmissionsView!Start(n)
      BY <1>2, <1>4, <2>1, <2>2 DEF EmissionsView!Start
    <2>4. QED
      BY <2>2, <2>3 DEF EmissionsView!Next
  <1>5. ASSUME NEW n \in Running, Started(callbackLog)' = Started(callbackLog),
               \A e : e \in Running' <=> e \in Running /\ e # n,
               thrown' = thrown \/ thrown' = thrown \cup {n}
        PROVE  EmissionsView!Next
    <2>1. n \in R /\ T = R \ {n}
      BY <1>5
    <2>2. CASE thrown' = thrown
      <3>1. EmissionsView!Finish(n)
        BY <1>2, <1>5, <2>1, <2>2 DEF EmissionsView!Finish
      <3>2. QED
        BY <1>3, <3>1 DEF EmissionsView!Next
    <2>3. CASE thrown' = thrown \cup {n}
      <3>1. thrown' \cup expired' = (thrown \cup expired) \cup {n}
        BY <1>2, <2>3
      <3>2. EmissionsView!Crash(n)
        BY <1>2, <1>5, <2>1, <3>1 DEF EmissionsView!Crash
      <3>3. QED
        BY <1>3, <3>2 DEF EmissionsView!Next
    <2>4. QED
      BY <1>5, <2>2, <2>3
  <1>6. CASE /\ thrown' = thrown /\ Started(callbackLog)' = Started(callbackLog)
             /\ \A e : e \in Running' <=> e \in Running
    <2>1. T = R
      BY <1>6
    <2>2. QED
      BY <1>2, <1>6, <2>1 DEF EmissionsView!callVars
  <1>7. QED
    BY <1>1, <1>4, <1>5, <1>6 DEF CallbackMove

\* A step of the server emits, gives up, returns with a reply, or changes nothing.
LEMMA EngineKeepsPromise ==
    ASSUME IdsSuffice, IInv, PInv, EInv, ServerNext, UNCHANGED clientVars,
           \A e : e \in SrvBlockedOn <=> \E i : Waits(i, e),
           \A e : e \in SrvBlockedOn' <=> \E i : Waits(i, e)'
    PROVE  EmissionsView!Next \/ UNCHANGED EmissionsView!callVars
  <1>1. EmissionMove
    BY EmissionsServer DEF PInv
  <1>2. callbackLog' = callbackLog /\ cliStack' = cliStack /\ thrown' = thrown
    BY DEF clientVars
  <1>3. Started(callbackLog)' = Started(callbackLog)
    BY <1>2
  <1>4. CASE /\ Len(emitted') = Len(emitted) + 1 /\ expired' = expired
             /\ \/ \A i, e : Waits(i, e)' <=> Waits(i, e)
                \/ \E id : \A i, e :
                     Waits(i, e)' <=> Waits(i, e) \/ (i = id /\ e = Len(emitted) + 1)
    <2>1. SrvBlockedOn' \in {SrvBlockedOn, SrvBlockedOn \cup {Len(emitted) + 1}}
      <3>1. CASE \A i, e : Waits(i, e)' <=> Waits(i, e)
        <4>1. SrvBlockedOn' = SrvBlockedOn
          BY <3>1
        <4>2. QED
          BY <4>1
      <3>2. ASSUME NEW id, \A i, e : Waits(i, e)' <=>
                     Waits(i, e) \/ (i = id /\ e = Len(emitted) + 1)
            PROVE  SrvBlockedOn' = SrvBlockedOn \cup {Len(emitted) + 1}
        BY <3>2
      <3>3. QED
        BY <1>4, <3>1, <3>2
    <2>2. EmissionsView!Ask
      BY <1>2, <1>3, <1>4, <2>1 DEF EmissionsView!Ask
    <2>3. QED
      BY <2>2 DEF EmissionsView!Next
  <1>5. ASSUME NEW id \in Ids, NEW n \in Emits, emitted' = emitted, Waits(id, n),
               \A i, e : Waits(i, e)' <=> Waits(i, e) /\ e # n,
               \/ expired' = expired \cup {n}
               \/ expired' = expired /\ srvAnswer[n] # 0
        PROVE  EmissionsView!Next
    <2>1. SrvBlockedOn' = SrvBlockedOn \ {n} /\ n \in SrvBlockedOn
      BY <1>5
    <2>2. n \in 1 .. Len(emitted)
      <3>1. n <= Len(emitted)
        BY <1>5 DEF EInv, IdsApart, Carried
      <3>2. n \in Nat /\ 1 <= n /\ Len(emitted) \in Nat
        BY EmitTypes, WireAssumption DEF PInv, Emits
      <3>3. QED
        BY <3>1, <3>2
    <2>3. CASE expired' = expired \cup {n}
      <3>1. thrown' \cup expired' = (thrown \cup expired) \cup {n}
        BY <1>2, <2>3
      <3>2. EmissionsView!GiveUp(n)
        BY <1>2, <1>3, <1>5, <2>1, <3>1 DEF EmissionsView!GiveUp
      <3>3. QED
        BY <2>2, <3>2 DEF EmissionsView!Next
    <2>4. CASE expired' = expired /\ srvAnswer[n] # 0
      <3>1. n \in EmitLog /\ n \notin Running /\ n \notin thrown /\ n \notin expired
        BY <1>5, <2>4 DEF EInv, RunOnce, FailedDone
      <3>2. n \notin {frame.of : frame \in FramesOf(cliStack, {"run"})}
        BY <3>1, EmissionsOfViews
      <3>3. \E i \in DOMAIN Started(callbackLog) : Started(callbackLog)[i] = n
        BY <3>1 DEF EmitLog, Range
      <3>4. EmissionsView!Return(n)
        BY <1>2, <1>3, <1>5, <2>1, <2>4, <3>1, <3>2, <3>3 DEF EmissionsView!Return
      <3>5. QED
        BY <2>2, <3>4 DEF EmissionsView!Next
    <2>5. QED
      BY <1>5, <2>3, <2>4
  <1>6. CASE emitted' = emitted /\ expired' = expired /\ \A i, e : Waits(i, e)' <=> Waits(i, e)
    <2>1. SrvBlockedOn' = SrvBlockedOn
      BY <1>6
    <2>2. QED
      BY <1>2, <1>3, <1>6, <2>1 DEF EmissionsView!callVars
  <1>7. QED
    BY <1>1, <1>4, <1>5, <1>6 DEF EmissionMove

\* The engine gets the reply to an emission only when its callback has run to its end;
\* callbacks run in order and once; an emission that failed does not return after all, as
\* long as the server's ids suffice.
THEOREM EmissionPromiseKept ==
    ASSUME IdsSuffice
    PROVE  Spec => EmissionsKeepPromise
  <1>1. Init => EmissionsView!Init
    <2>1. SUFFICES ASSUME Init PROVE EmissionsView!Init
      OBVIOUS
    <2>2. /\ emitted = <<>> /\ callbackLog = <<>> /\ thrown = {} /\ expired = {}
          /\ cliStack = <<>> /\ srvStack = <<>>
      BY <2>1 DEF Init, ClientInit, ServerInit
    <2>3. \A pcs : FramesOf(<<>>, pcs) = {}
      BY DEF FramesOf
    <2>4. Len(<<>>) = 0 /\ Started(<<>>) = <<>>
      BY DEF Started
    <2>5. QED
      BY <2>2, <2>3, <2>4 DEF EmissionsView!Init, SrvBlockedOn
  <1>2. IInv /\ PInv /\ EInv /\ IInv' /\ [Next]_vars
          => [EmissionsView!Next]_(EmissionsView!callVars)
    <2>1. SUFFICES ASSUME IInv, PInv, EInv, IInv', [Next]_vars
                   PROVE  EmissionsView!Next \/ UNCHANGED EmissionsView!callVars
      OBVIOUS
    <2>2. /\ \A e : e \in SrvBlockedOn <=> \E i : Waits(i, e)
          /\ {frame.of : frame \in FramesOf(cliStack, {"run"})} = Running
      BY <2>1, EmissionsOfViews
    <2>3. {frame.of : frame \in FramesOf(cliStack', {"run"})} = Running'
      BY <2>1, CallbackFrames DEF IInv, FramesByParity, Running
    <2>4. CASE ClientNext /\ UNCHANGED serverVars
      BY <2>1, <2>2, <2>3, <2>4, CallbacksKeepPromise
    <2>5. CASE ServerNext /\ UNCHANGED clientVars
      <3>1. \A e : e \in SrvBlockedOn' <=> \E i : Waits(i, e)'
        <4>1. PICK F : F = SrvFrameByParity'
          OBVIOUS
        <4>2. srvStack' \in Seq(F) /\ Len(emitted') \in Nat /\ Len(emitted') <= MaxEmits
          BY <2>1, <4>1, LenProperties DEF IInv, MapsTyped, FramesByParity
        <4>3. \A e \in 1 .. Len(emitted') : e \in Emits
          BY <4>2, WireAssumption DEF Emits
        <4>4. \A f \in F : f.pc \in Blocked <=> f \in SrvWaiter
          BY <4>1, <4>3 DEF SrvFrameByParity, SrvWaiter, Blocked
        <4>5. QED
          BY <4>2, <4>4, WaiterFrames DEF SrvBlockedOn, Waits
      <3>2. QED
        BY <2>1, <2>2, <2>5, <3>1, EngineKeepsPromise
    <2>6. CASE UNCHANGED vars
      BY <2>6
      DEF vars, clientVars, serverVars, EmissionsView!callVars, SrvBlockedOn, Started
    <2>7. QED
      BY <2>1, <2>4, <2>5, <2>6 DEF Next
  <1>3. QED
    BY <1>1, <1>2, EmissionInvariance, PTL
    DEF Spec, EmissionsKeepPromise, EmissionsView!Spec

-----------------------------------------------------------------------------
(* Where a call is until it is answered.                                   *)

\* The calls that are in some place.
Placed ==
    Numbers(c2s, OddRequest) \cup Numbers(blockQueue, OddRequest) \cup Handled \cup Answered
      \cup {k \in Calls : cliAnswer[k] # 0}

\* Those that are there under an id that a JS number gives back; an odd one is, once it has
\* come back in the answer.
ExactIds     == {i \in OddIds : i <= ExactLimit}
ExactRequest == [type : {"request"}, id : ExactIds, of : Calls]
ExactHandler == [pc : {"run"}, id : ExactIds, of : Calls]

ExactHandled  == Numbers(srvStack, ExactHandler)
ExactAnswered == Numbers(s2c, OddAnswer)
ExactPlaced ==
    Numbers(c2s, ExactRequest) \cup Numbers(blockQueue, ExactRequest) \cup ExactHandled
      \cup ExactAnswered \cup {k \in Calls : cliAnswer[k] # 0}

\* Call k, whose id is i, is not sent yet.
Unsent(i, k) == TopIs("send", cliStack) /\ Head(cliStack).id = i /\ Head(cliStack).of = k

\* Whoever waits under such an id is in one of the latter places, unless it is about to send.
CallsPlaced ==
    \A i \in ExactIds, k \in Calls : CliWaits(i, k) => k \in ExactPlaced \/ Unsent(i, k)

\* Those places are among the places.
LEMMA ExactArePlaced ==
    /\ ExactPlaced \subseteq Placed
    /\ ExactRequest \subseteq OddRequest
  <1>1. ExactRequest \subseteq OddRequest /\ ExactHandler \subseteq Handler
    BY DEF ExactRequest, ExactHandler, ExactIds, OddRequest, Handler
  <1>2. \A q : /\ Numbers(q, ExactRequest) \subseteq Numbers(q, OddRequest)
               /\ Numbers(q, ExactHandler) \subseteq Numbers(q, Handler)
               /\ Numbers(q, OddAnswer) \subseteq Numbers(q, Answer)
    BY <1>1, AnswerOf DEF Numbers
  <1>3. QED
    BY <1>1, <1>2 DEF ExactPlaced, Placed, ExactHandled, Handled, ExactAnswered, Answered

\* The client takes no call from its place but to the next one: its reader drops no
\* answer, since each one finds the entry of its own call.
LEMMA PlacesKeptClient ==
    ASSUME IInv, PInv, CallInv, ClientNext, UNCHANGED serverVars
    PROVE  \A k \in ExactPlaced : k \in ExactPlaced'
  <1>1. /\ c2s \in Seq(OddRequest \cup EvenReply)
        /\ s2c \in Seq(OddAnswer \cup EvenAnswer \cup EvenEmit)
        /\ cliSocketRequest \in [Ids -> 0 .. MaxCalls]
        /\ cliAnswer \in [Calls -> 0 .. MaxCalls]
        /\ cliPromise \in 0 .. MaxCalls
    BY DEF IInv, MapsTyped, WireByParity
  <1>2. blockQueue' = blockQueue /\ srvStack' = srvStack
    BY DEF serverVars
  <1>3. ExactHandled' = ExactHandled /\ Numbers(blockQueue, ExactRequest)' = Numbers(blockQueue, ExactRequest)
    BY <1>2 DEF ExactHandled
  <1>4. \A m \in OddAnswer : m.id \in OddIds /\ m.id \in Ids /\ m.of \in Calls /\ m.of # 0
    BY WireAssumption DEF OddAnswer, OddIds, Calls
  <1>5. ASSUME s2c # <<>>, s2c' = Tail(s2c)
        PROVE  \A k \in ExactAnswered : k \in ExactAnswered' \/ (Head(s2c) \in OddAnswer /\ k = Head(s2c).of)
    <2>1. \A a : a \in Numbers(s2c, OddAnswer) <=>
                 \/ a \in Numbers(Tail(s2c), OddAnswer)
                 \/ Head(s2c) \in OddAnswer /\ a = Head(s2c).of
      BY <1>1, <1>5, TailNumbers
    <2>2. QED
      BY <1>5, <2>1 DEF ExactAnswered
  <1>6. ASSUME c2s' = c2s \/ \E m \in OddRequest \cup EvenReply : c2s' = Append(c2s, m)
        PROVE  \A k \in Numbers(c2s, ExactRequest) : k \in Numbers(c2s', ExactRequest)
    <2>1. ASSUME NEW m \in OddRequest \cup EvenReply, c2s' = Append(c2s, m)
          PROVE  \A k \in Numbers(c2s, ExactRequest) : k \in Numbers(c2s', ExactRequest)
      BY <1>1, <2>1, AppendNumbers
    <2>2. QED
      BY <1>6, <2>1
  <1>7. ASSUME c2s' = c2s \/ \E m \in OddRequest \cup EvenReply : c2s' = Append(c2s, m),
               UNCHANGED <<s2c, cliAnswer, cliPromise>>
        PROVE  \A k \in ExactPlaced : k \in ExactPlaced'
    BY <1>3, <1>6, <1>7 DEF ExactPlaced, ExactAnswered
  <1>8. CASE CliSend
    <2>1. Request(Head(cliStack).id, Head(cliStack).of) \in OddRequest
      BY <1>8, CliTop DEF IInv, CliSend, TopIs, Blocked, Request, OddRequest
    <2>2. QED
      BY <1>7, <1>8, <2>1 DEF CliSend
  <1>9. CASE CliCallbackReturn
    <2>1. Head(cliStack).id \in EvenIds /\ Head(cliStack).of \in Emits
      BY <1>9, CliTop DEF IInv, CliCallbackReturn, TopIs
    <2>2. Head(cliStack).id > 0 =>
            CallbackReply(Head(cliStack).id, Head(cliStack).of) \in EvenReply
      BY <2>1 DEF CallbackReply, EvenReply
    <2>3. QED
      BY <1>7, <1>9, <2>2 DEF CliCallbackReturn
  <1>10. CASE CliRecvAnswer
    BY <1>3, <1>10 DEF CliRecvAnswer, ExactPlaced, ExactAnswered
  <1>11. CASE CliSetValue
    <2>1. /\ s2c # <<>> /\ s2c' = Tail(s2c) /\ c2s' = c2s /\ cliPromise' = 0
          /\ Head(s2c).of = cliPromise /\ cliPromise \in Calls /\ cliPromise # 0
          /\ cliAnswer' = [cliAnswer EXCEPT ![cliPromise] = cliPromise]
      <3>1. cliPromise # 0
        BY <1>11 DEF CliSetValue
      <3>2. cliPromise \in Calls
        BY <1>1, <3>1, WireAssumption DEF Calls
      <3>3. QED
        BY <1>11, <3>1, <3>2 DEF CliSetValue, PInv, OwnAnswer
    <2>2. cliAnswer'[cliPromise] # 0 /\ \A k \in Calls : cliAnswer[k] # 0 => cliAnswer'[k] # 0
      BY <1>1, <2>1
    <2>3. QED
      BY <1>3, <1>5, <2>1, <2>2 DEF ExactPlaced
  <1>12. CASE CliRecvEmit \/ CliRecvDrop
    <2>1. /\ s2c # <<>> /\ s2c' = Tail(s2c) /\ c2s' = c2s /\ cliPromise = 0 /\ cliPromise' = 0
          /\ cliAnswer' = cliAnswer
          /\ \/ Head(s2c).type = "emitCallback"
             \/ Head(s2c).id % 2 # 1
             \/ cliSocketRequest[Head(s2c).id] = 0
      BY <1>12 DEF CliRecvEmit, CliRecvDrop, CliTakesForAnswer
    <2>2. Head(s2c) \notin OddAnswer
      <3>1. SUFFICES ASSUME Head(s2c) \in OddAnswer PROVE FALSE
        OBVIOUS
      <3>2. PICK a \in OddAnswer : a = Head(s2c)
        BY <3>1
      <3>3. \A m : m \in Range(s2c) <=> m \in Range(Tail(s2c)) \/ m = Head(s2c)
        BY <1>1, <2>1, TailNumbers
      <3>4. cliSocketRequest[a.id] = a.of
        BY <2>1, <3>2, <3>3 DEF PInv, Owned, Entry
      <3>5. a.type = "response" /\ a.id % 2 = 1
        BY DEF OddAnswer, OddIds
      <3>6. QED
        BY <1>4, <2>1, <3>2, <3>4, <3>5
    <2>3. QED
      BY <1>3, <1>5, <2>1, <2>2 DEF ExactPlaced
  <1>13. QED
    BY <1>7, <1>8, <1>9, <1>10, <1>11, <1>12
    DEF ClientNext, CliJsStep, CliReader, CliCall, CliPop, CliDrop, CliWait, CliWake,
        CliReturn, CliTimeout, CliCallbackThrow, CliTsfn

\* Only a new call makes a waiter: the others stay, under their id, or go.
LEMMA NoNewWaiter ==
    ASSUME IInv, ClientNext, ~CliCall
    PROVE  \A i, k : CliWaits(i, k)' => CliWaits(i, k)
  <1>1. cliStack \in Seq(CliFrameByParity) /\ callbackQueue \in Seq(EvenEmit)
    BY DEF IInv, FramesByParity, WireByParity
  <1>2. CASE cliStack' = cliStack
    BY <1>2 DEF CliWaits
  <1>3. CASE CliSend \/ CliWait \/ CliWake
    <2>1. PICK pc \in Blocked : /\ cliStack # <<>> /\ Head(cliStack).pc \in Blocked
                                /\ cliStack' = Goto(pc, cliStack)
      BY <1>3 DEF CliSend, CliWait, CliWake, TopIs, Blocked
    <2>2. Head(cliStack) \in Waiter
      <3>1. Head(cliStack) \in CliFrameByParity
        BY <1>1, <2>1, HeadTailProperties
      <3>2. QED
        BY <2>1, <3>1 DEF CliFrameByParity, Waiter, Blocked
    <2>3. /\ Frame(pc, Head(cliStack).id, Head(cliStack).of) \in CliFrameByParity
          /\ Frame(pc, Head(cliStack).id, Head(cliStack).of) \in Waiter
      BY <2>1, <2>2 DEF CliFrameByParity, Waiter, Frame
    <2>4. \A i, k : Has(Goto(pc, cliStack), Waiter, i, k) <=> Has(cliStack, Waiter, i, k)
      BY <1>1, <2>1, <2>2, <2>3, HasGoto
    <2>5. QED
      BY <2>1, <2>4 DEF CliWaits
  <1>4. ASSUME NEW f, callbackQueue # <<>>, RunCallback(f)
        PROVE  \A i, k : CliWaits(i, k)' => CliWaits(i, k)
    <2>1. PICK e \in EvenEmit : e = Head(callbackQueue)
      BY <1>1, <1>4, HeadTailProperties
    <2>2. PICK g \in CliFrameByParity : g = Frame("run", e.id, e.of)
      BY DEF CliFrameByParity, Frame, EvenEmit
    <2>3. cliStack' = Push(g, cliStack)
      BY <1>4, <2>1, <2>2 DEF RunCallback
    <2>4. g \notin Waiter
      BY <2>2 DEF Frame, Waiter, Blocked
    <2>5. \A i, k : Has(Push(g, cliStack), Waiter, i, k) <=>
                      Has(cliStack, Waiter, i, k) \/ (g \in Waiter /\ g.id = i /\ g.of = k)
      BY <1>1, HasPush
    <2>6. QED
      BY <2>3, <2>4, <2>5 DEF CliWaits
  <1>5. ASSUME NEW t \in Seq(CliFrameByParity), t # <<>>
        PROVE  /\ Tail(t) \in Seq(CliFrameByParity)
               /\ \A i, k : Has(Tail(t), Waiter, i, k) => Has(t, Waiter, i, k)
    BY <1>5, HeadTailProperties, HasTail
  <1>6. ASSUME cliStack # <<>>,
               \/ cliStack' = Tail(cliStack)
               \/ Tail(cliStack) # <<>> /\ cliStack' = Tail(Tail(cliStack))
        PROVE  \A i, k : CliWaits(i, k)' => CliWaits(i, k)
    <2>1. PICK t \in Seq(CliFrameByParity) :
              t = Tail(cliStack) /\ \A i, k : Has(t, Waiter, i, k) => CliWaits(i, k)
      BY <1>1, <1>5, <1>6 DEF CliWaits
    <2>2. CASE cliStack' = t
      BY <2>1, <2>2 DEF CliWaits
    <2>3. CASE t # <<>> /\ cliStack' = Tail(t)
      <3>1. \A i, k : Has(Tail(t), Waiter, i, k) => Has(t, Waiter, i, k)
        BY <1>5, <2>3
      <3>2. QED
        BY <2>1, <2>3, <3>1 DEF CliWaits
    <2>4. QED
      BY <1>6, <2>1, <2>2, <2>3
  <1>7. CASE CliReturn \/ CliTimeout \/ CliCallbackReturn \/ CliCallbackThrow
    BY <1>6, <1>7 DEF CliReturn, CliTimeout, CliCallbackReturn, CliCallbackThrow, TopIs
  <1>8. CASE CliPop \/ \E f \in Functions : CliTsfn(f)
    BY <1>2, <1>4, <1>8 DEF CliPop, CliTsfn
  <1>9. CASE CliDrop \/ CliReader
    BY <1>2, <1>9
    DEF CliDrop, CliReader, CliRecvAnswer, CliSetValue, CliRecvEmit, CliRecvDrop
  <1>10. QED
    BY <1>3, <1>7, <1>8, <1>9 DEF ClientNext, CliJsStep

\* A call is unsent when it is made, and on the wire once it is sent.
LEMMA CallsPlacedClient ==
    ASSUME IInv, PInv, CallInv, CallsPlaced, ClientNext, UNCHANGED serverVars
    PROVE  CallsPlaced'
  <1>1. cliStack \in Seq(CliFrameByParity) /\ calls \in Nat
    BY CallTypes DEF PInv
  <1>2. \A k \in ExactPlaced : k \in ExactPlaced'
    BY PlacesKeptClient
  <1>3. CASE CliCall
    <2>1. ~TopIs("send", cliStack)
      BY <1>3 DEF CliCall, TopIs
    <2>2. \A i \in ExactIds, k \in Calls : CliWaits(i, k) => k \in ExactPlaced'
      BY <1>2, <2>1 DEF CallsPlaced, Unsent
    <2>3. CASE cliStack' = cliStack
      BY <2>2, <2>3 DEF CallsPlaced, CliWaits
    <2>4. ASSUME NEW id, cliStack' = Push(Frame("send", id, calls + 1), cliStack)
          PROVE  CallsPlaced'
      <3>1. PICK F : F = CliFrameByParity \cup {Frame("send", id, calls + 1)}
        OBVIOUS
      <3>2. PICK f \in F : f = Frame("send", id, calls + 1)
        BY <3>1
      <3>3. cliStack \in Seq(F)
        BY <1>1, <3>1, SeqMonotonic
      <3>4. /\ Push(f, cliStack) # <<>> /\ Head(Push(f, cliStack)) = f
            /\ \A i, k : Has(Push(f, cliStack), Waiter, i, k) <=>
                            \/ Has(cliStack, Waiter, i, k)
                            \/ f \in Waiter /\ f.id = i /\ f.of = k
        BY <3>3, PushNumbers, HasPush
      <3>5. f.pc = "send"
        BY <3>2 DEF Frame
      <3>6. TopIs("send", cliStack')
        BY <2>4, <3>2, <3>4, <3>5 DEF TopIs
      <3>7. \A i, k : CliWaits(i, k)' => CliWaits(i, k) \/ Unsent(i, k)'
        BY <2>4, <3>2, <3>4, <3>6 DEF CliWaits, Unsent
      <3>8. QED
        BY <2>2, <3>7 DEF CallsPlaced
    <2>5. QED
      BY <1>3, <2>3, <2>4 DEF CliCall
  <1>4. ASSUME ~CliCall
        PROVE  \A i, k : CliWaits(i, k)' => CliWaits(i, k)
    BY <1>4, NoNewWaiter
  <1>5. CASE CliSend
    <2>1. ASSUME NEW i \in ExactIds, NEW k \in Calls, Unsent(i, k)
          PROVE  k \in ExactPlaced'
      <3>1. PICK m \in ExactRequest : m = Request(i, k) /\ m.of = k
        <4>1. Request(i, k) \in ExactRequest /\ Request(i, k).of = k
          BY DEF Request, ExactRequest
        <4>2. QED
          BY <4>1
      <3>2. /\ c2s' = Append(c2s, m) /\ c2s \in Seq(OddRequest \cup EvenReply)
            /\ m \in OddRequest \cup EvenReply
        BY <1>5, <2>1, <3>1, ExactArePlaced DEF Unsent, CliSend, IInv, WireByParity
      <3>3. k \in Numbers(Append(c2s, m), ExactRequest)
        BY <3>1, <3>2, AppendNumbers
      <3>4. QED
        BY <3>2, <3>3 DEF ExactPlaced
    <2>2. ~CliCall
      BY <1>5 DEF CliCall, CliSend, TopIs
    <2>3. QED
      BY <1>2, <1>4, <2>1, <2>2 DEF CallsPlaced
  <1>6. CASE ~CliCall /\ ~CliSend
    <2>1. TopIs("send", cliStack) => cliStack' = cliStack
      BY <1>6 DEF ClientNext, CliJsStep, CliReader, CliPop, CliDrop, CliWait, CliWake,
        CliReturn, CliTimeout, CliCallbackReturn, CliCallbackThrow, CliTsfn, CliRecvAnswer,
        CliSetValue, CliRecvEmit, CliRecvDrop, TopIs
    <2>2. \A i, k : Unsent(i, k) => Unsent(i, k)'
      BY <2>1 DEF Unsent
    <2>3. QED
      BY <1>2, <1>4, <1>6, <2>2 DEF CallsPlaced
  <1>7. QED
    BY <1>3, <1>5, <1>6

\* A handler stays on the server's stack as activations come, go on and go above it.
LEMMA HandlersStay ==
    ASSUME NEW s \in Seq(SrvFrameByParity)
    PROVE  /\ \A f : \A k \in Numbers(s, ExactHandler) : k \in Numbers(Push(f, s), ExactHandler)
           /\ \A f \in ExactHandler : f.of \in Numbers(Push(f, s), ExactHandler)
           /\ s # <<>> /\ Head(s).pc \in Blocked =>
                \A k \in Numbers(s, ExactHandler) : k \in Numbers(Tail(s), ExactHandler)
           /\ s # <<>> /\ Head(s).pc \in Blocked =>
                \A pc : \A k \in Numbers(s, ExactHandler) : k \in Numbers(Goto(pc, s), ExactHandler)
  <1>1. ASSUME NEW t \in Seq(SrvFrameByParity), NEW f
        PROVE  \A a : a \in Numbers(Push(f, t), ExactHandler) <=>
                        a \in Numbers(t, ExactHandler) \/ (f \in ExactHandler /\ a = f.of)
    <2>1. PICK F : F = SrvFrameByParity \cup {f}
      OBVIOUS
    <2>2. PICK e \in F : e = f
      BY <2>1
    <2>3. t \in Seq(F)
      BY <2>1, SeqMonotonic
    <2>4. \A a : a \in Numbers(Push(e, t), ExactHandler) <=>
                   a \in Numbers(t, ExactHandler) \/ (e \in ExactHandler /\ a = e.of)
      BY <2>3, PushNumbers
    <2>5. QED
      BY <2>2, <2>4
  <1>2. ASSUME s # <<>>, Head(s).pc \in Blocked
        PROVE  /\ Tail(s) \in Seq(SrvFrameByParity)
               /\ \A k \in Numbers(s, ExactHandler) : k \in Numbers(Tail(s), ExactHandler)
    <2>1. /\ Tail(s) \in Seq(SrvFrameByParity)
          /\ \A a : a \in Numbers(s, ExactHandler) <=>
                      a \in Numbers(Tail(s), ExactHandler) \/ (Head(s) \in ExactHandler /\ a = Head(s).of)
      BY <1>2, TailNumbers
    <2>2. Head(s) \notin ExactHandler
      BY <1>2 DEF ExactHandler, Blocked
    <2>3. QED
      BY <2>1, <2>2
  <1>3. ASSUME s # <<>>, Head(s).pc \in Blocked, NEW pc
        PROVE  \A k \in Numbers(s, ExactHandler) : k \in Numbers(Goto(pc, s), ExactHandler)
    <2>1. PICK t \in Seq(SrvFrameByParity) : t = Tail(s)
      BY <1>2, <1>3
    <2>2. Goto(pc, s) = Push(Frame(pc, Head(s).id, Head(s).of), t)
      BY <2>1 DEF Goto
    <2>3. QED
      BY <1>1, <1>2, <1>3, <2>1, <2>2
  <1>4. QED
    BY <1>1, <1>2, <1>3

\* The server takes no call from its place but to the next one: its reader takes no
\* request for a reply.
LEMMA PlacesKeptServer ==
    ASSUME IInv, PInv, ServerNext, UNCHANGED clientVars
    PROVE  \A k \in ExactPlaced : k \in ExactPlaced'
  <1>1. /\ c2s \in Seq(OddRequest \cup EvenReply)
        /\ blockQueue \in Seq(OddRequest \cup EvenReply)
        /\ s2c \in Seq(OddAnswer \cup EvenAnswer \cup EvenEmit)
        /\ srvStack \in Seq(SrvFrameByParity)
    BY DEF IInv, FramesByParity, WireByParity
  <1>2. cliAnswer' = cliAnswer
    BY DEF clientVars
  <1>3. ASSUME NEW m
        PROVE  \A k \in ExactAnswered : k \in Numbers(Append(s2c, m), OddAnswer)
    <2>1. PICK F : F = OddAnswer \cup EvenAnswer \cup EvenEmit \cup {m}
      OBVIOUS
    <2>2. PICK e \in F : e = m
      BY <2>1
    <2>3. s2c \in Seq(F)
      BY <1>1, <2>1, SeqMonotonic
    <2>4. \A a : a \in Numbers(Append(s2c, e), OddAnswer) <=>
                   a \in Numbers(s2c, OddAnswer) \/ (e \in OddAnswer /\ a = e.of)
      BY <2>3, AppendNumbers
    <2>5. QED
      BY <2>2, <2>4 DEF ExactAnswered
  <1>4. ASSUME c2s' = c2s, blockQueue' = blockQueue,
               s2c' = s2c \/ \E m : s2c' = Append(s2c, m),
               \A k \in ExactHandled : k \in ExactHandled' \/ k \in ExactAnswered'
        PROVE  \A k \in ExactPlaced : k \in ExactPlaced'
    <2>1. \A k \in ExactAnswered : k \in ExactAnswered'
      BY <1>3, <1>4 DEF ExactAnswered
    <2>2. QED
      BY <1>2, <1>4, <2>1 DEF ExactPlaced
  <1>5. CASE (\E f \in Functions : SrvEmitSync(f)) \/ SrvWait \/ SrvWake \/ SrvReturn \/ SrvTimeout
    <2>1. /\ c2s' = c2s /\ blockQueue' = blockQueue /\ s2c' = s2c
          /\ \/ \E f : srvStack' = Push(f, srvStack)
             \/ /\ srvStack # <<>> /\ Head(srvStack).pc \in Blocked
                /\ srvStack' = Tail(srvStack) \/ \E pc : srvStack' = Goto(pc, srvStack)
      BY <1>5 DEF SrvEmitSync, SrvWait, SrvWake, SrvReturn, SrvTimeout, TopIs, Blocked
    <2>2. \A k \in ExactHandled : k \in ExactHandled'
      BY <1>1, <2>1, HandlersStay DEF ExactHandled
    <2>3. QED
      BY <1>4, <2>1, <2>2
  <1>6. CASE SrvSend \/ \E f \in Functions : SrvEmitAsync(f)
    <2>1. /\ c2s' = c2s /\ blockQueue' = blockQueue /\ \E m : s2c' = Append(s2c, m)
          /\ \/ srvStack' = srvStack
             \/ /\ srvStack # <<>> /\ Head(srvStack).pc \in Blocked
                /\ srvStack' = Goto("drain", srvStack)
      BY <1>6 DEF SrvSend, SrvEmitAsync, TopIs, Blocked
    <2>2. \A k \in ExactHandled : k \in ExactHandled'
      BY <1>1, <2>1, HandlersStay DEF ExactHandled
    <2>3. QED
      BY <1>4, <2>1, <2>2
  <1>7. CASE SrvReply
    <2>1. /\ c2s' = c2s /\ blockQueue' = blockQueue
          /\ srvStack # <<>> /\ srvStack' = Tail(srvStack) /\ Head(srvStack).pc = "run"
          /\ s2c' = Append(s2c, Response(AsNumber(Head(srvStack).id), Head(srvStack).of))
      BY <1>7 DEF SrvReply, TopIs
    <2>2. \A a : a \in Numbers(srvStack, ExactHandler) <=>
                   \/ a \in Numbers(Tail(srvStack), ExactHandler)
                   \/ Head(srvStack) \in ExactHandler /\ a = Head(srvStack).of
      BY <1>1, <2>1, TailNumbers
    <2>3. ASSUME Head(srvStack) \in ExactHandler
          PROVE  Head(srvStack).of \in ExactAnswered'
      <3>1. PICK m \in OddAnswer :
                /\ m = Response(AsNumber(Head(srvStack).id), Head(srvStack).of)
                /\ m.of = Head(srvStack).of
        <4>1. PICK f \in ExactHandler : f = Head(srvStack)
          BY <2>3
        <4>2. f.id \in OddIds /\ f.id <= ExactLimit /\ f.of \in Calls
          BY DEF ExactHandler, ExactIds
        <4>3. AsNumber(f.id) = f.id
          BY <4>2, AsNumberParity DEF OddIds
        <4>4. Response(f.id, f.of) \in OddAnswer
          BY <4>2 DEF Response, OddAnswer
        <4>5. Response(f.id, f.of).of = f.of
          BY DEF Response
        <4>6. QED
          BY <4>1, <4>3, <4>4, <4>5
      <3>2. m.of \in Numbers(Append(s2c, m), OddAnswer)
        <4>1. m \in OddAnswer \cup EvenAnswer \cup EvenEmit
          OBVIOUS
        <4>2. QED
          BY <1>1, <4>1, AppendNumbers
      <3>3. QED
        BY <2>1, <3>1, <3>2 DEF ExactAnswered
    <2>4. \A k \in ExactHandled : k \in ExactHandled' \/ k \in ExactAnswered'
      BY <2>1, <2>2, <2>3 DEF ExactHandled
    <2>5. QED
      BY <1>4, <2>1, <2>4
  <1>8. CASE SrvPop \/ SrvTsfn
    <2>1. c2s' = c2s /\ s2c' = s2c
      BY <1>8 DEF SrvPop, SrvTsfn
    <2>2. CASE blockQueue' = blockQueue /\ srvStack' = srvStack
      BY <1>4, <2>1, <2>2 DEF ExactHandled
    <2>3. CASE blockQueue # <<>> /\ HandleMessage
      <3>1. PICK m \in OddRequest \cup EvenReply : m = Head(blockQueue)
        BY <1>1, <2>3, TailNumbers
      <3>2. \A a : a \in Numbers(blockQueue, ExactRequest) <=>
                     a \in Numbers(Tail(blockQueue), ExactRequest) \/ (m \in ExactRequest /\ a = m.of)
        BY <1>1, <2>3, <3>1, TailNumbers
      <3>3. PICK f : /\ srvStack' = Push(f, srvStack)
                     /\ m \in ExactRequest => f = Frame("run", m.id, m.of)
        BY <2>3, <3>1 DEF HandleMessage, ExactRequest
      <3>4. m \in ExactRequest => f \in ExactHandler /\ f.of = m.of
        BY <3>3 DEF Frame, ExactRequest, ExactHandler
      <3>5. \A k \in ExactHandled : k \in ExactHandled'
        BY <1>1, <3>3, HandlersStay DEF ExactHandled
      <3>6. m \in ExactRequest => m.of \in ExactHandled'
        BY <1>1, <3>3, <3>4, HandlersStay DEF ExactHandled
      <3>7. blockQueue' = Tail(blockQueue)
        BY <2>3 DEF HandleMessage
      <3>8. QED
        BY <1>2, <2>1, <3>2, <3>5, <3>6, <3>7 DEF ExactPlaced, ExactAnswered
    <2>4. QED
      BY <1>8, <2>2, <2>3 DEF SrvPop, SrvTsfn
  <1>9. CASE SrvRecvReply
    <2>1. UNCHANGED <<c2s, s2c, blockQueue, srvStack>>
      BY <1>9 DEF SrvRecvReply
    <2>2. QED
      BY <1>4, <2>1 DEF ExactHandled
  <1>10. CASE SrvSetValue \/ SrvRecvMessage
    <2>1. /\ c2s # <<>> /\ c2s' = Tail(c2s) /\ s2c' = s2c /\ srvStack' = srvStack
          /\ \/ Head(c2s).id \in EvenIds /\ blockQueue' = blockQueue
             \/ blockQueue' = Append(blockQueue, Head(c2s))
      BY <1>10 DEF SrvSetValue, SrvRecvMessage, IInv, ReadersHoldAnswers
    <2>2. PICK m \in OddRequest \cup EvenReply :
              /\ m = Head(c2s)
              /\ \A a : a \in Numbers(c2s, ExactRequest) <=>
                          a \in Numbers(Tail(c2s), ExactRequest) \/ (m \in ExactRequest /\ a = m.of)
      BY <1>1, <2>1, TailNumbers
    <2>3. \A a : a \in Numbers(Append(blockQueue, m), ExactRequest) <=>
                   a \in Numbers(blockQueue, ExactRequest) \/ (m \in ExactRequest /\ a = m.of)
      BY <1>1, AppendNumbers
    <2>4. m.id \in EvenIds => m \notin ExactRequest
      BY ParityDisjoint DEF ExactRequest, ExactIds
    <2>5. QED
      BY <1>2, <2>1, <2>2, <2>3, <2>4 DEF ExactPlaced, ExactHandled, ExactAnswered
  <1>11. QED
    BY <1>5, <1>6, <1>7, <1>8, <1>9, <1>10 DEF ServerNext, SrvJsStep, SrvReader

\* How often a number that occurs at most once occurs.
LEMMA CountOnce ==
    ASSUME NEW F, NEW q \in Seq(F), NEW S, Once(q, S), NEW n,
           NEW I, \A i : i \in I <=> i \in DOMAIN q /\ q[i] \in S /\ q[i].of = n
    PROVE  Cardinality(I) = One(n \in Numbers(q, S))
  <1>1. CASE n \notin Numbers(q, S)
    <2>1. I = {}
      BY <1>1 DEF Numbers, Range
    <2>2. QED
      BY <1>1, <2>1, FS_EmptySet DEF One
  <1>2. CASE n \in Numbers(q, S)
    <2>1. PICK i \in DOMAIN q : q[i] \in S /\ q[i].of = n
      BY <1>2 DEF Numbers, Range
    <2>2. I = {i}
      BY <2>1 DEF Once
    <2>3. QED
      BY <1>2, <2>2, FS_Singleton DEF One
  <1>3. QED
    BY <1>1, <1>2

\* Numbers that ascend differ.
LEMMA AscendingOnce ==
    ASSUME NEW F, NEW q \in Seq(F), NEW S, \A m \in S : m.of \in Nat, Ascending(q, S)
    PROVE  Once(q, S)
  <1>1. SUFFICES ASSUME NEW i \in DOMAIN q, NEW j \in DOMAIN q, q[i] \in S, q[j] \in S,
                        q[i].of = q[j].of, i # j
                 PROVE  FALSE
    BY DEF Once
  <1>2. i \in Nat /\ j \in Nat
    BY LenProperties
  <1>3. i < j \/ j < i
    BY <1>1, <1>2
  <1>4. q[i].of < q[j].of \/ q[j].of < q[i].of
    BY <1>1, <1>3 DEF Ascending
  <1>5. QED
    BY <1>1, <1>4

\* No call is in one place twice.
LEMMA CallsCounted ==
    ASSUME IInv, PInv, NEW k \in Calls
    PROVE  PlacesOfCall(k) =
             One(k \in Numbers(c2s, OddRequest)) + One(k \in Numbers(blockQueue, OddRequest))
               + One(k \in Handled) + One(k \in Answered) + One(cliAnswer[k] # 0)
  <1>1. /\ c2s \in Seq(OddRequest \cup EvenReply)
        /\ blockQueue \in Seq(OddRequest \cup EvenReply)
        /\ s2c \in Seq(OddAnswer \cup EvenAnswer \cup EvenEmit)
        /\ srvStack \in Seq(SrvFrameByParity)
    BY DEF IInv, FramesByParity, WireByParity
  <1>2. /\ \A m \in OddRequest : m.of \in Nat
        /\ Once(srvStack, Handler) /\ Once(s2c, Answer)
        /\ Ascending(c2s, OddRequest) /\ Ascending(blockQueue, OddRequest)
    BY CallTypes DEF PInv, CallOrder, Pipeline, HandledOnce
  <1>3. Once(c2s, OddRequest) /\ Once(blockQueue, OddRequest)
    BY <1>1, <1>2, AscendingOnce
  <1>4. k # 0
    BY WireAssumption DEF Calls
  <1>5. ASSUME NEW q \in Seq(OddRequest \cup EvenReply), Once(q, OddRequest)
        PROVE  Count(q, "request", k) = One(k \in Numbers(q, OddRequest))
    <2>1. \A m \in OddRequest \cup EvenReply : m \in OddRequest <=> m.type = "request"
      BY DEF OddRequest, EvenReply
    <2>2. \A i \in DOMAIN q : q[i] \in OddRequest \cup EvenReply
      BY <1>5, ElementOfSeq, LenProperties
    <2>3. PICK I : I = {i \in DOMAIN q : q[i].type = "request" /\ q[i].of = k}
      OBVIOUS
    <2>4. \A i : i \in I <=> i \in DOMAIN q /\ q[i] \in OddRequest /\ q[i].of = k
      BY <2>1, <2>2, <2>3
    <2>5. QED
      BY <1>5, <2>3, <2>4, CountOnce DEF Count
  <1>6. Count(s2c, "response", k) = One(k \in Answered)
    <2>1. \A m \in OddAnswer \cup EvenAnswer \cup EvenEmit :
            m \in Answer /\ m.of = k <=> m.type = "response" /\ m.of = k
      BY <1>4, AnswerOf
    <2>2. \A i \in DOMAIN s2c : s2c[i] \in OddAnswer \cup EvenAnswer \cup EvenEmit
      BY <1>1, ElementOfSeq, LenProperties
    <2>3. PICK I : I = {i \in DOMAIN s2c : s2c[i].type = "response" /\ s2c[i].of = k}
      OBVIOUS
    <2>4. \A i : i \in I <=> i \in DOMAIN s2c /\ s2c[i] \in Answer /\ s2c[i].of = k
      BY <2>1, <2>2, <2>3
    <2>5. QED
      BY <1>1, <1>2, <2>3, <2>4, CountOnce DEF Count, Answered
  <1>7. Cardinality({i \in DOMAIN srvStack : IsRequestFrame(srvStack[i]) /\ srvStack[i].of = k})
          = One(k \in Handled)
    <2>1. \A f \in SrvFrameByParity : f \in Handler /\ f.of = k <=> f.pc = "run" /\ f.of = k
      BY <1>4 DEF SrvFrameByParity, Handler, Blocked
    <2>2. \A i \in DOMAIN srvStack : srvStack[i] \in SrvFrameByParity
      BY <1>1, ElementOfSeq, LenProperties
    <2>3. PICK I :
            I = {i \in DOMAIN srvStack : IsRequestFrame(srvStack[i]) /\ srvStack[i].of = k}
      OBVIOUS
    <2>4. \A i : i \in I <=> i \in DOMAIN srvStack /\ srvStack[i] \in Handler /\ srvStack[i].of = k
      BY <1>4, <2>1, <2>2, <2>3 DEF IsRequestFrame
    <2>5. QED
      BY <1>1, <1>2, <2>3, <2>4, CountOnce DEF Handled
  <1>8. QED
    BY <1>1, <1>3, <1>5, <1>6, <1>7 DEF PlacesOfCall

\* Nor in two: what has been started is no longer queued, what has been answered no
\* longer handled, and the client has no answer yet to what is being answered.
LEMMA CallPlacesApart ==
    ASSUME PInv, NEW k \in Calls
    PROVE  /\ k \in Numbers(c2s, OddRequest) => k \notin Numbers(blockQueue, OddRequest)
           /\ k \in Numbers(c2s, OddRequest) \cup Numbers(blockQueue, OddRequest) =>
                k \notin Handled /\ k \notin Answered /\ cliAnswer[k] = 0
           /\ k \in Handled => k \notin Answered /\ cliAnswer[k] = 0
           /\ k \in Answered => cliAnswer[k] = 0
  <1>1. k \in Nat /\ k # 0
    BY WireAssumption DEF Calls
  <1>2. ~(k < k)
    BY <1>1
  <1>3. /\ \A a \in Range(requestLog), b \in Numbers(blockQueue, OddRequest) : a < b
        /\ \A a \in Range(requestLog), b \in Numbers(c2s, OddRequest) : a < b
        /\ \A a \in Numbers(blockQueue, OddRequest), b \in Numbers(c2s, OddRequest) : a < b
    BY DEF PInv, CallOrder, Pipeline
  <1>4. /\ k \in Handled \/ k \in Answered \/ cliAnswer[k] # 0 => k \in Range(requestLog)
        /\ k \in Handled => k \notin Answered /\ cliAnswer[k] = 0
        /\ k \in Answered => cliAnswer[k] = 0
    BY DEF PInv, HandledOnce
  <1>5. QED
    BY <1>2, <1>3, <1>4

\* Whoever waits under an id that a JS number gives back is in some place, always.
THEOREM CallsArePlaced == Spec => [](IInv /\ PInv /\ CallInv /\ CallsPlaced)
  <1>1. Init => CallsPlaced
    <2>1. Init => cliStack = <<>>
      BY DEF Init, ClientInit
    <2>2. Range(<<>>) = {}
      BY DEF Range
    <2>3. QED
      BY <2>1, <2>2 DEF CallsPlaced, CliWaits, Has
  <1>2. IInv /\ PInv /\ CallInv /\ CallsPlaced /\ [Next]_vars => CallsPlaced'
    <2>1. SUFFICES ASSUME IInv, PInv, CallInv, CallsPlaced, [Next]_vars PROVE CallsPlaced'
      OBVIOUS
    <2>2. CASE ClientNext /\ UNCHANGED serverVars
      BY <2>1, <2>2, PlacesKeptClient, CallsPlacedClient
    <2>3. CASE ServerNext /\ UNCHANGED clientVars
      <3>1. \A k \in ExactPlaced : k \in ExactPlaced'
        BY <2>1, <2>3, PlacesKeptServer
      <3>2. UNCHANGED cliStack
        BY <2>3 DEF clientVars
      <3>3. QED
        BY <2>1, <3>1, <3>2 DEF CallsPlaced, CliWaits, Unsent
    <2>4. CASE UNCHANGED vars
      BY <2>1, <2>4
      DEF vars, wireVars, clientVars, serverVars, CallsPlaced, ExactPlaced, CliWaits,
          ExactHandled, ExactAnswered, Unsent
    <2>5. QED
      BY <2>1, <2>2, <2>3, <2>4 DEF Next
  <1>3. QED
    BY <1>1, <1>2, CallInvariance, PTL DEF Spec

\* A call that the client waits for is in exactly one place if its id fits a JS number, and
\* no call whatever is in two (SkylineRpc's CallNeverLost).
THEOREM CallsNeverLost == Spec => []CallNeverLost
  <1>1. IInv /\ PInv /\ CallInv /\ CallsPlaced => CallNeverLost
    <2>1. SUFFICES ASSUME IInv, PInv, CallInv, CallsPlaced PROVE CallNeverLost
      OBVIOUS
    <2>2. ASSUME NEW k \in Calls
          PROVE  PlacesOfCall(k) = One(k \in Placed)
      BY <2>1, <2>2, CallsCounted, CallPlacesApart DEF One, Placed
    <2>3. ASSUME NEW frame \in FramesOf(cliStack, Waiting), frame.id <= ExactLimit
          PROVE  frame.of \in Calls /\ frame.of \in Placed
      <3>1. cliStack \in Seq(CliFrameByParity)
        BY <2>1, CallTypes DEF PInv
      <3>2. PICK j \in DOMAIN cliStack : frame = cliStack[j] /\ cliStack[j].pc \in Waiting
        BY <2>3 DEF FramesOf
      <3>3. frame \in Waiter
        BY <3>1, <3>2, ElementOfSeq, LenProperties
        DEF CliFrameByParity, Waiter, Waiting, Blocked
      <3>4. CliWaits(frame.id, frame.of) /\ frame.id \in ExactIds /\ frame.of \in Calls
        BY <2>3, <3>2, <3>3 DEF CliWaits, Has, Range, Waiter, ExactIds
      <3>5. ~Unsent(frame.id, frame.of)
        <4>1. SUFFICES ASSUME Unsent(frame.id, frame.of) PROVE FALSE
          OBVIOUS
        <4>2. /\ 1 \in DOMAIN cliStack /\ cliStack[1] \in CliFrameByParity
              /\ cliStack[1].pc = "send" /\ cliStack[1].of = frame.of
          BY <2>1, <3>1, <4>1, CliTop, LenProperties, EmptySeq DEF Unsent, TopIs, IInv
        <4>3. cliStack[1] \in Waiter
          BY <4>2 DEF CliFrameByParity, Waiter, Blocked
        <4>4. 1 = j
          BY <2>1, <3>2, <3>3, <4>2, <4>3 DEF PInv, WaitersOnce, Once
        <4>5. QED
          BY <3>2, <4>2, <4>4 DEF Waiting
      <3>6. QED
        BY <2>1, <3>4, <3>5, ExactArePlaced DEF CallsPlaced
    <2>4. QED
      BY <2>2, <2>3 DEF CallNeverLost, One
  <1>2. QED
    BY <1>1, CallsArePlaced, PTL

-----------------------------------------------------------------------------
(* Where an emission is until it is replied to.                            *)

\* Each emission on its way to a callback names the function the engine emitted to.
FunctionsOwn ==
    \A m \in Range(s2c) \cup Range(callbackQueue) : m \in EvenEmit => m.fn = emitted[m.of]

\* Emissions on their way have been made.
LEMMA SentEmitted ==
    ASSUME IInv, EmitOrder
    PROVE  \A m \in Range(s2c) \cup Range(callbackQueue) : m \in EvenEmit =>
             m.of \in 1 .. Len(emitted) /\ m.of \in Emits
  <1>1. SUFFICES ASSUME NEW m \in Range(s2c) \cup Range(callbackQueue), m \in EvenEmit
                 PROVE  m.of \in 1 .. Len(emitted) /\ m.of \in Emits
    OBVIOUS
  <1>2. m.of \in Numbers(callbackQueue, EvenEmit) \cup Numbers(s2c, EvenEmit)
    BY <1>1 DEF Numbers
  <1>3. m.of <= SentUpTo(srvStack, Len(emitted))
    BY <1>2 DEF EmitOrder, Pipeline
  <1>4. m.of \in Emits /\ m.of \in Nat /\ m.of >= 1 /\ Len(emitted) \in Nat
    BY <1>1, EmitTypes, WireAssumption DEF EvenEmit, Emits
  <1>5. SentUpTo(srvStack, Len(emitted)) \in {Len(emitted), Len(emitted) - 1}
    BY DEF SentUpTo
  <1>6. QED
    BY <1>3, <1>4, <1>5

\* They keep their function until they are run, or dropped.
LEMMA FunctionsKept ==
    ASSUME IInv, PInv, FunctionsOwn, [Next]_vars
    PROVE  FunctionsOwn'
  <1>1. /\ s2c \in Seq(OddAnswer \cup EvenAnswer \cup EvenEmit)
        /\ callbackQueue \in Seq(EvenEmit)
        /\ srvStack \in Seq(SrvFrameByParity)
        /\ emitted \in Seq(Functions) /\ Len(emitted) \in Nat
    BY LenProperties DEF IInv, WireByParity, FramesByParity, MapsTyped
  <1>2. CASE ClientNext /\ UNCHANGED serverVars
    <2>1. emitted' = emitted
      BY <1>2 DEF serverVars
    <2>2. \A m \in Range(s2c') : m \in Range(s2c)
      <3>1. s2c' = s2c \/ (s2c # <<>> /\ s2c' = Tail(s2c))
        BY <1>2 DEF IInv, ReadersHoldAnswers, ClientNext, CliJsStep, CliReader, CliCall, CliSend,
          CliPop, CliDrop, CliWait, CliWake, CliReturn, CliTimeout, CliCallbackReturn,
          CliCallbackThrow, CliTsfn,
          CliRecvAnswer, CliSetValue, CliRecvEmit, CliRecvDrop
      <3>2. QED
        BY <1>1, <3>1, TailNumbers
    <2>3. \A m \in Range(callbackQueue') : m \in Range(callbackQueue) \cup Range(s2c)
      <3>1. CASE CliRecvEmit
        <4>1. s2c # <<>> /\ callbackQueue' = Append(callbackQueue, Head(s2c))
          BY <3>1 DEF CliRecvEmit
        <4>2. PICK m \in EvenEmit : m = Head(s2c)
          BY <1>1, <3>1, ToClientHead DEF IInv, CliRecvEmit
        <4>3. m \in Range(s2c)
          BY <1>1, <4>1, <4>2, TailNumbers
        <4>4. QED
          BY <1>1, <4>1, <4>2, <4>3, RangeAppend
      <3>2. CASE \/ callbackQueue' = callbackQueue
                 \/ callbackQueue # <<>> /\ callbackQueue' = Tail(callbackQueue)
        BY <1>1, <3>2, TailNumbers
      <3>3. QED
        BY <1>2, <3>1, <3>2 DEF ClientNext, CliJsStep, CliReader, CliCall, CliSend, CliPop, CliDrop,
          CliWait, CliWake, CliReturn, CliTimeout, CliCallbackReturn, CliCallbackThrow, CliTsfn,
          CliRecvAnswer, CliSetValue, CliRecvDrop, RunCallback
    <2>4. QED
      BY <2>1, <2>2, <2>3 DEF FunctionsOwn
  <1>3. CASE ServerNext /\ UNCHANGED clientVars
    <2>1. callbackQueue' = callbackQueue
      BY <1>3 DEF clientVars
    <2>2. ASSUME NEW f \in Functions, emitted' = Append(emitted, f)
          PROVE  /\ \A m \in Range(s2c) \cup Range(callbackQueue) : m \in EvenEmit =>
                      m.fn = emitted'[m.of]
                 /\ emitted'[Len(emitted) + 1] = f
      <3>1. /\ \A i \in 1 .. Len(emitted) : emitted'[i] = emitted[i]
            /\ emitted'[Len(emitted) + 1] = f
        BY <1>1, <2>2, AppendProperties
      <3>2. QED
        BY <3>1, SentEmitted DEF PInv, FunctionsOwn
    <2>3. CASE \E f \in Functions : SrvEmitSync(f)
      BY <2>1, <2>2, <2>3 DEF SrvEmitSync, FunctionsOwn
    <2>4. ASSUME NEW m, m \in EvenEmit => m.fn = emitted'[m.of], s2c' = Append(s2c, m),
                 \A e \in Range(s2c) \cup Range(callbackQueue) : e \in EvenEmit =>
                   e.fn = emitted'[e.of]
          PROVE  FunctionsOwn'
      <3>1. PICK F : F = OddAnswer \cup EvenAnswer \cup EvenEmit \cup {m}
        OBVIOUS
      <3>2. PICK e \in F : e = m
        BY <3>1
      <3>3. s2c \in Seq(F)
        BY <1>1, <3>1, SeqMonotonic
      <3>4. \A x : x \in Range(Append(s2c, e)) <=> x \in Range(s2c) \/ x = e
        BY <3>3, RangeAppend
      <3>5. QED
        BY <2>1, <2>4, <3>2, <3>4 DEF FunctionsOwn
    <2>5. CASE SrvSend
      <3>1. PICK e, m :
                /\ m = EmitCallback(Head(srvStack).id, e, emitted[e])
                /\ s2c' = Append(s2c, m) /\ emitted' = emitted
        BY <2>5 DEF SrvSend
      <3>2. m.fn = emitted[m.of]
        BY <3>1 DEF EmitCallback
      <3>3. QED
        BY <2>4, <3>1, <3>2 DEF FunctionsOwn
    <2>6. CASE \E f \in Functions : SrvEmitAsync(f)
      <3>1. PICK f \in Functions : SrvEmitAsync(f)
        BY <2>6
      <3>2. PICK m :
                /\ m = EmitCallback(0, Len(emitted) + 1, f)
                /\ s2c' = Append(s2c, m) /\ emitted' = Append(emitted, f)
        BY <3>1 DEF SrvEmitAsync
      <3>3. m.fn = f /\ m.of = Len(emitted) + 1
        BY <3>2 DEF EmitCallback
      <3>4. QED
        BY <2>2, <2>4, <3>2, <3>3
    <2>7. CASE SrvReply
      <3>1. PICK m :
                /\ m = Response(AsNumber(Head(srvStack).id), Head(srvStack).of)
                /\ s2c' = Append(s2c, m) /\ emitted' = emitted
        BY <2>7 DEF SrvReply
      <3>2. m \notin EvenEmit
        BY <3>1 DEF Response, EvenEmit
      <3>3. QED
        BY <2>4, <3>1, <3>2 DEF FunctionsOwn
    <2>8. CASE UNCHANGED <<s2c, emitted>>
      BY <2>1, <2>8 DEF FunctionsOwn
    <2>9. QED
      BY <1>3, <2>3, <2>5, <2>6, <2>7, <2>8
      DEF ServerNext, SrvJsStep, SrvReader, SrvPop, SrvWait, SrvWake, SrvReturn, SrvTimeout,
          SrvTsfn, SrvRecvReply, SrvSetValue, SrvRecvMessage
  <1>4. CASE UNCHANGED vars
    BY <1>4 DEF vars, wireVars, clientVars, serverVars, FunctionsOwn
  <1>5. QED
    BY <1>2, <1>3, <1>4 DEF Next

\* One reply to an emission is on the wire at most, and none when it has its answer.
RepliedOnce == Once(c2s, EvenReply) /\ \A e \in RepliedTo : srvAnswer[e] = 0

\* A callback replies when it ends, and it runs once.
LEMMA RepliedOnceKept ==
    ASSUME IInv, EInv, RepliedOnce, [Next]_vars
    PROVE  RepliedOnce'
  <1>1. /\ c2s \in Seq(OddRequest \cup EvenReply)
        /\ cliStack \in Seq(CliFrameByParity)
        /\ srvAnswer \in [Emits -> 0 .. MaxEmits]
    BY DEF IInv, WireByParity, FramesByParity, MapsTyped
  <1>2. CASE ClientNext /\ UNCHANGED serverVars
    <2>1. srvAnswer' = srvAnswer
      BY <1>2 DEF serverVars
    <2>2. ASSUME NEW m \in OddRequest \cup EvenReply, c2s' = Append(c2s, m),
                 m \in EvenReply => m.of \in Running
          PROVE  RepliedOnce'
      <3>1. m \in EvenReply => m.of \notin RepliedTo /\ srvAnswer[m.of] = 0
        BY <2>2 DEF EInv, RunOnce
      <3>2. Once(Append(c2s, m), EvenReply)
        BY <1>1, <3>1, OnceAppend DEF RepliedOnce, RepliedTo
      <3>3. \A a : a \in Numbers(Append(c2s, m), EvenReply) <=>
                     a \in Numbers(c2s, EvenReply) \/ (m \in EvenReply /\ a = m.of)
        BY <1>1, AppendNumbers
      <3>4. QED
        BY <2>1, <2>2, <3>1, <3>2, <3>3 DEF RepliedOnce, RepliedTo
    <2>3. CASE CliSend
      <3>1. Request(Head(cliStack).id, Head(cliStack).of) \in OddRequest
        BY <2>3, CliTop DEF IInv, CliSend, TopIs, Blocked, Request, OddRequest
      <3>2. PICK m \in OddRequest : m = Request(Head(cliStack).id, Head(cliStack).of)
        BY <3>1
      <3>3. m \notin EvenReply
        BY DEF OddRequest, EvenReply
      <3>4. QED
        BY <2>2, <2>3, <3>2, <3>3 DEF CliSend
    <2>4. CASE CliCallbackReturn
      <3>1. /\ cliStack # <<>> /\ Head(cliStack).id \in EvenIds /\ Head(cliStack).of \in Emits
            /\ Head(cliStack).pc = "run" /\ Head(cliStack) \in CliFrameByParity
        BY <2>4, CliTop DEF IInv, CliCallbackReturn, TopIs
      <3>2. CASE Head(cliStack).id > 0
        <4>1. PICK m \in EvenReply :
                  m = CallbackReply(Head(cliStack).id, Head(cliStack).of) /\ m.of = Head(cliStack).of
          <5>1. CallbackReply(Head(cliStack).id, Head(cliStack).of) \in EvenReply
            BY <3>1, <3>2 DEF CallbackReply, EvenReply
          <5>2. QED
            BY <5>1 DEF CallbackReply
        <4>2. Head(cliStack) \in Callback
          BY <3>1 DEF CliFrameByParity, Callback, Blocked
        <4>3. m.of \in Running
          BY <1>1, <3>1, <4>1, <4>2, TailNumbers DEF Running
        <4>4. QED
          BY <2>2, <2>4, <3>2, <4>1, <4>3 DEF CliCallbackReturn
      <3>3. CASE ~(Head(cliStack).id > 0)
        BY <2>1, <2>4, <3>3 DEF CliCallbackReturn, RepliedOnce, RepliedTo
      <3>4. QED
        BY <3>2, <3>3
    <2>5. CASE c2s' = c2s
      BY <2>1, <2>5 DEF RepliedOnce, RepliedTo
    <2>6. QED
      BY <1>2, <2>3, <2>4, <2>5
      DEF ClientNext, CliJsStep, CliReader, CliCall, CliPop, CliDrop, CliWait, CliWake,
          CliReturn, CliTimeout, CliCallbackThrow, CliTsfn, CliRecvAnswer, CliSetValue,
          CliRecvEmit, CliRecvDrop
  <1>3. CASE ServerNext /\ UNCHANGED clientVars
    <2>1. ASSUME c2s # <<>>, c2s' = Tail(c2s)
          PROVE  /\ Once(c2s', EvenReply) /\ \A e \in RepliedTo' : e \in RepliedTo
                 /\ Head(c2s) \in EvenReply => Head(c2s).of \notin RepliedTo'
      BY <1>1, <2>1, OnceTail, TailNumbers DEF RepliedOnce, RepliedTo
    <2>2. CASE SrvSetValue
      <3>1. /\ c2s # <<>> /\ c2s' = Tail(c2s) /\ Head(c2s) \in EvenReply
            /\ Head(c2s).of = srvPromise
            /\ srvAnswer' = [srvAnswer EXCEPT ![srvPromise] = srvPromise]
        BY <2>2 DEF SrvSetValue, EInv, OwnReply
      <3>2. \A e \in Emits : e # srvPromise => srvAnswer'[e] = srvAnswer[e]
        BY <1>1, <3>1
      <3>3. \A e \in RepliedTo : e \in Emits
        BY DEF RepliedTo, Numbers, EvenReply
      <3>4. QED
        BY <2>1, <3>1, <3>2, <3>3 DEF RepliedOnce
    <2>3. CASE SrvRecvMessage
      <3>1. c2s # <<>> /\ c2s' = Tail(c2s) /\ srvAnswer' = srvAnswer
        BY <2>3 DEF SrvRecvMessage
      <3>2. QED
        BY <2>1, <3>1 DEF RepliedOnce
    <2>4. CASE UNCHANGED <<c2s, srvAnswer>>
      BY <2>4 DEF RepliedOnce, RepliedTo
    <2>5. QED
      BY <1>3, <2>2, <2>3, <2>4
      DEF ServerNext, SrvJsStep, SrvReader, SrvEmitSync, SrvSend, SrvEmitAsync, SrvPop, SrvWait,
          SrvWake, SrvReturn, SrvTimeout, SrvTsfn, SrvReply, SrvRecvReply
  <1>4. CASE UNCHANGED vars
    BY <1>4 DEF vars, wireVars, clientVars, serverVars, RepliedOnce, RepliedTo
  <1>5. QED
    BY <1>2, <1>3, <1>4 DEF Next

\* Where a synchronous emission can be, or why it need not be anywhere.
Situated(i, e) ==
    Due(i, e) \/ Replied(i, e) \/ srvAnswer[e] # 0 \/ e \in thrown \/ emitted[e] \notin Bound
SrvUnsent(e) == TopIs("send", srvStack) /\ Head(srvStack).of = e

\* Whoever waits is there, unless it is about to send.
EmissionsPlaced == \A i \in Ids, e \in Emits : Waits(i, e) => SrvUnsent(e) \/ Situated(i, e)

\* A callback stays on the client's stack as activations come, go on and go above it.
LEMMA CallbacksStay ==
    ASSUME NEW s \in Seq(CliFrameByParity)
    PROVE  /\ \A f, i, e : Has(s, Callback, i, e) => Has(Push(f, s), Callback, i, e)
           /\ \A f \in Callback : Has(Push(f, s), Callback, f.id, f.of)
           /\ s # <<>> =>
                \A i, e : Has(s, Callback, i, e) =>
                  \/ Has(Tail(s), Callback, i, e)
                  \/ Head(s).pc = "run" /\ Head(s).id = i /\ Head(s).of = e
           /\ s # <<>> /\ Head(s).pc \in Blocked =>
                \A pc, i, e : Has(s, Callback, i, e) => Has(Goto(pc, s), Callback, i, e)
  <1>1. ASSUME NEW t \in Seq(CliFrameByParity), NEW f
        PROVE  \A i, e : Has(Push(f, t), Callback, i, e) <=>
                           Has(t, Callback, i, e) \/ (f \in Callback /\ f.id = i /\ f.of = e)
    <2>1. PICK F : F = CliFrameByParity \cup {f}
      OBVIOUS
    <2>2. PICK g \in F : g = f
      BY <2>1
    <2>3. t \in Seq(F)
      BY <2>1, SeqMonotonic
    <2>4. \A i, e : Has(Push(g, t), Callback, i, e) <=>
                      Has(t, Callback, i, e) \/ (g \in Callback /\ g.id = i /\ g.of = e)
      BY <2>3, HasPush
    <2>5. QED
      BY <2>2, <2>4
  <1>2. \A f \in Callback : f.pc = "run"
    BY DEF Callback
  <1>3. ASSUME s # <<>>
        PROVE  /\ Tail(s) \in Seq(CliFrameByParity)
               /\ \A i, e : Has(s, Callback, i, e) =>
                    \/ Has(Tail(s), Callback, i, e)
                    \/ Head(s).pc = "run" /\ Head(s).id = i /\ Head(s).of = e
    BY <1>2, <1>3, TailNumbers, HasTail
  <1>4. ASSUME s # <<>>, Head(s).pc \in Blocked, NEW pc
        PROVE  \A i, e : Has(s, Callback, i, e) => Has(Goto(pc, s), Callback, i, e)
    <2>1. PICK t \in Seq(CliFrameByParity) : t = Tail(s)
      BY <1>3, <1>4
    <2>2. PICK g : g = Frame(pc, Head(s).id, Head(s).of)
      OBVIOUS
    <2>3. Goto(pc, s) = Push(g, t)
      BY <2>1, <2>2 DEF Goto
    <2>4. Head(s).pc # "run"
      BY <1>4 DEF Blocked
    <2>5. \A i, e : Has(s, Callback, i, e) => Has(t, Callback, i, e)
      BY <1>3, <1>4, <2>1, <2>4
    <2>6. \A i, e : Has(t, Callback, i, e) => Has(Push(g, t), Callback, i, e)
      BY <1>1
    <2>7. QED
      BY <2>3, <2>5, <2>6
  <1>5. QED
    BY <1>1, <1>3, <1>4

\* The client takes no synchronous emission from its place but to the next one, but
\* for those of a function it does not know and those whose callback throws.
LEMMA SituatedClient ==
    ASSUME IInv, FunctionsOwn, ClientNext, UNCHANGED serverVars
    PROVE  \A i, e : Situated(i, e) => Situated(i, e)'
  <1>1. /\ cliStack \in Seq(CliFrameByParity)
        /\ c2s \in Seq(OddRequest \cup EvenReply)
        /\ s2c \in Seq(OddAnswer \cup EvenAnswer \cup EvenEmit)
        /\ callbackQueue \in Seq(EvenEmit)
    BY DEF IInv, FramesByParity, WireByParity
  <1>2. srvAnswer' = srvAnswer /\ emitted' = emitted
    BY DEF serverVars
  <1>3. \A i, e : Has(c2s, EvenReply, i, e) => Has(c2s', EvenReply, i, e)
    <2>1. ASSUME NEW m, c2s' = Append(c2s, m)
          PROVE  \A i, e : Has(c2s, EvenReply, i, e) => Has(c2s', EvenReply, i, e)
      <3>1. PICK F : F = OddRequest \cup EvenReply \cup {m}
        OBVIOUS
      <3>2. PICK r \in F : r = m
        BY <3>1
      <3>3. c2s \in Seq(F)
        BY <1>1, <3>1, SeqMonotonic
      <3>4. QED
        BY <2>1, <3>2, <3>3, HasAppend
    <2>2. c2s' = c2s \/ \E m : c2s' = Append(c2s, m)
      BY DEF ClientNext, CliJsStep, CliReader, CliCall, CliSend, CliPop, CliDrop, CliWait,
        CliWake, CliReturn, CliTimeout, CliCallbackReturn, CliCallbackThrow, CliTsfn,
        CliRecvAnswer, CliSetValue, CliRecvEmit, CliRecvDrop
    <2>3. QED
      BY <2>1, <2>2
  <1>4. thrown \subseteq thrown'
    BY DEF ClientNext, CliJsStep, CliReader, CliCall, CliSend, CliPop, CliDrop, CliWait,
      CliWake, CliReturn, CliTimeout, CliCallbackReturn, CliCallbackThrow, CliTsfn,
      CliRecvAnswer, CliSetValue, CliRecvEmit, CliRecvDrop
  <1>5. SUFFICES ASSUME NEW i, NEW e, Due(i, e) PROVE Situated(i, e)'
    BY <1>2, <1>3, <1>4 DEF Situated, Replied
  <1>6. i # 0
    BY <1>5 DEF Due
  <1>7. ASSUME Has(s2c, EvenEmit, i, e)
        PROVE  Has(s2c', EvenEmit, i, e) \/ Has(callbackQueue', EvenEmit, i, e)
    <2>1. CASE CliSetValue \/ CliRecvEmit \/ CliRecvDrop
      <3>1. /\ s2c # <<>> /\ s2c' = Tail(s2c)
            /\ \/ Head(s2c) \in EvenEmit /\ callbackQueue' = Append(callbackQueue, Head(s2c))
               \/ Head(s2c).id \in OddIds
               \/ Head(s2c).type # "emitCallback"
        BY <2>1, ToClientHead
        DEF CliSetValue, CliRecvEmit, CliRecvDrop, CliTakesForAnswer, IInv, ReadersHoldAnswers
      <3>2. \/ Has(Tail(s2c), EvenEmit, i, e)
            \/ Head(s2c) \in EvenEmit /\ Head(s2c).id = i /\ Head(s2c).of = e
        BY <1>1, <1>7, <3>1, HasTail
      <3>3. Head(s2c) \in EvenEmit =>
              Head(s2c).type = "emitCallback" /\ Head(s2c).id \notin OddIds
        BY ParityDisjoint DEF EvenEmit
      <3>4. CASE Head(s2c) \in EvenEmit /\ Head(s2c).id = i /\ Head(s2c).of = e
        <4>1. callbackQueue' = Append(callbackQueue, Head(s2c))
          BY <3>1, <3>3, <3>4
        <4>2. QED
          BY <1>1, <3>4, <4>1, HasAppend
      <3>5. QED
        BY <3>1, <3>2, <3>4
    <2>2. CASE s2c' = s2c
      BY <1>7, <2>2
    <2>3. QED
      BY <2>1, <2>2 DEF ClientNext, CliJsStep, CliReader, CliCall, CliSend, CliPop, CliDrop,
        CliWait, CliWake, CliReturn, CliTimeout, CliCallbackReturn, CliCallbackThrow, CliTsfn,
        CliRecvAnswer
  <1>8. ASSUME Has(callbackQueue, EvenEmit, i, e)
        PROVE  \/ Has(callbackQueue', EvenEmit, i, e)
               \/ Has(cliStack', Callback, i, e)
               \/ emitted[e] \notin Bound
    <2>1. ASSUME callbackQueue # <<>>
          PROVE  \/ Has(Tail(callbackQueue), EvenEmit, i, e)
                 \/ /\ Head(callbackQueue) \in EvenEmit /\ Head(callbackQueue).fn = emitted[e]
                    /\ Head(callbackQueue).id = i /\ Head(callbackQueue).of = e
      BY <1>1, <1>8, <2>1, HasTail, TailNumbers DEF FunctionsOwn
    <2>2. ASSUME callbackQueue # <<>>, NEW f, RunCallback(f)
          PROVE  Has(callbackQueue', EvenEmit, i, e) \/ Has(cliStack', Callback, i, e)
      <3>1. /\ callbackQueue' = Tail(callbackQueue)
            /\ cliStack' =
                 Push(Frame("run", Head(callbackQueue).id, Head(callbackQueue).of), cliStack)
        BY <2>2 DEF RunCallback
      <3>2. CASE Head(callbackQueue) \in EvenEmit /\ Head(callbackQueue).id = i
                 /\ Head(callbackQueue).of = e
        <4>1. PICK g : g = Frame("run", i, e)
          OBVIOUS
        <4>2. g \in Callback /\ g.id = i /\ g.of = e
          BY <3>2, <4>1 DEF Frame, Callback, EvenEmit
        <4>3. QED
          BY <1>1, <3>1, <3>2, <4>1, <4>2, CallbacksStay
      <3>3. QED
        BY <2>1, <2>2, <3>1, <3>2
    <2>3. CASE CliPop \/ \E f \in Functions : CliTsfn(f)
      BY <1>8, <2>2, <2>3 DEF CliPop, CliTsfn
    <2>4. CASE CliDrop
      BY <2>1, <2>4 DEF CliDrop
    <2>5. CASE CliRecvEmit
      <3>1. PICK m \in EvenEmit : callbackQueue' = Append(callbackQueue, m)
        BY <2>5, ToClientHead DEF IInv, CliRecvEmit
      <3>2. QED
        BY <1>1, <1>8, <3>1, HasAppend
    <2>6. CASE callbackQueue' = callbackQueue
      BY <1>8, <2>6
    <2>7. QED
      BY <2>3, <2>4, <2>5, <2>6 DEF ClientNext, CliJsStep, CliReader, CliCall, CliSend,
        CliWait, CliWake, CliReturn, CliTimeout, CliCallbackReturn, CliCallbackThrow,
        CliRecvAnswer, CliSetValue, CliRecvDrop
  <1>9. ASSUME Has(cliStack, Callback, i, e)
        PROVE  Has(cliStack', Callback, i, e) \/ Has(c2s', EvenReply, i, e) \/ e \in thrown'
    <2>1. CASE (\E f \in Functions : CliTsfn(f)) \/ CliCall \/ CliPop
      <3>1. cliStack' = cliStack \/ \E f : cliStack' = Push(f, cliStack)
        BY <2>1 DEF CliTsfn, CliCall, CliPop, RunCallback
      <3>2. QED
        BY <1>1, <1>9, <3>1, CallbacksStay
    <2>2. CASE CliSend \/ CliWait \/ CliWake \/ CliReturn \/ CliTimeout
      <3>1. /\ cliStack # <<>> /\ Head(cliStack).pc \in Blocked /\ Head(cliStack).pc # "run"
            /\ cliStack' = Tail(cliStack) \/ \E pc : cliStack' = Goto(pc, cliStack)
        BY <2>2 DEF CliSend, CliWait, CliWake, CliReturn, CliTimeout, TopIs, Blocked
      <3>2. QED
        BY <1>1, <1>9, <3>1, CallbacksStay
    <2>3. CASE CliCallbackReturn
      <3>1. /\ cliStack # <<>> /\ cliStack' = Tail(cliStack)
            /\ Head(cliStack).id \in EvenIds /\ Head(cliStack).of \in Emits
        BY <2>3, CliTop DEF IInv, CliCallbackReturn, TopIs
      <3>2. CASE Head(cliStack).id = i /\ Head(cliStack).of = e
        <4>1. i > 0 /\ i \in EvenIds /\ e \in Emits
          BY <1>6, <3>1, <3>2, WireAssumption DEF EvenIds, Ids
        <4>2. PICK m \in EvenReply : m = CallbackReply(i, e) /\ m.id = i /\ m.of = e
          <5>1. CallbackReply(i, e) \in EvenReply
            BY <1>6, <4>1 DEF CallbackReply, EvenReply
          <5>2. QED
            BY <5>1 DEF CallbackReply
        <4>3. c2s' = Append(c2s, m)
          BY <2>3, <3>2, <4>1, <4>2 DEF CliCallbackReturn
        <4>4. Has(Append(c2s, m), EvenReply, i, e)
          BY <1>1, <4>2, HasAppend
        <4>5. QED
          BY <4>3, <4>4
      <3>3. QED
        BY <1>1, <1>9, <3>1, <3>2, CallbacksStay
    <2>4. CASE CliCallbackThrow
      <3>1. /\ cliStack # <<>> /\ Head(cliStack).pc = "run"
            /\ thrown' = thrown \cup {Head(cliStack).of}
            /\ \/ cliStack' = Tail(cliStack)
               \/ Tail(cliStack) # <<>> /\ cliStack' = Tail(Tail(cliStack))
        BY <2>4 DEF CliCallbackThrow, TopIs
      <3>2. SUFFICES ASSUME Head(cliStack).of # e PROVE Has(cliStack', Callback, i, e)
        BY <3>1
      <3>3. PICK t \in Seq(CliFrameByParity) : t = Tail(cliStack) /\ Has(t, Callback, i, e)
        BY <1>1, <1>9, <3>1, <3>2, CallbacksStay, CliTop DEF IInv
      <3>4. CASE t # <<>> /\ cliStack' = Tail(t)
        <4>1. /\ Len(t) \in Nat \ {0} /\ Len(t) = Len(cliStack) - 1
              /\ Head(t) = t[1] /\ t[1] = cliStack[1 + 1]
          <5>1. t \in Seq(CliFrameByParity) /\ t # <<>>
            BY <3>3, <3>4
          <5>2. Len(t) \in Nat \ {0}
            BY <5>1, EmptySeq, LenProperties
          <5>3. Head(t) = t[1]
            BY <5>1
          <5>4. /\ Len(t) = Len(cliStack) - 1
                /\ \A j \in 1 .. Len(t) : t[j] = cliStack[j + 1]
            <6>1. t = Tail(cliStack) /\ cliStack # <<>>
              BY <3>1, <3>3
            <6>2. QED
              BY <1>1, <6>1, HeadTailProperties
          <5>5. t[1] = cliStack[1 + 1]
            BY <5>2, <5>4
          <5>6. QED
            BY <5>2, <5>3, <5>4, <5>5
        <4>2. cliStack[1].pc = "run" /\ 1 \in 1 .. Len(cliStack) - 1
          BY <3>1, <4>1, CliTop DEF IInv
        <4>3. Head(t).pc # "run"
          BY <4>1, <4>2 DEF IInv, FramesByParity, RunsOnBlocked, Blocked
        <4>4. QED
          BY <3>3, <3>4, <4>3, CallbacksStay
      <3>5. QED
        BY <3>1, <3>3, <3>4
    <2>5. CASE cliStack' = cliStack
      BY <1>9, <2>5
    <2>6. QED
      BY <2>1, <2>2, <2>3, <2>4, <2>5 DEF ClientNext, CliJsStep, CliReader, CliDrop,
        CliRecvAnswer, CliSetValue, CliRecvEmit, CliRecvDrop
  <1>10. QED
    BY <1>2, <1>5, <1>6, <1>7, <1>8, <1>9 DEF Situated, Due, Replied

\* The server takes no synchronous emission from its place but to the next one: its
\* reader knows each reply that is waited for.
LEMMA EmissionsPlacedServer ==
    ASSUME IdsSuffice, IInv, PInv, EInv, EmissionsPlaced, ServerNext, UNCHANGED clientVars
    PROVE  EmissionsPlaced'
  <1>1. /\ srvStack \in Seq(SrvFrameByParity) /\ Once(srvStack, SrvWaiter)
        /\ c2s \in Seq(OddRequest \cup EvenReply)
        /\ s2c \in Seq(OddAnswer \cup EvenAnswer \cup EvenEmit)
        /\ emitted \in Seq(Functions) /\ Len(emitted) \in Nat
        /\ srvAnswer \in [Emits -> 0 .. MaxEmits]
    BY LenProperties DEF IInv, WireByParity, FramesByParity, MapsTyped, EInv, WaitersStored
  <1>2. UNCHANGED <<callbackQueue, cliStack, thrown>>
    BY DEF clientVars
  <1>3. /\ \A i, e : Waits(i, e) => i # 0 /\ e \in Emits /\ e # 0
        /\ \A i \in Ids, e \in Emits : Waits(i, e) => e \in 1 .. Len(emitted)
    <2>1. \A e \in Emits : e \in Nat /\ e >= 1
      BY WireAssumption DEF Emits
    <2>2. \A i, e : Waits(i, e) => i # 0 /\ e \in Emits /\ e # 0
      BY <2>1, KnownEmitted DEF PInv
    <2>3. \A i \in Ids, e \in Emits : Waits(i, e) => e <= Len(emitted)
      BY DEF EInv, IdsApart, Carried
    <2>4. QED
      BY <1>1, <2>1, <2>2, <2>3
  <1>4. \A i, e : Waits(i, e)' =>
          Waits(i, e) \/ (e = Len(emitted) + 1 /\ emitted' # emitted)
    <2>1. EmissionMove
      BY EmissionsServer DEF PInv
    <2>2. Len(emitted) # Len(emitted) + 1
      BY <1>1
    <2>3. QED
      BY <2>1, <2>2 DEF EmissionMove
  <1>5. ASSUME NEW m
        PROVE  \A i, e : Has(s2c, EvenEmit, i, e) => Has(Append(s2c, m), EvenEmit, i, e)
    <2>1. PICK F : F = OddAnswer \cup EvenAnswer \cup EvenEmit \cup {m}
      OBVIOUS
    <2>2. PICK x \in F : x = m
      BY <2>1
    <2>3. s2c \in Seq(F)
      BY <1>1, <2>1, SeqMonotonic
    <2>4. QED
      BY <2>2, <2>3, HasAppend
  <1>6. ASSUME UNCHANGED <<c2s, srvAnswer>>, s2c' = s2c \/ \E m : s2c' = Append(s2c, m),
               emitted' = emitted \/ \E f \in Functions : emitted' = Append(emitted, f)
        PROVE  \A i, e : e \in 1 .. Len(emitted) /\ Situated(i, e) => Situated(i, e)'
    <2>1. \A i, e : Has(s2c, EvenEmit, i, e) => Has(s2c', EvenEmit, i, e)
      BY <1>5, <1>6
    <2>2. \A e \in 1 .. Len(emitted) : emitted'[e] = emitted[e]
      BY <1>1, <1>6, AppendProperties
    <2>3. QED
      BY <1>2, <1>6, <2>1, <2>2 DEF Situated, Due, Replied
  <1>7. CASE \E f \in Functions : SrvEmitSync(f)
    <2>1. PICK g :
              /\ \E f \in Functions : emitted' = Append(emitted, f)
              /\ CanEmit
              /\ g.pc = "send" /\ g.of = Len(emitted) + 1
              /\ srvStack' = Push(g, srvStack)
              /\ UNCHANGED <<c2s, s2c, srvAnswer>>
      BY <1>7 DEF SrvEmitSync, Frame
    <2>2. Push(g, srvStack) # <<>> /\ Head(Push(g, srvStack)) = g
      <3>1. PICK F : F = SrvFrameByParity \cup {g}
        OBVIOUS
      <3>2. g \in F /\ srvStack \in Seq(F)
        BY <1>1, <3>1, SeqMonotonic
      <3>3. QED
        BY <3>2, PushHeadTail
    <2>3. TopIs("send", srvStack') /\ Head(srvStack').of = Len(emitted) + 1
      BY <2>1, <2>2 DEF TopIs
    <2>4. \A e : ~SrvUnsent(e)
      BY <2>1 DEF CanEmit, SrvUnsent, TopIs, IsRequestFrame
    <2>5. \A i \in Ids, e \in Emits : Waits(i, e) => Situated(i, e)'
      BY <1>3, <1>6, <2>1, <2>4 DEF EmissionsPlaced
    <2>6. QED
      BY <1>1, <1>4, <2>1, <2>3, <2>5 DEF EmissionsPlaced, SrvUnsent
  <1>8. CASE SrvSend
    <2>1. PICK m \in EvenEmit :
              /\ m.id = Head(srvStack).id /\ m.of = Head(srvStack).of
              /\ s2c' = Append(s2c, m) /\ UNCHANGED <<c2s, srvAnswer, emitted>>
      <3>1. /\ srvStack # <<>> /\ Head(srvStack).pc \in Blocked
            /\ s2c' = Append(s2c, EmitCallback(Head(srvStack).id, Head(srvStack).of,
                                               emitted[Head(srvStack).of]))
            /\ UNCHANGED <<c2s, srvAnswer, emitted>>
        BY <1>8 DEF SrvSend, TopIs, Blocked
      <3>2. /\ Head(srvStack).id \in EvenIds /\ Head(srvStack).of \in 1 .. Len(emitted)
            /\ Head(srvStack).of \in Emits
        BY <3>1, SrvTop DEF IInv
      <3>3. emitted[Head(srvStack).of] \in Functions
        BY <1>1, <3>2, ElementOfSeq
      <3>4. EmitCallback(Head(srvStack).id, Head(srvStack).of, emitted[Head(srvStack).of])
              \in EvenEmit
        BY <3>2, <3>3 DEF EmitCallback, EvenEmit
      <3>5. QED
        BY <3>1, <3>4 DEF EmitCallback
    <2>2. Has(Append(s2c, m), EvenEmit, m.id, m.of)
      <3>1. s2c \in Seq(OddAnswer \cup EvenAnswer \cup EvenEmit)
        BY <1>1
      <3>2. m \in OddAnswer \cup EvenAnswer \cup EvenEmit
        BY <2>1
      <3>3. QED
        BY <2>1, <3>1, <3>2, HasAppend
    <2>3. ASSUME NEW i \in Ids, NEW e \in Emits, Waits(i, e), SrvUnsent(e)
          PROVE  i = m.id /\ e = m.of
      <3>1. srvStack # <<>> /\ Head(srvStack).of = e /\ Head(srvStack).pc \in Blocked
        BY <2>3 DEF SrvUnsent, TopIs, Blocked
      <3>2. Head(srvStack) \in SrvWaiter
        BY <3>1, SrvTop, CliTop, <1>1, HeadTailProperties
        DEF IInv, SrvFrameByParity, SrvWaiter, Blocked
      <3>3. e \notin Numbers(Tail(srvStack), SrvWaiter)
        BY <1>1, <3>1, <3>2, OnceTail
      <3>4. ~Has(Tail(srvStack), SrvWaiter, i, e)
        BY <3>3, NumbersHas
      <3>5. Head(srvStack).id = i
        BY <1>1, <2>3, <3>1, <3>4, HasTail DEF Waits
      <3>6. QED
        BY <2>1, <3>1, <3>5
    <2>4. ASSUME NEW i \in Ids, NEW e \in Emits, Waits(i, e)
          PROVE  Situated(i, e)'
      <3>1. CASE SrvUnsent(e)
        BY <1>3, <2>1, <2>2, <2>3, <2>4, <3>1 DEF Situated, Due
      <3>2. CASE ~SrvUnsent(e)
        BY <1>3, <1>6, <2>1, <2>4, <3>2 DEF EmissionsPlaced
      <3>3. QED
        BY <3>1, <3>2
    <2>5. QED
      BY <1>4, <2>1, <2>4 DEF EmissionsPlaced
  <1>9. CASE (\E f \in Functions : SrvEmitAsync(f)) \/ SrvPop \/ SrvWait \/ SrvWake \/ SrvReturn
             \/ SrvTimeout \/ SrvTsfn \/ SrvReply
    <2>1. \A e : ~SrvUnsent(e)
      BY <1>9 DEF SrvEmitAsync, CanEmit, IsRequestFrame, SrvPop, SrvWait, SrvWake, SrvReturn,
        SrvTimeout, SrvTsfn, SrvReply, SrvUnsent, TopIs
    <2>2. /\ UNCHANGED <<c2s, srvAnswer>> /\ (s2c' = s2c \/ \E m : s2c' = Append(s2c, m))
          /\ emitted' = emitted \/ \E f \in Functions : emitted' = Append(emitted, f)
      BY <1>9 DEF SrvEmitAsync, SrvPop, SrvWait, SrvWake, SrvReturn, SrvTimeout, SrvTsfn, SrvReply
    <2>3. \A i, e : Waits(i, e)' => Waits(i, e)
      <3>1. CASE emitted' = emitted
        BY <1>4, <3>1
      <3>2. CASE emitted' # emitted
        <4>1. srvStack' = srvStack
          BY <1>9, <3>2 DEF SrvEmitAsync, SrvPop, SrvWait, SrvWake, SrvReturn, SrvTimeout,
            SrvTsfn, SrvReply
        <4>2. QED
          BY <4>1 DEF Waits
      <3>3. QED
        BY <3>1, <3>2
    <2>4. QED
      BY <1>3, <1>6, <2>1, <2>2, <2>3 DEF EmissionsPlaced
  <1>10. ASSUME UNCHANGED <<srvStack, s2c, emitted>>,
                \A i \in Ids, e \in Emits : Waits(i, e) /\ Situated(i, e) => Situated(i, e)'
         PROVE  EmissionsPlaced'
    BY <1>4, <1>10 DEF EmissionsPlaced, SrvUnsent
  <1>11. CASE SrvRecvReply
    <2>1. UNCHANGED <<srvStack, s2c, emitted, c2s, srvAnswer>>
      BY <1>11 DEF SrvRecvReply
    <2>2. QED
      BY <1>2, <1>10, <2>1 DEF Situated, Due, Replied
  <1>12. CASE SrvSetValue \/ SrvRecvMessage
    <2>1. /\ c2s # <<>> /\ c2s' = Tail(c2s) /\ UNCHANGED <<srvStack, s2c, emitted>>
          /\ \A e \in Emits : srvAnswer[e] # 0 => srvAnswer'[e] # 0
      <3>1. CASE SrvRecvMessage
        BY <3>1 DEF SrvRecvMessage
      <3>2. CASE SrvSetValue
        <4>1. /\ c2s # <<>> /\ c2s' = Tail(c2s) /\ UNCHANGED <<srvStack, s2c, emitted>>
              /\ srvPromise # 0 /\ srvAnswer' = [srvAnswer EXCEPT ![srvPromise] = srvPromise]
          BY <3>2 DEF SrvSetValue, EInv, OwnReply
        <4>2. QED
          BY <1>1, <4>1
      <3>3. QED
        BY <1>12, <3>1, <3>2
    <2>2. ASSUME NEW i \in Ids, NEW e \in Emits, Waits(i, e), Head(c2s) \in EvenReply,
                 Head(c2s).id = i, Head(c2s).of = e
          PROVE  srvAnswer'[e] # 0
      <3>1. CASE SrvSetValue
        <4>1. /\ srvPromise = e /\ srvAnswer' = [srvAnswer EXCEPT ![srvPromise] = srvPromise]
          BY <2>2, <3>1 DEF SrvSetValue, EInv, OwnReply
        <4>2. QED
          BY <1>1, <1>3, <2>2, <4>1
      <3>2. CASE SrvRecvMessage
        <4>1. srvPromise = 0 /\ ~SrvTakesForReply(Head(c2s)) /\ srvAnswer' = srvAnswer
          BY <3>2 DEF SrvRecvMessage
        <4>2. Stored(i, e) \/ e = srvPromise \/ srvAnswer[e] # 0
          BY <2>2 DEF EInv, WaitersStored
        <4>3. i > 0
          BY <1>3, <2>2, WireAssumption DEF Ids
        <4>4. ~Stored(i, e)
          BY <2>2, <4>1, <4>3 DEF SrvTakesForReply, Stored
        <4>5. QED
          BY <1>3, <2>2, <4>1, <4>2, <4>4
      <3>3. QED
        BY <1>12, <3>1, <3>2
    <2>3. \A i, e : Replied(i, e) =>
            Replied(i, e)' \/ (Head(c2s) \in EvenReply /\ Head(c2s).id = i /\ Head(c2s).of = e)
      BY <1>1, <2>1, HasTail DEF Replied
    <2>4. QED
      BY <1>2, <1>10, <2>1, <2>2, <2>3 DEF Situated, Due
  <1>13. QED
    BY <1>7, <1>8, <1>9, <1>11, <1>12 DEF ServerNext, SrvJsStep, SrvReader

\* No emission is in one place twice.
LEMMA EmissionsCounted ==
    ASSUME IInv, PInv, EInv, RepliedOnce, NEW e \in Emits
    PROVE  PlacesOfEmission(e) =
             One(e \in Numbers(s2c, EvenEmit)) + One(e \in Numbers(callbackQueue, EvenEmit))
               + One(e \in Running) + One(e \in RepliedTo) + One(srvAnswer[e] # 0)
  <1>1. /\ c2s \in Seq(OddRequest \cup EvenReply)
        /\ s2c \in Seq(OddAnswer \cup EvenAnswer \cup EvenEmit)
        /\ callbackQueue \in Seq(OddAnswer \cup EvenAnswer \cup EvenEmit)
        /\ cliStack \in Seq(CliFrameByParity)
    BY EmitTypes DEF PInv, IInv, FramesByParity, WireByParity
  <1>2. /\ \A m \in EvenEmit : m.of \in Nat
        /\ Once(cliStack, Callback) /\ Once(c2s, EvenReply)
        /\ Ascending(s2c, EvenEmit) /\ Ascending(callbackQueue, EvenEmit)
    BY EmitTypes DEF PInv, EmitOrder, Pipeline, EInv, RunOnce, RepliedOnce
  <1>3. Once(s2c, EvenEmit) /\ Once(callbackQueue, EvenEmit)
    BY <1>1, <1>2, AscendingOnce
  <1>4. ASSUME NEW q \in Seq(OddAnswer \cup EvenAnswer \cup EvenEmit), Once(q, EvenEmit)
        PROVE  Count(q, "emitCallback", e) = One(e \in Numbers(q, EvenEmit))
    <2>1. \A m \in OddAnswer \cup EvenAnswer \cup EvenEmit :
            m \in EvenEmit <=> m.type = "emitCallback"
      BY DEF OddAnswer, EvenAnswer, EvenEmit
    <2>2. \A i \in DOMAIN q : q[i] \in OddAnswer \cup EvenAnswer \cup EvenEmit
      BY <1>4, ElementOfSeq, LenProperties
    <2>3. PICK I : I = {i \in DOMAIN q : q[i].type = "emitCallback" /\ q[i].of = e}
      OBVIOUS
    <2>4. \A i : i \in I <=> i \in DOMAIN q /\ q[i] \in EvenEmit /\ q[i].of = e
      BY <2>1, <2>2, <2>3
    <2>5. QED
      BY <1>4, <2>3, <2>4, CountOnce DEF Count
  <1>5. Count(c2s, "callbackReply", e) = One(e \in RepliedTo)
    <2>1. \A m \in OddRequest \cup EvenReply : m \in EvenReply <=> m.type = "callbackReply"
      BY DEF OddRequest, EvenReply
    <2>2. \A i \in DOMAIN c2s : c2s[i] \in OddRequest \cup EvenReply
      BY <1>1, ElementOfSeq, LenProperties
    <2>3. PICK I : I = {i \in DOMAIN c2s : c2s[i].type = "callbackReply" /\ c2s[i].of = e}
      OBVIOUS
    <2>4. \A i : i \in I <=> i \in DOMAIN c2s /\ c2s[i] \in EvenReply /\ c2s[i].of = e
      BY <2>1, <2>2, <2>3
    <2>5. QED
      BY <1>1, <1>2, <2>3, <2>4, CountOnce DEF Count, RepliedTo
  <1>6. Cardinality({i \in DOMAIN cliStack : cliStack[i].pc = "run" /\ cliStack[i].of = e})
          = One(e \in Running)
    <2>1. \A f \in CliFrameByParity : f \in Callback <=> f.pc = "run"
      BY DEF CliFrameByParity, Callback, Blocked
    <2>2. \A i \in DOMAIN cliStack : cliStack[i] \in CliFrameByParity
      BY <1>1, ElementOfSeq, LenProperties
    <2>3. PICK I : I = {i \in DOMAIN cliStack : cliStack[i].pc = "run" /\ cliStack[i].of = e}
      OBVIOUS
    <2>4. \A i : i \in I <=> i \in DOMAIN cliStack /\ cliStack[i] \in Callback /\ cliStack[i].of = e
      BY <2>1, <2>2, <2>3
    <2>5. QED
      BY <1>1, <1>2, <2>3, <2>4, CountOnce DEF Running
  <1>7. QED
    BY <1>1, <1>3, <1>4, <1>5, <1>6 DEF PlacesOfEmission

\* Nor in two: what has been started is no longer queued, a callback that runs has not
\* replied, and an emission whose reply is on the wire has not got it.
LEMMA EmissionPlacesApart ==
    ASSUME IInv, PInv, EInv, RepliedOnce, NEW e \in Emits
    PROVE  /\ e \in Numbers(s2c, EvenEmit) => e \notin Numbers(callbackQueue, EvenEmit)
           /\ e \in Numbers(s2c, EvenEmit) \cup Numbers(callbackQueue, EvenEmit) => e \notin EmitLog
           /\ e \in Running \cup RepliedTo \/ srvAnswer[e] # 0 => e \in EmitLog
           /\ e \in Running => e \notin RepliedTo /\ srvAnswer[e] = 0
           /\ e \in RepliedTo => srvAnswer[e] = 0
  <1>1. ~(e < e)
    BY WireAssumption DEF Emits
  <1>2. \A a \in Numbers(callbackQueue, EvenEmit), b \in Numbers(s2c, EvenEmit) : a < b
    BY DEF PInv, EmitOrder, Pipeline
  <1>3. e \in Numbers(s2c, EvenEmit) \cup Numbers(callbackQueue, EvenEmit) => e \notin EmitLog
    <2>1. \A i : Has(s2c, EvenEmit, i, e) \/ Has(callbackQueue, EvenEmit, i, e) => e \notin EmitLog
      BY StartedOnce DEF PInv
    <2>2. e \in Numbers(s2c, EvenEmit) => \E i : Has(s2c, EvenEmit, i, e)
      BY DEF Numbers, Has
    <2>3. e \in Numbers(callbackQueue, EvenEmit) => \E i : Has(callbackQueue, EvenEmit, i, e)
      BY DEF Numbers, Has
    <2>4. QED
      BY <2>1, <2>2, <2>3
  <1>4. QED
    BY <1>1, <1>2, <1>3 DEF EInv, RunOnce, RepliedOnce

\* What a function is emitted to stays, for as long as anybody knows of it.
THEOREM FunctionsKnown == Spec => [](IInv /\ PInv /\ FunctionsOwn)
  <1>1. Init => FunctionsOwn
    <2>1. Range(<<>>) = {}
      BY DEF Range
    <2>2. QED
      BY <2>1 DEF Init, ClientInit, FunctionsOwn
  <1>2. QED
    BY <1>1, FunctionsKept, PromiseInvariance, PTL DEF Spec

\* Whoever waits for a reply is in some place, always, as long as the server's ids
\* suffice.
THEOREM EmissionsArePlaced ==
    ASSUME IdsSuffice
    PROVE  Spec => [](IInv /\ PInv /\ EInv /\ RepliedOnce /\ EmissionsPlaced)
  <1>1. Init => RepliedOnce /\ EmissionsPlaced
    <2>1. Range(<<>>) = {} /\ DOMAIN <<>> = {}
      BY DEF Range
    <2>2. Init => c2s = <<>> /\ srvStack = <<>>
      BY DEF Init, ServerInit
    <2>3. QED
      BY <2>1, <2>2 DEF RepliedOnce, RepliedTo, Numbers, Once, EmissionsPlaced, Waits, Has
  <1>2. IInv /\ EInv /\ RepliedOnce /\ [Next]_vars => RepliedOnce'
    BY RepliedOnceKept
  <1>3. IInv /\ PInv /\ EInv /\ FunctionsOwn /\ EmissionsPlaced /\ [Next]_vars => EmissionsPlaced'
    <2>1. SUFFICES ASSUME IInv, PInv, EInv, FunctionsOwn, EmissionsPlaced, [Next]_vars
                   PROVE  EmissionsPlaced'
      OBVIOUS
    <2>2. CASE ClientNext /\ UNCHANGED serverVars
      <3>1. \A i, e : Situated(i, e) => Situated(i, e)'
        BY <2>1, <2>2, SituatedClient
      <3>2. srvStack' = srvStack
        BY <2>2 DEF serverVars
      <3>3. QED
        BY <2>1, <3>1, <3>2 DEF EmissionsPlaced, Waits, SrvUnsent
    <2>3. CASE ServerNext /\ UNCHANGED clientVars
      BY <2>1, <2>3, EmissionsPlacedServer
    <2>4. CASE UNCHANGED vars
      BY <2>1, <2>4
      DEF vars, wireVars, clientVars, serverVars, EmissionsPlaced, Situated, Due, Replied, Waits,
          SrvUnsent
    <2>5. QED
      BY <2>1, <2>2, <2>3, <2>4 DEF Next
  <1>4. QED
    BY <1>1, <1>2, <1>3, EmissionInvariance, FunctionsKnown, PTL DEF Spec

\* A synchronous emission that the server waits for is in exactly one place, but for
\* those nobody replies to, as long as the server's ids suffice (SkylineRpc's
\* EmissionNeverLost).
THEOREM EmissionsNeverLost ==
    ASSUME IdsSuffice
    PROVE  Spec => []EmissionNeverLost
  <1>1. IInv /\ PInv /\ EInv /\ RepliedOnce /\ EmissionsPlaced => EmissionNeverLost
    <2>1. SUFFICES ASSUME IInv, PInv, EInv, RepliedOnce, EmissionsPlaced,
                          NEW frame \in FramesOf(srvStack, Waiting)
                   PROVE  \/ PlacesOfEmission(frame.of) = IF frame.of \in thrown THEN 0 ELSE 1
                          \/ emitted[frame.of] \notin Bound /\ PlacesOfEmission(frame.of) = 0
      BY DEF EmissionNeverLost
    <2>2. srvStack \in Seq(SrvFrameByParity) /\ Once(srvStack, SrvWaiter)
      BY <2>1 DEF IInv, FramesByParity, EInv, WaitersStored
    <2>3. PICK j \in DOMAIN srvStack : frame = srvStack[j] /\ srvStack[j].pc \in Waiting
      BY <2>1 DEF FramesOf
    <2>4. \A f \in SrvFrameByParity : f.pc \in Blocked => f \in SrvWaiter
      <3>1. Len(emitted) \in Nat /\ Len(emitted) <= MaxEmits
        BY <2>1, LenProperties DEF IInv, MapsTyped
      <3>2. \A e \in 1 .. Len(emitted) : e \in Emits
        BY <3>1, WireAssumption DEF Emits
      <3>3. QED
        BY <3>2 DEF SrvFrameByParity, SrvWaiter, Blocked
    <2>5. frame \in SrvWaiter
      BY <2>2, <2>3, <2>4, ElementOfSeq, LenProperties DEF Waiting, Blocked
    <2>6. PICK e \in Emits, i \in Ids : e = frame.of /\ i = frame.id /\ Waits(i, e)
      BY <2>3, <2>5 DEF Waits, Has, Range, SrvWaiter, EvenIds
    <2>7. ~SrvUnsent(e)
      <3>1. SUFFICES ASSUME SrvUnsent(e) PROVE FALSE
        OBVIOUS
      <3>2. /\ 1 \in DOMAIN srvStack /\ srvStack[1] \in SrvFrameByParity
            /\ srvStack[1].pc = "send" /\ srvStack[1].of = e
        BY <2>2, <3>1, HeadTailProperties, LenProperties, EmptySeq DEF SrvUnsent, TopIs
      <3>3. srvStack[1] \in SrvWaiter
        BY <2>4, <3>2 DEF Blocked
      <3>4. 1 = j
        BY <2>2, <2>3, <2>5, <2>6, <3>2, <3>3 DEF Once
      <3>5. QED
        BY <2>3, <3>2, <3>4 DEF Waiting
    <2>8. Situated(i, e)
      BY <2>1, <2>6, <2>7 DEF EmissionsPlaced
    <2>9. e \in thrown => /\ e \in EmitLog /\ e \notin Running /\ e \notin RepliedTo
                          /\ srvAnswer[e] = 0
      BY <2>1 DEF EInv, FailedDone
    <2>10. Due(i, e) \/ Replied(i, e) =>
             \/ e \in Numbers(s2c, EvenEmit) \/ e \in Numbers(callbackQueue, EvenEmit)
             \/ e \in Running \/ e \in RepliedTo
      BY NumbersHas DEF Due, Replied, Running, RepliedTo
    <2>11. QED
      BY <2>1, <2>6, <2>8, <2>9, <2>10, EmissionsCounted, EmissionPlacesApart DEF Situated, One
  <1>2. QED
    BY <1>1, EmissionsArePlaced, PTL

-----------------------------------------------------------------------------
(* What is queued without an invocation.                                   *)

\* The emissions of unknown functions that the client has read.
Arrived == {e \in Strays : e \notin Numbers(s2c, EvenEmit) /\ ~SrvUnsent(e)}

\* Only these are queued and not posted.
FewStranded ==
    /\ IsFiniteSet(Pending)
    /\ Len(callbackQueue) <= Cardinality(Pending) + Cardinality(Arrived)

\* What is pending, as pairs; a post adds one, an invocation takes one.
LEMMA PendingPosts ==
    ASSUME cliTsfn \in [Functions -> Nat], NEW f \in Functions
    PROVE  /\ cliTsfn' = [cliTsfn EXCEPT ![f] = @ + 1] =>
                \E p : p \notin Pending /\ Pending' = Pending \cup {p}
           /\ cliTsfn[f] > 0 /\ cliTsfn' = [cliTsfn EXCEPT ![f] = @ - 1] =>
                \E p \in Pending : Pending' = Pending \ {p}
  <1>1. \A p : p \in Pending <=>
          \E g \in Functions : \E n \in 1 .. cliTsfn[g] : p = <<g, n>>
    BY DEF Pending
  <1>2. \A p : p \in Pending' <=>
          \E g \in Functions : \E n \in 1 .. cliTsfn'[g] : p = <<g, n>>
    BY DEF Pending
  <1>3. ASSUME cliTsfn' = [cliTsfn EXCEPT ![f] = @ + 1]
        PROVE  \E p : p \notin Pending /\ Pending' = Pending \cup {p}
    <2>1. /\ \A g \in Functions : g # f => cliTsfn'[g] = cliTsfn[g]
          /\ cliTsfn'[f] = cliTsfn[f] + 1
      BY <1>3
    <2>2. 1 .. (cliTsfn[f] + 1) = (1 .. cliTsfn[f]) \cup {cliTsfn[f] + 1}
      OBVIOUS
    <2>3. <<f, cliTsfn[f] + 1>> \notin Pending
      BY <1>1
    <2>4. Pending' = Pending \cup {<<f, cliTsfn[f] + 1>>}
      BY <1>1, <1>2, <2>1, <2>2
    <2>5. QED
      BY <2>3, <2>4
  <1>4. ASSUME cliTsfn[f] > 0, cliTsfn' = [cliTsfn EXCEPT ![f] = @ - 1]
        PROVE  \E p \in Pending : Pending' = Pending \ {p}
    <2>1. /\ \A g \in Functions : g # f => cliTsfn'[g] = cliTsfn[g]
          /\ cliTsfn'[f] = cliTsfn[f] - 1
      BY <1>4
    <2>2. 1 .. (cliTsfn[f] - 1) = (1 .. cliTsfn[f]) \ {cliTsfn[f]}
      BY <1>4
    <2>3. <<f, cliTsfn[f]>> \in Pending
      BY <1>1, <1>4
    <2>4. Pending' = Pending \ {<<f, cliTsfn[f]>>}
      BY <1>1, <1>2, <2>1, <2>2
    <2>5. QED
      BY <2>3, <2>4
  <1>5. QED
    BY <1>3, <1>4

\* A log has finitely many numbers.
LEMMA NumbersOfLogFinite ==
    ASSUME NEW F, NEW q \in Seq(F), NEW A \in SUBSET DOMAIN q
    PROVE  IsFiniteSet(A) /\ Cardinality(A) \in Nat
  <1>1. DOMAIN q = 1 .. Len(q) /\ Len(q) \in Nat
    BY LenProperties
  <1>2. IsFiniteSet(DOMAIN q)
    BY <1>1, FS_Interval
  <1>3. QED
    BY <1>2, FS_Subset, FS_CardinalityType

\* An activation of the server's stack that is about to send has just been pushed.
LEMMA UnsentIsNew ==
    ASSUME IInv, PInv, ServerNext, TopIs("send", srvStack')
    PROVE  \/ srvStack' = srvStack
           \/ \E f \in Functions : SrvEmitSync(f) /\ Head(srvStack').of = Len(emitted) + 1
  <1>1. srvStack \in Seq(SrvFrameByParity) /\ SendsLast(srvStack, Len(emitted))
    BY DEF IInv, FramesByParity, PInv, EmitOrder
  <1>2. ASSUME NEW f, NEW s \in Seq(SrvFrameByParity)
        PROVE  Head(Push(f, s)) = f
    <2>1. PICK F : F = SrvFrameByParity \cup {f}
      OBVIOUS
    <2>2. f \in F /\ s \in Seq(F)
      BY <2>1, SeqMonotonic
    <2>3. QED
      BY <2>2, PushHeadTail
  <1>3. CASE \E f \in Functions : SrvEmitSync(f)
    <2>1. PICK f \in Functions : SrvEmitSync(f)
      BY <1>3
    <2>2. PICK g : srvStack' = Push(g, srvStack) /\ g.of = Len(emitted) + 1
      BY <2>1 DEF SrvEmitSync, Frame
    <2>3. QED
      BY <1>1, <1>2, <2>1, <2>2
  <1>4. CASE SrvSend \/ SrvWait \/ SrvWake
    <2>1. PICK pc, f :
              /\ pc # "send" /\ srvStack # <<>>
              /\ f = Frame(pc, Head(srvStack).id, Head(srvStack).of)
              /\ srvStack' = Push(f, Tail(srvStack))
      BY <1>4 DEF SrvSend, SrvWait, SrvWake, TopIs, Goto
    <2>2. Tail(srvStack) \in Seq(SrvFrameByParity)
      BY <1>1, <2>1, HeadTailProperties
    <2>3. Head(srvStack') = f
      BY <1>2, <2>1, <2>2
    <2>4. QED
      BY <2>1, <2>3 DEF TopIs, Frame
  <1>5. CASE SrvReturn \/ SrvTimeout \/ SrvReply
    <2>1. srvStack # <<>> /\ srvStack' = Tail(srvStack)
      BY <1>5 DEF SrvReturn, SrvTimeout, SrvReply, TopIs
    <2>2. QED
      BY <1>1, <2>1, SendsTail
  <1>6. CASE SrvPop \/ SrvTsfn
    <2>1. srvStack' = srvStack \/ HandleMessage
      BY <1>6 DEF SrvPop, SrvTsfn
    <2>2. ASSUME HandleMessage
          PROVE  FALSE
      <3>1. PICK f : srvStack' = Push(f, srvStack) /\ f.pc = "run"
        BY <2>2 DEF HandleMessage, Frame
      <3>2. Head(srvStack') = f
        BY <1>1, <1>2, <3>1
      <3>3. QED
        BY <3>1, <3>2 DEF TopIs
    <2>3. QED
      BY <2>1, <2>2
  <1>7. CASE srvStack' = srvStack
    BY <1>7
  <1>8. QED
    BY <1>3, <1>4, <1>5, <1>6, <1>7
    DEF ServerNext, SrvJsStep, SrvReader, SrvEmitAsync, SrvRecvReply, SrvSetValue, SrvRecvMessage

\* What the client has read, it has read.
LEMMA ArrivedStay ==
    ASSUME IInv, PInv, [Next]_vars
    PROVE  Arrived \subseteq Arrived'
  <1>1. /\ s2c \in Seq(OddAnswer \cup EvenAnswer \cup EvenEmit)
        /\ srvStack \in Seq(SrvFrameByParity)
        /\ emitted \in Seq(Functions) /\ Len(emitted) \in Nat /\ DOMAIN emitted = 1 .. Len(emitted)
    BY LenProperties DEF IInv, WireByParity, FramesByParity, MapsTyped
  <1>2. CASE ClientNext /\ UNCHANGED serverVars
    <2>1. emitted' = emitted /\ srvStack' = srvStack
      BY <1>2 DEF serverVars
    <2>2. s2c' = s2c \/ (s2c # <<>> /\ s2c' = Tail(s2c))
      BY <1>2 DEF IInv, ReadersHoldAnswers, ClientNext, CliJsStep, CliReader, CliCall, CliSend,
        CliPop, CliDrop, CliWait, CliWake, CliReturn, CliTimeout, CliCallbackReturn,
        CliCallbackThrow, CliTsfn, CliRecvAnswer, CliSetValue, CliRecvEmit, CliRecvDrop
    <2>3. \A e \in Numbers(s2c', EvenEmit) : e \in Numbers(s2c, EvenEmit)
      BY <1>1, <2>2, TailNumbers
    <2>4. QED
      BY <2>1, <2>3 DEF Arrived, Strays, SrvUnsent
  <1>3. CASE ServerNext /\ UNCHANGED clientVars
    <2>1. SUFFICES ASSUME NEW e \in Arrived PROVE e \in Arrived'
      OBVIOUS
    <2>2. /\ e \in 1 .. Len(emitted) /\ emitted[e] \notin Bound
          /\ e \notin Numbers(s2c, EvenEmit) /\ ~SrvUnsent(e)
      BY <1>1 DEF Arrived, Strays
    <2>3. emitted' = emitted \/ \E f \in Functions : emitted' = Append(emitted, f)
      BY <1>3 DEF ServerNext, SrvJsStep, SrvReader, SrvEmitSync, SrvSend, SrvEmitAsync, SrvPop,
        SrvWait, SrvWake, SrvReturn, SrvTimeout, SrvTsfn, SrvReply, SrvRecvReply, SrvSetValue,
        SrvRecvMessage
    <2>4. e \in DOMAIN emitted' /\ emitted'[e] = emitted[e]
      <3>1. emitted \in Seq(Functions) /\ DOMAIN emitted = 1 .. Len(emitted) /\ Len(emitted) \in Nat
        BY LenProperties DEF IInv, MapsTyped
      <3>2. ASSUME NEW f \in Functions, emitted' = Append(emitted, f)
            PROVE  e \in DOMAIN emitted' /\ emitted'[e] = emitted[e]
        <4>1. /\ Append(emitted, f) \in Seq(Functions)
              /\ Len(Append(emitted, f)) = Len(emitted) + 1
              /\ \A i \in 1 .. Len(emitted) : Append(emitted, f)[i] = emitted[i]
          BY <3>1, AppendProperties
        <4>2. DOMAIN Append(emitted, f) = 1 .. Len(emitted) + 1
          BY <4>1, LenProperties
        <4>3. e \in 1 .. Len(emitted) + 1
          BY <2>2, <3>1
        <4>4. QED
          BY <2>2, <3>2, <4>1, <4>2, <4>3
      <3>3. QED
        BY <2>2, <2>3, <3>1, <3>2
    <2>5. ~SrvUnsent(e)'
      <3>1. e # Len(emitted) + 1
        BY <1>1, <2>2
      <3>2. QED
        BY <1>3, <2>2, <3>1, UnsentIsNew DEF SrvUnsent
    <2>6. e \notin Numbers(s2c', EvenEmit)
      <3>1. CASE s2c' = s2c
        BY <2>2, <3>1
      <3>2. ASSUME NEW m, s2c' = Append(s2c, m), m \in EvenEmit => m.of # e
            PROVE  e \notin Numbers(s2c', EvenEmit)
        <4>1. PICK F : F = OddAnswer \cup EvenAnswer \cup EvenEmit \cup {m}
          OBVIOUS
        <4>2. PICK x \in F : x = m
          BY <4>1
        <4>3. s2c \in Seq(F)
          BY <1>1, <4>1, SeqMonotonic
        <4>4. \A a : a \in Numbers(Append(s2c, x), EvenEmit) <=>
                       a \in Numbers(s2c, EvenEmit) \/ (x \in EvenEmit /\ a = x.of)
          BY <4>3, AppendNumbers
        <4>5. QED
          BY <2>2, <3>2, <4>2, <4>4
      <3>3. CASE SrvSend
        <4>1. PICK m : s2c' = Append(s2c, m) /\ SrvUnsent(m.of)
          BY <3>3 DEF SrvSend, SrvUnsent, EmitCallback
        <4>2. QED
          BY <2>2, <3>2, <4>1
      <3>4. CASE \E f \in Functions : SrvEmitAsync(f)
        <4>1. PICK m : s2c' = Append(s2c, m) /\ m.of = Len(emitted) + 1
          BY <3>4 DEF SrvEmitAsync, EmitCallback
        <4>2. QED
          BY <1>1, <2>2, <3>2, <4>1
      <3>5. CASE SrvReply
        <4>1. PICK m : s2c' = Append(s2c, m) /\ m.type = "response"
          BY <3>5 DEF SrvReply, Response
        <4>2. m \notin EvenEmit
          BY <4>1 DEF EvenEmit
        <4>3. QED
          BY <3>2, <4>1, <4>2
      <3>6. QED
        BY <1>3, <3>1, <3>3, <3>4, <3>5 DEF ServerNext, SrvJsStep, SrvReader, SrvEmitSync,
          SrvPop, SrvWait, SrvWake, SrvReturn, SrvTimeout, SrvTsfn, SrvRecvReply, SrvSetValue,
          SrvRecvMessage
    <2>7. QED
      BY <2>2, <2>4, <2>5, <2>6 DEF Arrived, Strays
  <1>4. CASE UNCHANGED vars
    BY <1>4 DEF vars, wireVars, serverVars, Arrived, Strays, SrvUnsent
  <1>5. QED
    BY <1>2, <1>3, <1>4 DEF Next

\* A stray that the client reads has arrived from then on, and not before.
LEMMA StrayArrives ==
    ASSUME IInv, PInv, FunctionsOwn, CliRecvEmit, UNCHANGED serverVars, Head(s2c).fn \notin Bound
    PROVE  \E e : e \notin Arrived /\ e \in Arrived'
  <1>1. s2c \in Seq(OddAnswer \cup EvenAnswer \cup EvenEmit) /\ s2c # <<>> /\ s2c' = Tail(s2c)
    BY DEF IInv, WireByParity, CliRecvEmit
  <1>2. PICK m \in EvenEmit : m = Head(s2c)
    BY <1>1, ToClientHead DEF IInv, CliRecvEmit
  <1>3. m \in Range(s2c) /\ m.of \in Numbers(s2c, EvenEmit)
    BY <1>1, <1>2, TailNumbers
  <1>4. /\ m.of \in 1 .. Len(emitted) /\ m.of \in Nat /\ m.fn = emitted[m.of]
        /\ DOMAIN emitted = 1 .. Len(emitted) /\ Len(emitted) \in Nat
    BY <1>3, SentEmitted, LenProperties DEF PInv, FunctionsOwn, IInv, MapsTyped
  <1>5. m.of \notin Numbers(s2c', EvenEmit)
    <2>1. Ascending(s2c, EvenEmit)
      BY DEF PInv, EmitOrder, Pipeline
    <2>2. \A a \in Numbers(Tail(s2c), EvenEmit) : m.of < a
      BY <1>1, <1>2, <2>1, AscendingTail
    <2>3. QED
      BY <1>1, <1>4, <2>2
  <1>6. ~SrvUnsent(m.of)
    <2>1. m.of <= SentUpTo(srvStack, Len(emitted)) /\ SendsLast(srvStack, Len(emitted))
      BY <1>3 DEF PInv, EmitOrder, Pipeline
    <2>2. QED
      BY <1>4, <2>1 DEF SentUpTo, SendsLast, SrvUnsent, TopIs
  <1>7. emitted' = emitted /\ srvStack' = srvStack
    BY DEF serverVars
  <1>8. m.of \in Strays /\ m.of \in Strays' /\ ~SrvUnsent(m.of)'
    BY <1>2, <1>4, <1>6, <1>7 DEF Strays, SrvUnsent
  <1>9. QED
    BY <1>3, <1>5, <1>8 DEF Arrived

\* An emission is queued with an invocation of its function, or is a stray; one
\* invocation takes one emission.
LEMMA FewStrandedKept ==
    ASSUME IInv, PInv, FunctionsOwn, FewStranded, [Next]_vars
    PROVE  FewStranded'
  <1>1. /\ callbackQueue \in Seq(EvenEmit) /\ Len(callbackQueue) \in Nat
        /\ cliTsfn \in [Functions -> Nat]
        /\ s2c \in Seq(OddAnswer \cup EvenAnswer \cup EvenEmit)
    BY LenProperties DEF IInv, WireByParity, MapsTyped
  <1>2. /\ IsFiniteSet(Arrived) /\ IsFiniteSet(Arrived') /\ Cardinality(Arrived) \in Nat
        /\ Cardinality(Arrived') \in Nat /\ Cardinality(Arrived) <= Cardinality(Arrived')
    <2>1. IInv'
      BY NextIInv
    <2>2. /\ emitted \in Seq(Functions) /\ Arrived \in SUBSET DOMAIN emitted
          /\ emitted' \in Seq(Functions) /\ Arrived' \in SUBSET DOMAIN emitted'
      BY <2>1 DEF IInv, MapsTyped, Arrived, Strays
    <2>3. /\ IsFiniteSet(Arrived) /\ IsFiniteSet(Arrived')
          /\ Cardinality(Arrived) \in Nat /\ Cardinality(Arrived') \in Nat
      BY <2>2, NumbersOfLogFinite
    <2>4. Arrived \in SUBSET Arrived'
      BY ArrivedStay
    <2>5. QED
      BY <2>3, <2>4, FS_Subset
  <1>3. /\ IsFiniteSet(Pending) /\ Cardinality(Pending) \in Nat
        /\ Len(callbackQueue) <= Cardinality(Pending) + Cardinality(Arrived)
    BY FS_CardinalityType DEF FewStranded
  <1>4. ASSUME cliTsfn' = cliTsfn, Len(callbackQueue') \in Nat,
               Len(callbackQueue') <= Len(callbackQueue)
        PROVE  FewStranded'
    BY <1>2, <1>3, <1>4 DEF FewStranded, Pending
  <1>5. callbackQueue # <<>> => /\ Len(Tail(callbackQueue)) = Len(callbackQueue) - 1
                                /\ Len(callbackQueue) > 0
    BY <1>1, HeadTailProperties, EmptySeq
  <1>6. CASE CliRecvEmit /\ UNCHANGED serverVars
    <2>1. PICK m \in EvenEmit : m = Head(s2c) /\ m.fn \in Functions
      BY <1>1, <1>6, ToClientHead DEF IInv, CliRecvEmit, EvenEmit
    <2>2. Len(callbackQueue') = Len(callbackQueue) + 1
      <3>1. callbackQueue' = Append(callbackQueue, m)
        BY <1>6, <2>1 DEF CliRecvEmit
      <3>2. QED
        BY <1>1, <3>1, AppendProperties
    <2>3. CASE m.fn \in Bound
      <3>1. cliTsfn' = [cliTsfn EXCEPT ![m.fn] = @ + 1]
        BY <1>6, <2>1, <2>3 DEF CliRecvEmit, CliPost
      <3>2. PICK p : p \notin Pending /\ Pending' = Pending \cup {p}
        BY <1>1, <2>1, <3>1, PendingPosts
      <3>3. IsFiniteSet(Pending') /\ Cardinality(Pending') = Cardinality(Pending) + 1
        BY <1>3, <3>2, FS_AddElement
      <3>4. QED
        BY <1>1, <1>2, <1>3, <2>2, <3>3 DEF FewStranded
    <2>4. CASE m.fn \notin Bound
      <3>1. Pending' = Pending
        BY <1>6, <2>1, <2>4 DEF CliRecvEmit, CliPost, Pending
      <3>2. PICK e : e \notin Arrived /\ e \in Arrived'
        BY <1>6, <2>1, <2>4, StrayArrives
      <3>3. /\ IsFiniteSet(Arrived \cup {e})
            /\ Cardinality(Arrived \cup {e}) = Cardinality(Arrived) + 1
        BY <1>2, <3>2, FS_AddElement
      <3>4. Arrived \cup {e} \in SUBSET Arrived'
        BY <3>2, ArrivedStay
      <3>5. Cardinality(Arrived \cup {e}) <= Cardinality(Arrived')
        BY <1>2, <3>4, FS_Subset
      <3>6. QED
        BY <1>1, <1>2, <1>3, <2>2, <3>1, <3>3, <3>5 DEF FewStranded
    <2>5. QED
      BY <2>3, <2>4
  <1>7. CASE \E f \in Functions : CliTsfn(f)
    <2>1. PICK f \in Functions : CliTsfn(f)
      BY <1>7
    <2>2. cliTsfn[f] > 0 /\ cliTsfn' = [cliTsfn EXCEPT ![f] = @ - 1]
      BY <2>1 DEF CliTsfn
    <2>3. PICK p \in Pending : Pending' = Pending \ {p}
      BY <1>1, <2>2, PendingPosts
    <2>4. IsFiniteSet(Pending') /\ Cardinality(Pending') = Cardinality(Pending) - 1
      BY <1>3, <2>3, FS_RemoveElement
    <2>5. CASE callbackQueue # <<>>
      <3>1. callbackQueue' = Tail(callbackQueue)
        BY <2>1, <2>5 DEF CliTsfn, RunCallback
      <3>2. QED
        BY <1>1, <1>2, <1>3, <1>5, <2>4, <2>5, <3>1 DEF FewStranded
    <2>6. CASE callbackQueue = <<>>
      <3>1. callbackQueue' = <<>> /\ Len(<<>>) = 0
        BY <2>1, <2>6, EmptySeq DEF CliTsfn
      <3>2. Cardinality(Pending') \in Nat
        BY <2>4, FS_CardinalityType
      <3>3. QED
        BY <1>2, <2>4, <3>1, <3>2 DEF FewStranded
    <2>7. QED
      BY <2>5, <2>6
  <1>8. CASE CliPop \/ CliDrop
    <2>1. callbackQueue # <<>> /\ callbackQueue' = Tail(callbackQueue) /\ cliTsfn' = cliTsfn
      BY <1>8 DEF CliPop, CliDrop, RunCallback
    <2>2. QED
      BY <1>1, <1>4, <1>5, <2>1
  <1>9. CASE UNCHANGED <<cliTsfn, callbackQueue>>
    BY <1>1, <1>4, <1>9
  <1>10. QED
    BY <1>6, <1>7, <1>8, <1>9
    DEF Next, ClientNext, CliJsStep, CliReader, CliCall, CliSend, CliWait, CliWake, CliReturn,
        CliTimeout, CliCallbackReturn, CliCallbackThrow, CliRecvAnswer, CliSetValue, CliRecvDrop,
        vars, clientVars

\* No more emissions are stranded in the queue than functions were unknown (SkylineRpc's
\* NoStrandedCallback).
THEOREM FewCallbacksStranded == Spec => []NoStrandedCallback
  <1>1. Init => FewStranded
    <2>1. SUFFICES ASSUME Init PROVE FewStranded
      OBVIOUS
    <2>2. /\ callbackQueue = <<>> /\ Len(<<>>) = 0 /\ emitted = <<>> /\ DOMAIN <<>> = {}
          /\ cliTsfn = [f \in Functions |-> 0]
      BY <2>1, EmptySeq DEF Init, ClientInit, ServerInit
    <2>3. Pending = {} /\ Arrived = {}
      BY <2>2 DEF Pending, Arrived, Strays
    <2>4. QED
      BY <2>2, <2>3, FS_EmptySet DEF FewStranded
  <1>2. IInv /\ PInv /\ FunctionsOwn /\ FewStranded /\ [Next]_vars => FewStranded'
    BY FewStrandedKept
  <1>3. IInv /\ FewStranded => NoStrandedCallback
    <2>1. SUFFICES ASSUME IInv, FewStranded PROVE NoStrandedCallback
      OBVIOUS
    <2>2. emitted \in Seq(Functions) /\ callbackQueue \in Seq(EvenEmit)
      BY <2>1 DEF IInv, MapsTyped, WireByParity
    <2>3. Strays \in SUBSET DOMAIN emitted /\ Arrived \in SUBSET DOMAIN emitted
      BY DEF Arrived, Strays
    <2>4. /\ IsFiniteSet(Strays) /\ Cardinality(Strays) \in Nat /\ Cardinality(Arrived) \in Nat
          /\ Cardinality(Pending) \in Nat /\ Len(callbackQueue) \in Nat
      BY <2>1, <2>2, <2>3, NumbersOfLogFinite, FS_CardinalityType, LenProperties DEF FewStranded
    <2>5. Cardinality(Arrived) <= Cardinality(Strays)
      <3>1. Arrived \in SUBSET Strays
        BY DEF Arrived
      <3>2. QED
        BY <2>4, <3>1, FS_Subset
    <2>6. QED
      BY <2>1, <2>4, <2>5 DEF FewStranded, NoStrandedCallback
  <1>4. QED
    BY <1>1, <1>2, <1>3, FunctionsKnown, PTL DEF Spec
=============================================================================
