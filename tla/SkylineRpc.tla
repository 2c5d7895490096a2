----------------------------- MODULE SkylineRpc -----------------------------
(***************************************************************************)
(* The whole RPC: client and server, four threads, joined by the wire.     *)
(* One session is modelled, from the handshake on: the socket loses and    *)
(* reorders nothing.  Synchronous calls nest in both directions: the       *)
(* engine may emit a callback while it handles a request, the callback may *)
(* call the server again, and either side may give up on the other.        *)
(***************************************************************************)
EXTENDS ClientAction, ServerAction, Functions

wireVars == <<c2s, s2c>>
vars == <<wireVars, clientVars, serverVars>>

Init ==
    /\ c2s = <<>>
    /\ s2c = <<>>
    /\ ClientInit
    /\ ServerInit

Next ==
    \/ ClientNext /\ UNCHANGED serverVars
    \/ ServerNext /\ UNCHANGED clientVars

Spec == Init /\ [][Next]_vars

\* The emissions of functions the client does not know.
Strays == {e \in DOMAIN emitted : emitted[e] \notin Bound}

\* An emission that may never be replied to: its callback threw, or it, or one
\* before it, is a stray.
Hopeless(e) == e \in thrown \/ \E i \in Strays : i <= e

(***************************************************************************)
(* Fairness.  The reader threads are always scheduled, and so are the JS   *)
(* threads: a wait loop wakes after 50 ms at the latest, libuv runs what   *)
(* was posted to a thread-safe function, and a callback or handler that    *)
(* makes no further call comes to its end.  A server that waits for a      *)
(* reply that does not come goes to sleep again and again and gets to its  *)
(* three seconds: strong fairness, since it is not always awake.  So does  *)
(* a client get to its five that waits for the answer to a call whose id   *)
(* does not fit a JS number.  Other emissions and calls may time out as    *)
(* well, but nothing relies on that, and nothing obliges the application   *)
(* to call, the engine to emit or a callback to throw.                     *)
(***************************************************************************)
Fairness ==
    /\ WF_vars(CliJsStep /\ UNCHANGED serverVars)
    /\ WF_vars(CliReader /\ UNCHANGED serverVars)
    /\ WF_vars(SrvJsStep /\ UNCHANGED clientVars)
    /\ WF_vars(SrvReader /\ UNCHANGED clientVars)
    /\ WF_vars(SrvTsfn /\ UNCHANGED clientVars)
    /\ SF_vars(SrvTimeout /\ Hopeless(Head(srvStack).of) /\ UNCHANGED clientVars)
    /\ SF_vars(CliTimeout /\ Head(cliStack).id > ExactLimit /\ UNCHANGED serverVars)
    /\ \A f \in Bound : WF_vars(CliTsfn(f) /\ UNCHANGED serverVars)

FairSpec == Spec /\ Fairness

-----------------------------------------------------------------------------
\* Every variable has its type.
TypeOK ==
    /\ c2s \in Seq(ToServer)
    /\ s2c \in Seq(ToClient)
    /\ ClientTypeOK
    /\ ServerTypeOK

-----------------------------------------------------------------------------
(* Vocabulary of the properties.                                           *)

Count(seq, type, n) ==
    Cardinality({i \in DOMAIN seq : seq[i].type = type /\ seq[i].of = n})

FramesOf(stack, pcs) == {stack[i] : i \in {j \in DOMAIN stack : stack[j].pc \in pcs}}

Waiting == {"drain", "wait"}

CliBlockedOn == {frame.of : frame \in FramesOf(cliStack, Blocked)}
SrvBlockedOn == {frame.of : frame \in FramesOf(srvStack, Blocked)}

One(condition) == IF condition THEN 1 ELSE 0

\* The invocations pending on the client's thread-safe functions.
Pending == UNION {{f} \X (1 .. cliTsfn[f]) : f \in Functions}

\* In how many places call k is: its request on the wire or in blockQueue, its
\* handler on the server's stack, its answer on the wire or delivered.
PlacesOfCall(k) ==
    Count(c2s, "request", k) + Count(blockQueue, "request", k)
      + Cardinality({i \in DOMAIN srvStack : IsRequestFrame(srvStack[i]) /\ srvStack[i].of = k})
      + Count(s2c, "response", k) + One(cliAnswer[k] # 0)

\* In how many places a synchronous emission e is, from its message to its reply.
PlacesOfEmission(e) ==
    Count(s2c, "emitCallback", e) + Count(callbackQueue, "emitCallback", e)
      + Cardinality({i \in DOMAIN cliStack : cliStack[i].pc = "run" /\ cliStack[i].of = e})
      + Count(c2s, "callbackReply", e) + One(srvAnswer[e] # 0)

-----------------------------------------------------------------------------
(* Safety.                                                                 *)

\* A call that the client waits for is in exactly one place, as long as its id
\* fits a JS number: whatever nests, times out or throws around it, its request is
\* never lost, handled twice or answered twice, and its answer is never dropped.  No
\* call at all is in two.  One whose id does not fit may be in none: the client drops
\* its answer.  (processMessage and the wait loops of both sides.)
CallNeverLost ==
    /\ \A frame \in FramesOf(cliStack, Waiting) :
         frame.id <= ExactLimit => PlacesOfCall(frame.of) = 1
    /\ \A k \in Calls : PlacesOfCall(k) <= 1

\* The same for a synchronous emission the server waits for: exactly one place.
\* Nobody will reply to one whose callback threw, and to one of a function the
\* client does not know somebody may (CliTsfn) or nobody (CliDrop).
EmissionNeverLost ==
    \A frame \in FramesOf(srvStack, Waiting) :
        \/ PlacesOfEmission(frame.of) = IF frame.of \in thrown THEN 0 ELSE 1
        \/ emitted[frame.of] \notin Bound /\ PlacesOfEmission(frame.of) = 0

\* A call is answered with what the server computed for that very call, also
\* after the ids have wrapped around (client sendMessageSync refuses an id that
\* is still registered).
CliOwnAnswer == \A k \in Calls : cliAnswer[k] \in {0, k}

\* An emission is answered with the result of that very emission's callback, as
\* long as the server's ids do not wrap around.
SrvOwnAnswer == \A e \in Emits : srvAnswer[e] \in {0, e}

\* The two sides share one id space without agreeing on ids: no request is ever
\* taken for the reply to an emission (server processMessage looks at the id
\* only), and no emission, nor the error answer to a late reply, for an answer.
NoMisrouting ==
    /\ \A i \in DOMAIN c2s : c2s[i].type = "request" => ~SrvTakesForReply(c2s[i])
    /\ \A i \in DOMAIN s2c :
         s2c[i].type = "emitCallback" \/ s2c[i].of = 0 => ~CliTakesForAnswer(s2c[i])

\* Each queued request has an invocation of messageHandleTsfn still pending: it
\* is handled even if the wait loop that would have taken it ends first.
NoStrandedRequest == Len(blockQueue) <= srvTsfn

\* Each queued emission has a thread-safe function invocation still pending: of
\* its own function or of one whose emission was taken by a wait loop.  Each
\* emission of a function the client does not know (client_action.cc:148) takes
\* an invocation from another, so as many may be stranded, and no more.
NoStrandedCallback == Len(callbackQueue) <= Cardinality(Pending) + Cardinality(Strays)

\* What a reader thread is about to set is not set: set_value would throw
\* (client_action.cc:50, server_action.cc:56).
PromisesOpen ==
    /\ cliPromise # 0 => cliAnswer[cliPromise] = 0
    /\ srvPromise # 0 => srvAnswer[srvPromise] = 0

\* socketRequest and those who wait fit each other.  Whoever waits can still be
\* woken: its promise is registered (it is stored before the send), or in the hands
\* of the reader, or already set.  And the server's map holds no other promise (a
\* timeout erases its entry); the client's may hold those of calls that ended in an
\* exception, which is all it can leak.  No promise is set twice.
RegistrationsFitWaiters ==
    /\ PromisesOpen
    /\ \A frame \in FramesOf(cliStack, Blocked) :
         \/ cliSocketRequest[frame.id] = frame.of
         \/ cliPromise = frame.of
         \/ cliAnswer[frame.of] # 0
    /\ \A frame \in FramesOf(srvStack, Blocked) :
         \/ srvSocketRequest[frame.id] = frame.of
         \/ srvPromise = frame.of
         \/ srvAnswer[frame.of] # 0
    /\ \A id \in Ids : srvSocketRequest[id] # 0 =>
         \E frame \in FramesOf(srvStack, Blocked) :
             frame.id = id /\ frame.of = srvSocketRequest[id]
    /\ \A id \in Ids : cliSocketRequest[id] # 0 =>
         \/ cliSocketRequest[id] \in cliFailed
         \/ \E frame \in FramesOf(cliStack, Blocked) :
              frame.id = id /\ frame.of = cliSocketRequest[id]

\* Nobody works for a caller that has gone on: while a request is handled its
\* call is blocked, or has failed; while a synchronous callback runs its
\* emission is blocked, or has expired.  So event.preventDefault(), called in a
\* listener, comes in time (test/webview.test.ts:214).
HandlersHaveCallers ==
    /\ \A i \in DOMAIN srvStack :
         IsRequestFrame(srvStack[i]) => srvStack[i].of \in CliBlockedOn \cup cliFailed
    /\ \A i \in DOMAIN cliStack :
         cliStack[i].pc = "run" /\ cliStack[i].id > 0 =>
             cliStack[i].of \in SrvBlockedOn \cup expired

\* Requests are handled in the order of the calls and callbacks run in the
\* order of the emissions, each once, whoever takes them off the queues.
InOrderOnce ==
    /\ \A i, j \in DOMAIN requestLog : i < j => requestLog[i] < requestLog[j]
    /\ \A i, j \in DOMAIN callbackLog : i < j => callbackLog[i].of < callbackLog[j].of

\* What a thread-safe function runs is the function the engine emitted to: "the
\* Function and the callbackId are bound together" (common/convert.cc:80).
RightFunction ==
    \A i \in DOMAIN callbackLog : callbackLog[i].fn = emitted[callbackLog[i].of]

-----------------------------------------------------------------------------
(* Refinement: what either side is promised (RemoteCall).                  *)

Started(log) == [i \in DOMAIN log |-> log[i].of]

CallsView == INSTANCE RemoteCall WITH
    asked   <- calls,
    open    <- CliBlockedOn,
    started <- requestLog,
    running <- {frame.of : frame \in FramesOf(srvStack, {"run"})} \ {0},
    failed  <- cliFailed

EmissionsView == INSTANCE RemoteCall WITH
    asked   <- Len(emitted),
    open    <- SrvBlockedOn,
    started <- Started(callbackLog),
    running <- {frame.of : frame \in FramesOf(cliStack, {"run"})},
    failed  <- thrown \cup expired

\* A call returns to the application only when the server has handled that very
\* call to its end; calls are handled in order and once; one that failed does not
\* return after all, however late its answer is (client sendMessageSync).
CallsKeepPromise == CallsView!Spec

\* The same for the engine and the callbacks it runs in the client (server
\* sendMessageSync), as long as the server's ids do not wrap around.
EmissionsKeepPromise == EmissionsView!Spec

-----------------------------------------------------------------------------
(* Liveness, under FairSpec.                                               *)

\* Every call returns or throws, however calls and emissions nest: both wait loops
\* drain, and the server's three seconds end the emissions that nobody replies to.
\* Only a call whose id does not fit a JS number needs its own time limit.
CallsReturn == \A k \in Calls : k \in CliBlockedOn ~> k \notin CliBlockedOn

\* So does every synchronous emission, and only one that may never be replied to
\* needs its time limit.
EmissionsReturn == \A e \in Emits : e \in SrvBlockedOn ~> e \notin SrvBlockedOn

\* Every emission, the asynchronous ones too, reaches a callback, unless it or one
\* before it was of a function the client does not know: such an emission takes
\* the thread-safe function of the next, which is left in the queue.
EmissionsRun ==
    \A e \in Emits :
        e \in DOMAIN emitted /\ (\A i \in Strays : i > e)
            ~> \E i \in DOMAIN callbackLog : callbackLog[i].of = e

-----------------------------------------------------------------------------
(***************************************************************************)
(* The inductive invariant behind TypeOK, NoMisrouting and                 *)
(* NoStrandedRequest (proved in SkylineRpc_proofs).  TypeOK alone is not   *)
(* inductive: that an answer is the number of a call rests on the client   *)
(* taking only answers for answers, that is, on who uses which ids.        *)
(***************************************************************************)
OddIds  == {id \in Ids : id % 2 = 1}
EvenIds == {id \in Ids : id % 2 = 0}

\* The client numbers its requests odd, the server its synchronous emissions
\* even; a reply repeats the id.  So does an answer whose id fits a JS number; the
\* others have even ids, and so have error answers.
OddRequest == [type : {"request"}, id : OddIds, of : Calls]
EvenReply  == [type : {"callbackReply"}, id : EvenIds \ {0}, of : Emits]
OddAnswer  == [type : {"response"}, id : OddIds, of : Calls]
EvenAnswer == [type : {"response"}, id : EvenIds, of : 0 .. MaxCalls]
EvenEmit   == [type : {"emitCallback"}, id : EvenIds, of : Emits, fn : Functions]

WireByParity ==
    /\ c2s \in Seq(OddRequest \cup EvenReply)
    /\ s2c \in Seq(OddAnswer \cup EvenAnswer \cup EvenEmit)
    /\ blockQueue \in Seq(OddRequest \cup EvenReply)
    /\ callbackQueue \in Seq(EvenEmit)

\* A callback runs on top of the call whose wait loop started it, or of nothing.
RunsOnBlocked(stack) ==
    \A i \in 1 .. Len(stack) - 1 : stack[i].pc = "run" => stack[i + 1].pc \in Blocked

CliFrameByParity ==
    [pc : Blocked, id : OddIds, of : Calls] \cup [pc : {"run"}, id : EvenIds, of : Emits]

SrvFrameByParity ==
    [pc : Blocked, id : EvenIds \ {0}, of : 1 .. Len(emitted)]
      \cup [pc : {"run"}, id : OddIds, of : Calls]
      \cup [pc : {"run"}, id : EvenIds, of : {0}]

FramesByParity ==
    /\ cliRequestId \in OddIds
    /\ cliStack \in Seq(CliFrameByParity) /\ RunsOnBlocked(cliStack)
    /\ srvRequestId \in EvenIds \ {0}
    /\ srvStack \in Seq(SrvFrameByParity)
    /\ \A id \in Ids : srvSocketRequest[id] # 0 => id \in EvenIds

\* While a reader holds a promise its answer is still the oldest message.
ReadersHoldAnswers ==
    /\ cliPromise # 0 => s2c # <<>> /\ Head(s2c).id \in OddIds
    /\ srvPromise # 0 => c2s # <<>> /\ Head(c2s).id \in EvenIds

\* The rest of TypeOK: the maps, the counters and the histories.
MapsTyped ==
    /\ cliSocketRequest \in [Ids -> 0 .. MaxCalls] /\ srvSocketRequest \in [Ids -> 0 .. MaxEmits]
    /\ cliAnswer \in [Calls -> 0 .. MaxCalls]      /\ srvAnswer \in [Emits -> 0 .. MaxEmits]
    /\ cliPromise \in 0 .. MaxCalls                /\ srvPromise \in 0 .. MaxEmits
    /\ cliTsfn \in [Functions -> Nat]              /\ srvTsfn \in Nat
    /\ calls \in 0 .. MaxCalls
    /\ emitted \in Seq(Functions) /\ Len(emitted) <= MaxEmits
    /\ cliFailed \subseteq Calls /\ thrown \subseteq Emits /\ expired \subseteq Emits
    /\ callbackLog \in Seq([of : Emits, fn : Functions])
    /\ requestLog \in Seq(Calls)

IInv == MapsTyped /\ WireByParity /\ FramesByParity /\ ReadersHoldAnswers /\ NoStrandedRequest
=============================================================================
