---------------------------- MODULE ClientAction ----------------------------
(***************************************************************************)
(* packages/native/src/client/client_action.cc: the client's half of the   *)
(* RPC.  Two threads: the JS thread, which makes synchronous calls and     *)
(* runs callbacks (inside a call's wait loop, or from its event loop), and *)
(* the reader thread, which takes messages off the socket.  They share     *)
(* socketRequest, callbackQueue and the thread-safe functions.             *)
(***************************************************************************)
EXTENDS Wire

CONSTANTS
    Bound,           \* the functions whose ids this client process has in its map;
                     \* the others were passed by a process it has replaced
    MaxCliTimeouts,  \* bound: when as many have failed, no call times out whose id fits a JS number
    MaxThrows        \* bound: how many callbacks may throw

ASSUME ClientAssumption ==
    Bound \subseteq Functions /\ MaxCliTimeouts \in Nat /\ MaxThrows \in Nat

VARIABLES
    cliRequestId,     \* requestId
    cliSocketRequest, \* socketRequest: id -> the call whose promise it holds, or 0
    callbackQueue,    \* emissions read and not yet run
    cliTsfn,          \* f -> invocations pending on f's thread-safe function
    cliPromise,       \* the reader's local promise: moved out, value not yet set
    cliStack,         \* the JS thread
    cliAnswer,        \* the futures: call -> request that was answered, or 0
    calls,            \* history: how many calls were made
    cliFailed,        \* history: calls that ended in an exception
    thrown,           \* history: emissions whose callback threw
    callbackLog       \* history: the callbacks run, in order, and by which function

clientVars == <<cliRequestId, cliSocketRequest, callbackQueue, cliTsfn, cliPromise,
                cliStack, cliAnswer, calls, cliFailed, thrown, callbackLog>>

ClientInit ==
    /\ cliRequestId = 1
    /\ cliSocketRequest = [id \in Ids |-> 0]
    /\ callbackQueue = <<>>
    /\ cliTsfn = [f \in Functions |-> 0]
    /\ cliPromise = 0
    /\ cliStack = <<>>
    /\ cliAnswer = [k \in Calls |-> 0]
    /\ calls = 0
    /\ cliFailed = {}
    /\ thrown = {}
    /\ callbackLog = <<>>

\* Mutant of CliReady: a wake-up passes for an answer.
CliReadyOnWake == TRUE

CliReady == cliAnswer[Head(cliStack).of] # 0

-----------------------------------------------------------------------------
(* The JS thread, inside sendMessageSync.                                  *)

\* Mutant of Registered: the entry is overwritten (no emplace).
RegisteredIgnored(id) == FALSE

Registered(id) == cliSocketRequest[id] # 0

\* Application code, or a callback that is running, makes a call: take an id,
\* store the promise.  An id still in the map refuses the call.
CliCall ==
    /\ cliStack = <<>> \/ TopIs("run", cliStack)
    /\ calls < MaxCalls
    /\ calls' = calls + 1
    /\ LET id == NextId(cliRequestId, 1) IN
         /\ cliRequestId' = id + 2
         /\ \/ /\ ~Registered(id)
               /\ cliSocketRequest' = [cliSocketRequest EXCEPT ![id] = calls + 1]
               /\ cliStack' = Push(Frame("send", id, calls + 1), cliStack)
               /\ UNCHANGED cliFailed
            \/ /\ Registered(id)
               /\ cliFailed' = cliFailed \cup {calls + 1}
               /\ UNCHANGED <<cliSocketRequest, cliStack>>
    /\ UNCHANGED <<callbackQueue, cliTsfn, cliPromise, cliAnswer, thrown, callbackLog,
                   c2s, s2c>>

CliSend ==
    /\ TopIs("send", cliStack)
    /\ c2s' = Append(c2s, Request(Head(cliStack).id, Head(cliStack).of))
    /\ cliStack' = Goto("drain", cliStack)
    /\ UNCHANGED <<cliRequestId, cliSocketRequest, callbackQueue, cliTsfn, cliPromise,
                   cliAnswer, calls, cliFailed, thrown, callbackLog, s2c>>

\* Mutant of RunCallback: front() without pop().
RunCallbackTwice(f) ==
    LET item == Head(callbackQueue) IN
      /\ UNCHANGED callbackQueue
      /\ cliStack' = Push(Frame("run", item.id, item.of), cliStack)
      /\ callbackLog' = Append(callbackLog, [of |-> item.of, fn |-> f])

\* Start the callback of the oldest emission with function f.
RunCallback(f) ==
    LET item == Head(callbackQueue) IN
      /\ callbackQueue' = Tail(callbackQueue)
      /\ cliStack' = Push(Frame("run", item.id, item.of), cliStack)
      /\ callbackLog' = Append(callbackLog, [of |-> item.of, fn |-> f])

\* Mutant of CliPop: the wait loop leaves the queue alone.
CliPopNever == FALSE

\* handleOneCallback looks the function up by the callbackId of the item.
CliPop ==
    /\ TopIs("drain", cliStack)
    /\ callbackQueue # <<>>
    /\ Head(callbackQueue).fn \in Bound
    /\ RunCallback(Head(callbackQueue).fn)
    /\ UNCHANGED <<cliRequestId, cliSocketRequest, cliTsfn, cliPromise, cliAnswer, calls,
                   cliFailed, thrown, c2s, s2c>>

\* An item whose callbackId it does not find is dropped, and not replied to.
CliDrop ==
    /\ TopIs("drain", cliStack)
    /\ callbackQueue # <<>>
    /\ Head(callbackQueue).fn \notin Bound
    /\ callbackQueue' = Tail(callbackQueue)
    /\ UNCHANGED <<cliRequestId, cliSocketRequest, cliTsfn, cliPromise, cliStack, cliAnswer,
                   calls, cliFailed, thrown, callbackLog, c2s, s2c>>

CliWait ==
    /\ TopIs("drain", cliStack)
    /\ callbackQueue = <<>>
    /\ ~CliReady
    /\ cliStack' = Goto("wait", cliStack)
    /\ UNCHANGED <<cliRequestId, cliSocketRequest, callbackQueue, cliTsfn, cliPromise,
                   cliAnswer, calls, cliFailed, thrown, callbackLog, c2s, s2c>>

\* Notified, or 50 ms have passed.
CliWake ==
    /\ TopIs("wait", cliStack)
    /\ ~CliReady
    /\ cliStack' = Goto("drain", cliStack)
    /\ UNCHANGED <<cliRequestId, cliSocketRequest, callbackQueue, cliTsfn, cliPromise,
                   cliAnswer, calls, cliFailed, thrown, callbackLog, c2s, s2c>>

\* Out of the wait the answer is taken at once, whatever is in the queue.
CliReturn ==
    /\ \/ TopIs("wait", cliStack)
       \/ TopIs("drain", cliStack) /\ callbackQueue = <<>>
    /\ CliReady
    /\ cliStack' = Tail(cliStack)
    /\ UNCHANGED <<cliRequestId, cliSocketRequest, callbackQueue, cliTsfn, cliPromise,
                   cliAnswer, calls, cliFailed, thrown, callbackLog, c2s, s2c>>

\* Five seconds: an exception; the entry of socketRequest is left behind.
CliTimeout ==
    /\ TopIs("drain", cliStack)
    /\ callbackQueue = <<>>
    /\ ~CliReady
    /\ Head(cliStack).id <= ExactLimit => Cardinality(cliFailed) < MaxCliTimeouts
    /\ cliFailed' = cliFailed \cup {Head(cliStack).of}
    /\ cliStack' = Tail(cliStack)
    /\ UNCHANGED <<cliRequestId, cliSocketRequest, callbackQueue, cliTsfn, cliPromise,
                   cliAnswer, calls, thrown, callbackLog, c2s, s2c>>

-----------------------------------------------------------------------------
(* The JS thread, callbacks.                                               *)

\* Mutant of CliTsfn: several posts to one function are run as one.
CliTsfnCoalesced(f) ==
    /\ cliStack = <<>>
    /\ cliTsfn[f] > 0
    /\ cliTsfn' = [cliTsfn EXCEPT ![f] = 0]
    /\ \/ callbackQueue # <<>> /\ RunCallback(f)
       \/ callbackQueue = <<>> /\ UNCHANGED <<callbackQueue, cliStack, callbackLog>>
    /\ UNCHANGED <<cliRequestId, cliSocketRequest, cliPromise, cliAnswer, calls,
                   cliFailed, thrown, c2s, s2c>>

\* The event loop runs a pending invocation of f's thread-safe function.  It
\* takes the oldest emission of the queue they all share, and calls f with it.
CliTsfn(f) ==
    /\ cliStack = <<>>
    /\ cliTsfn[f] > 0
    /\ cliTsfn' = [cliTsfn EXCEPT ![f] = @ - 1]
    /\ \/ callbackQueue # <<>> /\ RunCallback(f)
       \/ callbackQueue = <<>> /\ UNCHANGED <<callbackQueue, cliStack, callbackLog>>
    /\ UNCHANGED <<cliRequestId, cliSocketRequest, cliPromise, cliAnswer, calls,
                   cliFailed, thrown, c2s, s2c>>

\* A callback ends; only the emission of a synchronous one has an id to reply to.
CliCallbackReturn ==
    /\ TopIs("run", cliStack)
    /\ LET top == Head(cliStack) IN
         c2s' = IF top.id > 0 THEN Append(c2s, CallbackReply(top.id, top.of)) ELSE c2s
    /\ cliStack' = Tail(cliStack)
    /\ UNCHANGED <<cliRequestId, cliSocketRequest, callbackQueue, cliTsfn, cliPromise,
                   cliAnswer, calls, cliFailed, thrown, callbackLog, s2c>>

\* A callback throws: no reply, and the exception leaves the call whose wait
\* loop had started the callback, if there is one.
CliCallbackThrow ==
    /\ TopIs("run", cliStack)
    /\ Cardinality(thrown) < MaxThrows
    /\ thrown' = thrown \cup {Head(cliStack).of}
    /\ LET rest == Tail(cliStack) IN
         \/ /\ rest = <<>>
            /\ cliStack' = <<>>
            /\ UNCHANGED cliFailed
         \/ /\ rest # <<>>
            /\ cliStack' = Tail(rest)
            /\ cliFailed' = cliFailed \cup {Head(rest).of}
    /\ UNCHANGED <<cliRequestId, cliSocketRequest, callbackQueue, cliTsfn, cliPromise,
                   cliAnswer, calls, callbackLog, c2s, s2c>>

-----------------------------------------------------------------------------
(* The reader thread: processMessage on the oldest message.                *)

\* Mutant of CliTakesForAnswer: any id is.
CliTakesForAnswerAny(m) == m.id > 0

\* Odd ids are answers, looked up by id alone.
CliTakesForAnswer(m) == m.id % 2 = 1

\* Under the lock: move the promise out and erase the entry.
CliRecvAnswer ==
    /\ cliPromise = 0
    /\ s2c # <<>>
    /\ CliTakesForAnswer(Head(s2c))
    /\ cliSocketRequest[Head(s2c).id] # 0
    /\ cliPromise' = cliSocketRequest[Head(s2c).id]
    /\ cliSocketRequest' = [cliSocketRequest EXCEPT ![Head(s2c).id] = 0]
    /\ UNCHANGED <<cliRequestId, callbackQueue, cliTsfn, cliStack, cliAnswer, calls,
                   cliFailed, thrown, callbackLog, c2s, s2c>>

\* After the lock: set_value and notify.
CliSetValue ==
    /\ cliPromise # 0
    /\ cliAnswer' = [cliAnswer EXCEPT ![cliPromise] = Head(s2c).of]
    /\ cliPromise' = 0
    /\ s2c' = Tail(s2c)
    /\ UNCHANGED <<cliRequestId, cliSocketRequest, callbackQueue, cliTsfn, cliStack, calls,
                   cliFailed, thrown, callbackLog, c2s>>

\* What has been posted once the reader has looked for function f.
CliPost(f) == IF f \in Bound THEN [cliTsfn EXCEPT ![f] = @ + 1] ELSE cliTsfn

\* Queue an emission and post it to the thread-safe function of its callback; one
\* that has none is queued all the same.
CliRecvEmit ==
    /\ cliPromise = 0
    /\ s2c # <<>>
    /\ ~CliTakesForAnswer(Head(s2c))
    /\ Head(s2c).type = "emitCallback"
    /\ callbackQueue' = Append(callbackQueue, Head(s2c))
    /\ cliTsfn' = CliPost(Head(s2c).fn)
    /\ s2c' = Tail(s2c)
    /\ UNCHANGED <<cliRequestId, cliSocketRequest, cliPromise, cliStack, cliAnswer, calls,
                   cliFailed, thrown, callbackLog, c2s>>

\* An answer nobody is registered for, and a payload of no known type.
CliRecvDrop ==
    /\ cliPromise = 0
    /\ s2c # <<>>
    /\ IF CliTakesForAnswer(Head(s2c))
         THEN cliSocketRequest[Head(s2c).id] = 0
         ELSE Head(s2c).type # "emitCallback"
    /\ s2c' = Tail(s2c)
    /\ UNCHANGED <<cliRequestId, cliSocketRequest, callbackQueue, cliTsfn, cliPromise,
                   cliStack, cliAnswer, calls, cliFailed, thrown, callbackLog, c2s>>

-----------------------------------------------------------------------------
\* What the JS thread does of itself once it is in a call or a callback.
CliJsStep ==
    CliSend \/ CliPop \/ CliDrop \/ CliWait \/ CliWake \/ CliReturn \/ CliCallbackReturn

CliReader == CliRecvAnswer \/ CliSetValue \/ CliRecvEmit \/ CliRecvDrop

ClientNext ==
    \/ CliCall
    \/ CliJsStep
    \/ CliTimeout
    \/ CliCallbackThrow
    \/ \E f \in Functions : CliTsfn(f)
    \/ CliReader

CliFrame == [pc : Blocked, id : Ids, of : Calls] \cup [pc : {"run"}, id : Ids, of : Emits]

\* The client's part of the type invariant.
ClientTypeOK ==
    /\ cliRequestId \in Ids
    /\ cliSocketRequest \in [Ids -> 0 .. MaxCalls]
    /\ callbackQueue \in Seq(EmitMsg)
    /\ cliTsfn \in [Functions -> Nat]
    /\ cliPromise \in 0 .. MaxCalls
    /\ cliStack \in Seq(CliFrame)
    /\ cliAnswer \in [Calls -> 0 .. MaxCalls]
    /\ calls \in 0 .. MaxCalls
    /\ cliFailed \subseteq Calls
    /\ thrown \subseteq Emits
    /\ callbackLog \in Seq([of : Emits, fn : Functions])
=============================================================================
