---------------------------- MODULE ServerAction ----------------------------
(***************************************************************************)
(* packages/native/src/server/server_action.cc with the message callback   *)
(* of packages/typescript/src/server.ts and the callback closures of       *)
(* common/hook-argument.ts: the server's half of the RPC.  The JS thread   *)
(* handles requests and is where the engine emits callbacks; the reader    *)
(* thread takes messages off the socket.  They share socketRequest,        *)
(* blockQueue and the one thread-safe function.                            *)
(***************************************************************************)
EXTENDS Wire

CONSTANT MaxSrvTimeouts  \* bound: how many emissions may time out

ASSUME ServerAssumption == MaxSrvTimeouts \in Nat

VARIABLES
    srvRequestId,     \* requestId
    srvSocketRequest, \* socketRequest: id -> the emission whose promise it holds, or 0
    blockQueue,       \* messages read and not yet handled
    srvTsfn,          \* invocations pending on messageHandleTsfn
    srvPromise,       \* the reader's local promise: taken out, value not yet set
    srvStack,         \* the JS thread
    srvAnswer,        \* the futures: emission -> emission that was replied to, or 0
    emitted,          \* history: the function each emission so far is of
    expired,          \* history: emissions that timed out
    requestLog        \* history: the requests handled, in order

serverVars == <<srvRequestId, srvSocketRequest, blockQueue, srvTsfn, srvPromise,
                srvStack, srvAnswer, emitted, expired, requestLog>>

ServerInit ==
    /\ srvRequestId = 2
    /\ srvSocketRequest = [id \in Ids |-> 0]
    /\ blockQueue = <<>>
    /\ srvTsfn = 0
    /\ srvPromise = 0
    /\ srvStack = <<>>
    /\ srvAnswer = [e \in Emits |-> 0]
    /\ emitted = <<>>
    /\ expired = {}
    /\ requestLog = <<>>

SrvReady == srvAnswer[Head(srvStack).of] # 0

\* A message that is no request is answered with an error: of is then 0.
IsRequestFrame(frame) == frame.pc = "run" /\ frame.of # 0

-----------------------------------------------------------------------------
(* The engine emits a callback: from an event of its own, or while it      *)
(* handles a request.                                                      *)

CanEmit ==
    /\ srvStack # <<>> => IsRequestFrame(Head(srvStack))
    /\ Len(emitted) < MaxEmits

\* A synchronous emission, up to storing its promise: emplace is a no-op when
\* the id is still in the map.
SrvEmitSync(f) ==
    /\ CanEmit
    /\ emitted' = Append(emitted, f)
    /\ LET id == NextId(srvRequestId, 2)
           e  == Len(emitted) + 1
       IN /\ srvRequestId' = id + 2
          /\ srvSocketRequest' = [srvSocketRequest EXCEPT ![id] = IF @ = 0 THEN e ELSE @]
          /\ srvStack' = Push(Frame("send", id, e), srvStack)
    /\ UNCHANGED <<blockQueue, srvTsfn, srvPromise, srvAnswer, expired, requestLog, c2s, s2c>>

SrvSend ==
    /\ TopIs("send", srvStack)
    /\ LET top == Head(srvStack) IN
         s2c' = Append(s2c, EmitCallback(top.id, top.of, emitted[top.of]))
    /\ srvStack' = Goto("drain", srvStack)
    /\ UNCHANGED <<srvRequestId, srvSocketRequest, blockQueue, srvTsfn, srvPromise,
                   srvAnswer, emitted, expired, requestLog, c2s>>

\* The emission of an asynchronous callback carries id 0 and is not waited for.
SrvEmitAsync(f) ==
    /\ CanEmit
    /\ emitted' = Append(emitted, f)
    /\ s2c' = Append(s2c, EmitCallback(0, Len(emitted) + 1, f))
    /\ UNCHANGED <<srvRequestId, srvSocketRequest, blockQueue, srvTsfn, srvPromise,
                   srvStack, srvAnswer, expired, requestLog, c2s>>

-----------------------------------------------------------------------------
(* The JS thread, inside sendMessageSync.                                  *)

\* Mutant of HandleMessage: front() without pop().
HandleMessageTwice ==
    LET msg == Head(blockQueue)
        k   == IF msg.type = "request" THEN msg.of ELSE 0
    IN /\ UNCHANGED blockQueue
       /\ srvStack' = Push(Frame("run", msg.id, k), srvStack)
       /\ requestLog' = IF k = 0 THEN requestLog ELSE Append(requestLog, k)

\* Hand the oldest message of the queue to the message callback.  The frame keeps the
\* id it has in the queue; what the callback is given, and hands back in the end, is a
\* JS number (SrvReply), the one use that is made of the frame's id.
HandleMessage ==
    LET msg == Head(blockQueue)
        k   == IF msg.type = "request" THEN msg.of ELSE 0
    IN /\ blockQueue' = Tail(blockQueue)
       /\ srvStack' = Push(Frame("run", msg.id, k), srvStack)
       /\ requestLog' = IF k = 0 THEN requestLog ELSE Append(requestLog, k)

\* Mutant of SrvPop: the wait loop leaves the queue alone.
SrvPopNever == FALSE

SrvPop ==
    /\ TopIs("drain", srvStack)
    /\ blockQueue # <<>>
    /\ HandleMessage
    /\ UNCHANGED <<srvRequestId, srvSocketRequest, srvTsfn, srvPromise, srvAnswer, emitted,
                   expired, c2s, s2c>>

SrvWait ==
    /\ TopIs("drain", srvStack)
    /\ blockQueue = <<>>
    /\ ~SrvReady
    /\ srvStack' = Goto("wait", srvStack)
    /\ UNCHANGED <<srvRequestId, srvSocketRequest, blockQueue, srvTsfn, srvPromise,
                   srvAnswer, emitted, expired, requestLog, c2s, s2c>>

\* Notified, or 50 ms have passed.
SrvWake ==
    /\ TopIs("wait", srvStack)
    /\ ~SrvReady
    /\ srvStack' = Goto("drain", srvStack)
    /\ UNCHANGED <<srvRequestId, srvSocketRequest, blockQueue, srvTsfn, srvPromise,
                   srvAnswer, emitted, expired, requestLog, c2s, s2c>>

\* Out of the wait the reply is taken at once, whatever is in the queue.
SrvReturn ==
    /\ \/ TopIs("wait", srvStack)
       \/ TopIs("drain", srvStack) /\ blockQueue = <<>>
    /\ SrvReady
    /\ srvStack' = Tail(srvStack)
    /\ UNCHANGED <<srvRequestId, srvSocketRequest, blockQueue, srvTsfn, srvPromise,
                   srvAnswer, emitted, expired, requestLog, c2s, s2c>>

\* Mutant of SrvTimeout: the entry is left behind.
SrvTimeoutLeaks ==
    /\ TopIs("drain", srvStack)
    /\ blockQueue = <<>>
    /\ ~SrvReady
    /\ Cardinality(expired) < MaxSrvTimeouts
    /\ expired' = expired \cup {Head(srvStack).of}
    /\ UNCHANGED srvSocketRequest
    /\ srvStack' = Tail(srvStack)
    /\ UNCHANGED <<srvRequestId, blockQueue, srvTsfn, srvPromise, srvAnswer, emitted,
                   requestLog, c2s, s2c>>

\* Three seconds: the entry of the id is erased and the callback throws into
\* the engine, or into the request handler that made it emit.
SrvTimeout ==
    /\ TopIs("drain", srvStack)
    /\ blockQueue = <<>>
    /\ ~SrvReady
    /\ Cardinality(expired) < MaxSrvTimeouts
    /\ expired' = expired \cup {Head(srvStack).of}
    /\ srvSocketRequest' = [srvSocketRequest EXCEPT ![Head(srvStack).id] = 0]
    /\ srvStack' = Tail(srvStack)
    /\ UNCHANGED <<srvRequestId, blockQueue, srvTsfn, srvPromise, srvAnswer, emitted,
                   requestLog, c2s, s2c>>

-----------------------------------------------------------------------------
(* The JS thread, handling messages.                                       *)

\* Mutant of SrvTsfn: several posts are run as one.
SrvTsfnCoalesced ==
    /\ srvStack = <<>>
    /\ srvTsfn > 0
    /\ srvTsfn' = 0
    /\ \/ blockQueue # <<>> /\ HandleMessage
       \/ blockQueue = <<>> /\ UNCHANGED <<blockQueue, srvStack, requestLog>>
    /\ UNCHANGED <<srvRequestId, srvSocketRequest, srvPromise, srvAnswer, emitted, expired,
                   c2s, s2c>>

\* The event loop runs an invocation of the thread-safe function: it takes the
\* oldest message, and does nothing when a wait loop has taken them all.
SrvTsfn ==
    /\ srvStack = <<>>
    /\ srvTsfn > 0
    /\ srvTsfn' = srvTsfn - 1
    /\ \/ blockQueue # <<>> /\ HandleMessage
       \/ blockQueue = <<>> /\ UNCHANGED <<blockQueue, srvStack, requestLog>>
    /\ UNCHANGED <<srvRequestId, srvSocketRequest, srvPromise, srvAnswer, emitted, expired,
                   c2s, s2c>>

\* The message callback ends with its one reply, under the id of the message as it
\* has come back from the JS number it was made into: an odd id beyond ExactLimit is
\* another by now.  What is not a request is answered "Request type not recognized".
SrvReply ==
    /\ TopIs("run", srvStack)
    /\ s2c' = Append(s2c, Response(AsNumber(Head(srvStack).id), Head(srvStack).of))
    /\ srvStack' = Tail(srvStack)
    /\ UNCHANGED <<srvRequestId, srvSocketRequest, blockQueue, srvTsfn, srvPromise,
                   srvAnswer, emitted, expired, requestLog, c2s>>

-----------------------------------------------------------------------------
(* The reader thread: processMessage on the oldest message.                *)

\* Any id that is in the map makes the message a reply, whatever it says.
SrvTakesForReply(m) == m.id > 0 /\ srvSocketRequest[m.id] # 0

\* Under the lock: take the promise and erase the entry.
SrvRecvReply ==
    /\ srvPromise = 0
    /\ c2s # <<>>
    /\ SrvTakesForReply(Head(c2s))
    /\ srvPromise' = srvSocketRequest[Head(c2s).id]
    /\ srvSocketRequest' = [srvSocketRequest EXCEPT ![Head(c2s).id] = 0]
    /\ UNCHANGED <<srvRequestId, blockQueue, srvTsfn, srvStack, srvAnswer, emitted, expired,
                   requestLog, c2s, s2c>>

\* After the lock: set_value and notify.
SrvSetValue ==
    /\ srvPromise # 0
    /\ srvAnswer' = [srvAnswer EXCEPT ![srvPromise] = Head(c2s).of]
    /\ srvPromise' = 0
    /\ c2s' = Tail(c2s)
    /\ UNCHANGED <<srvRequestId, srvSocketRequest, blockQueue, srvTsfn, srvStack, emitted,
                   expired, requestLog, s2c>>

\* Anything else is queued, and posted to the thread-safe function.
SrvRecvMessage ==
    /\ srvPromise = 0
    /\ c2s # <<>>
    /\ ~SrvTakesForReply(Head(c2s))
    /\ blockQueue' = Append(blockQueue, Head(c2s))
    /\ srvTsfn' = srvTsfn + 1
    /\ c2s' = Tail(c2s)
    /\ UNCHANGED <<srvRequestId, srvSocketRequest, srvPromise, srvStack, srvAnswer, emitted,
                   expired, requestLog, s2c>>

-----------------------------------------------------------------------------
\* What the JS thread does of itself once it is in an emission or a handler.
SrvJsStep == SrvSend \/ SrvPop \/ SrvWait \/ SrvWake \/ SrvReturn \/ SrvReply

SrvReader == SrvRecvReply \/ SrvSetValue \/ SrvRecvMessage

ServerNext ==
    \/ \E f \in Functions : SrvEmitSync(f) \/ SrvEmitAsync(f)
    \/ SrvJsStep
    \/ SrvTimeout
    \/ SrvTsfn
    \/ SrvReader

SrvFrame == [pc : Blocked, id : Ids, of : Emits] \cup [pc : {"run"}, id : Ids, of : 0 .. MaxCalls]

\* The server's part of the type invariant.
ServerTypeOK ==
    /\ srvRequestId \in Ids
    /\ srvSocketRequest \in [Ids -> 0 .. MaxEmits]
    /\ blockQueue \in Seq(ToServer)
    /\ srvTsfn \in Nat
    /\ srvPromise \in 0 .. MaxEmits
    /\ srvStack \in Seq(SrvFrame)
    /\ srvAnswer \in [Emits -> 0 .. MaxEmits]
    /\ emitted \in Seq(Functions) /\ Len(emitted) <= MaxEmits
    /\ expired \subseteq Emits
    /\ requestLog \in Seq(Calls)
=============================================================================
