-------------------------- MODULE StyleSheetBarrier --------------------------
(***************************************************************************)
(* The barrier of packages/typescript/src/server.ts:111-137.  The engine   *)
(* crashes if it renders after appendCompiledStyleSheets and before the    *)
(* appendStyleSheets that follows it, so having replied to the first the   *)
(* server's JS thread blocks in blockUntilNextMessage                      *)
(* (packages/native/src/server/server_action.cc:304-308), on a condition   *)
(* variable which the reader thread notifies after each message it has     *)
(* read (line 121).  The wait has no predicate: a notification that comes  *)
(* before it is lost.                                                      *)
(*                                                                         *)
(* Clients make MaxRounds rounds of the two calls, both synchronous; calls *)
(* are numbered 1, 2, ..., the odd ones are appendCompiledStyleSheets.  A   *)
(* client may go, which notifies nobody either, and another take its place *)
(* (its calls are numbered on; see Session for those of one number).       *)
(***************************************************************************)
EXTENDS Naturals, Sequences

CONSTANTS
    MaxRounds,   \* bound: how many rounds the clients start
    MaxTimeouts, \* bound: how many calls may time out
    MaxGone      \* bound: how many clients go

ASSUME BarrierAssumption == MaxRounds \in Nat /\ MaxTimeouts \in Nat /\ MaxGone \in Nat

VARIABLES
    c2s, s2c,    \* requests and answers on the wire: numbers of calls
    waitingFor,  \* the call the client waits for, or 0
    made,        \* how many calls the client has made (or given up making)
    timeouts,    \* history: how many calls timed out
    gone,        \* whether the client has gone and the server not accepted another
    clientsGone, \* history: how many clients have gone
    blockQueue,  \* requests read and not yet handled
    srvTsfn,     \* invocations pending on messageHandleTsfn that handle a request
    notices,     \* those that say that a client has disconnected
    reader,      \* reader thread: "receive", or "notify" after processMessage
    js,          \* JS thread: "loop", "handle", "replied" or "blocked"
    handling     \* the call the JS thread handles, or 0

clientVars == <<waitingFor, made, timeouts, gone, clientsGone>>
vars == <<c2s, s2c, clientVars, blockQueue, srvTsfn, notices, reader, js, handling>>

IsCompiled(k) == k % 2 = 1

Init ==
    /\ c2s = <<>> /\ s2c = <<>>
    /\ waitingFor = 0 /\ made = 0 /\ timeouts = 0
    /\ gone = FALSE /\ clientsGone = 0
    /\ blockQueue = <<>> /\ srvTsfn = 0 /\ notices = 0
    /\ reader = "receive"
    /\ js = "loop" /\ handling = 0

-----------------------------------------------------------------------------
(* The client.                                                             *)

CliCall ==
    /\ ~gone /\ waitingFor = 0
    /\ made < 2 * MaxRounds
    /\ made' = made + 1
    /\ waitingFor' = made + 1
    /\ c2s' = Append(c2s, made + 1)
    /\ UNCHANGED <<s2c, timeouts, gone, clientsGone, blockQueue, srvTsfn, notices, reader, js, handling>>

\* An answer ends the call it belongs to; a late one is ignored.
CliRecv ==
    /\ s2c # <<>>
    /\ s2c' = Tail(s2c)
    /\ waitingFor' = IF Head(s2c) = waitingFor THEN 0 ELSE waitingFor
    /\ UNCHANGED <<c2s, made, timeouts, gone, clientsGone, blockQueue, srvTsfn, notices, reader, js, handling>>

\* Mutant of CliTimeout: the call after appendStyleSheets is skipped too.
CliTimeoutSkips ==
    /\ waitingFor # 0
    /\ timeouts < MaxTimeouts
    /\ timeouts' = timeouts + 1
    /\ waitingFor' = 0
    /\ made' = made + 1
    /\ UNCHANGED <<c2s, s2c, gone, clientsGone, blockQueue, srvTsfn, notices, reader, js, handling>>

\* Five seconds; the exception skips the rest of the round.
CliTimeout ==
    /\ waitingFor # 0
    /\ timeouts < MaxTimeouts
    /\ timeouts' = timeouts + 1
    /\ waitingFor' = 0
    /\ made' = IF IsCompiled(waitingFor) THEN made + 1 ELSE made
    /\ UNCHANGED <<c2s, s2c, gone, clientsGone, blockQueue, srvTsfn, notices, reader, js, handling>>

\* The client disconnects or dies; what it sent last may be lost.  The next one
\* starts with a round.
CliGone ==
    /\ ~gone
    /\ clientsGone < MaxGone
    /\ gone' = TRUE /\ clientsGone' = clientsGone + 1
    /\ \E n \in 0 .. Len(c2s) : c2s' = SubSeq(c2s, 1, n)
    /\ s2c' = <<>>
    /\ waitingFor' = 0
    /\ made' = IF IsCompiled(made) THEN made + 1 ELSE made
    /\ UNCHANGED <<timeouts, blockQueue, srvTsfn, notices, reader, js, handling>>

-----------------------------------------------------------------------------
(* The server's reader thread.                                             *)

SrvRead ==
    /\ reader = "receive"
    /\ c2s # <<>>
    /\ c2s' = Tail(c2s)
    /\ blockQueue' = Append(blockQueue, Head(c2s))
    /\ srvTsfn' = srvTsfn + 1
    /\ reader' = "notify"
    /\ UNCHANGED <<s2c, clientVars, notices, js, handling>>

\* Mutant of SrvNotify: a queued request notifies nobody.
SrvNotifyNobody ==
    /\ reader = "notify"
    /\ reader' = "receive"
    /\ UNCHANGED <<c2s, s2c, clientVars, blockQueue, srvTsfn, notices, js, handling>>

\* cv_blockUntilNextMessage.notify_all(): nothing, unless the JS thread is waiting.
SrvNotify ==
    /\ reader = "notify"
    /\ reader' = "receive"
    /\ js' = IF js = "blocked" THEN "loop" ELSE js
    /\ UNCHANGED <<c2s, s2c, clientVars, blockQueue, srvTsfn, notices, handling>>

\* Mutant of SrvReadFails: the thread ends.
SrvReadFailsEnds ==
    /\ reader = "receive"
    /\ gone /\ c2s = <<>>
    /\ gone' = FALSE
    /\ notices' = notices + 1
    /\ reader' = "ended"
    /\ UNCHANGED <<c2s, s2c, waitingFor, made, timeouts, clientsGone, blockQueue, srvTsfn, js,
                   handling>>

\* receiveMessage throws, the JS thread is to be told, and receiveMessage accepts the
\* next client.
SrvReadFails ==
    /\ reader = "receive"
    /\ gone /\ c2s = <<>>
    /\ gone' = FALSE
    /\ notices' = notices + 1
    /\ UNCHANGED <<c2s, s2c, waitingFor, made, timeouts, clientsGone, blockQueue, srvTsfn, reader,
                   js, handling>>

-----------------------------------------------------------------------------
(* The server's JS thread.                                                 *)

SrvTsfn ==
    /\ js = "loop"
    /\ srvTsfn > 0
    /\ srvTsfn' = srvTsfn - 1
    /\ handling' = Head(blockQueue)
    /\ blockQueue' = Tail(blockQueue)
    /\ js' = "handle"
    /\ UNCHANGED <<c2s, s2c, clientVars, notices, reader>>

\* "disconnected": the message callback returns at once.
SrvNotice ==
    /\ js = "loop"
    /\ notices > 0
    /\ notices' = notices - 1
    /\ UNCHANGED <<c2s, s2c, clientVars, blockQueue, srvTsfn, reader, js, handling>>

\* Execute the request, then reply; to a client that has gone, nothing is sent.
SrvHandle ==
    /\ js = "handle"
    /\ s2c' = IF gone THEN s2c ELSE Append(s2c, handling)
    /\ js' = IF IsCompiled(handling) THEN "replied" ELSE "loop"
    /\ handling' = 0
    /\ UNCHANGED <<c2s, clientVars, blockQueue, srvTsfn, notices, reader>>

\* blockUntilNextMessage: the reply is already on its way.
SrvBlock ==
    /\ js = "replied"
    /\ js' = "blocked"
    /\ UNCHANGED <<c2s, s2c, clientVars, blockQueue, srvTsfn, notices, reader,
                   handling>>

SrvJsStep == SrvTsfn \/ SrvNotice \/ SrvHandle \/ SrvBlock

SrvReaderStep == SrvRead \/ SrvNotify \/ SrvReadFails

Next ==
    \/ CliCall \/ CliRecv \/ CliTimeout \/ CliGone
    \/ SrvReaderStep
    \/ SrvJsStep

Spec == Init /\ [][Next]_vars

\* The threads run; a client need not call, and a call need not time out.
FairSpec == Spec /\ WF_vars(CliRecv) /\ WF_vars(SrvReaderStep) /\ WF_vars(SrvJsStep)

-----------------------------------------------------------------------------
\* Every variable has its type.
TypeOK ==
    /\ c2s \in Seq(1 .. made) /\ s2c \in Seq(1 .. made) /\ blockQueue \in Seq(1 .. made)
    /\ waitingFor \in 0 .. made /\ handling \in 0 .. made
    /\ made \in 0 .. 2 * MaxRounds /\ timeouts \in 0 .. MaxTimeouts
    /\ gone \in BOOLEAN /\ clientsGone \in 0 .. MaxGone
    /\ srvTsfn = Len(blockQueue) /\ notices \in 0 .. MaxGone
    /\ reader \in {"receive", "notify"}
    /\ js \in {"loop", "handle", "replied", "blocked"}

\* A message that is sent while the JS thread is blocked lifts the barrier, unless it
\* is lost with its client; the first message of the next client does so as well,
\* when the one that the barrier was raised for has gone (server_action.cc:117-132).
MessageLiftsBarrier == js = "blocked" /\ c2s # <<>> ~> js # "blocked" \/ gone

\* "On receiving appendStyleSheets, unblock" (server.ts:131): once the request
\* is in the server's hands the JS thread does not stay blocked.
AppendStyleSheetsUnblocks ==
    js = "blocked" /\ (\E i \in DOMAIN blockQueue : ~IsCompiled(blockQueue[i]))
        ~> js # "blocked"
=============================================================================
