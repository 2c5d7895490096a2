------------------------------- MODULE Session -------------------------------
(***************************************************************************)
(* Connections: how client processes come and go at a server.              *)
(*                                                                         *)
(* The client connects when the application asks for it                    *)
(* (client_action.cc, initSocket) and waits for the server's handshake     *)
(* (client_socket.cc, Init); each connection has a reader thread of its    *)
(* own.  The server serves one connection at a time                        *)
(* (server_socket.cc, receiveMessage), accepts the next when the last has  *)
(* ended, and answers a request to whichever client is connected when it   *)
(* gets to it.  Either process may die and start again; a client process   *)
(* numbers its requests from 1.                                            *)
(*                                                                         *)
(* A call is a request and its answer; nesting and callbacks are in        *)
(* SkylineRpc, which looks at one connection.                              *)
(***************************************************************************)
EXTENDS Naturals, Sequences

CONSTANTS
    MaxAttempts,     \* how often the handshake is tried: 5 in the code
    MaxConnections,  \* bound: TCP connections
    MaxCalls,        \* bound: calls of a client process
    MaxRestarts      \* bound: how often each process starts again

ASSUME SessionAssumption ==
    /\ MaxAttempts \in Nat \ {0} /\ MaxConnections \in Nat
    /\ MaxCalls \in Nat /\ MaxRestarts \in Nat

VARIABLES
    connections,   \* every TCP connection, oldest first
    \* the client process
    process,       \* history: its number
    phase,         \* its JS thread: "idle", in connect() ("handshake") or in a call ("waiting")
    attempts,      \* handshakes that failed in this connect()
    current,       \* the connection of the static client, or 0
    isConnected,   \* its is_connected
    readers,       \* for each connection, what its reader thread does
    requestId,
    registered,    \* the requests in socketRequest
    calls,         \* history: how many calls the process made
    \* the server process
    up,            \* whether it runs
    served,        \* the connection of its socket, or 0
    greeted,       \* whether the handshake was sent on it
    blockQueue,    \* requests read and not yet handled
    serverStarts,  \* history
    answers        \* history: calls with the requests they got the answer of

client == <<process, phase, attempts, current, isConnected, readers, requestId, registered,
            calls>>
server == <<up, served, greeted, blockQueue, serverStarts>>
vars == <<connections, client, server, answers>>

Handshake     == [type |-> "handshake"]
Answer(r)     == [type |-> "answer", to |-> r]
Request       == [process |-> process, call |-> calls + 1, id |-> requestId]
NewConnection == [client |-> TRUE, server |-> "queued", toServer |-> <<>>, toClient |-> <<>>]
Numbers       == 1 .. MaxConnections

Init ==
    /\ connections = <<>>
    /\ process = 0 /\ phase = "idle" /\ attempts = 0
    /\ current = 0 /\ isConnected = FALSE
    /\ readers = [k \in Numbers |-> "none"]
    /\ requestId = 1 /\ registered = {} /\ calls = 0
    /\ up = TRUE /\ served = 0 /\ greeted = FALSE /\ blockQueue = <<>> /\ serverStarts = 0
    /\ answers = {}

-----------------------------------------------------------------------------
\* What is left of messages under way when an end is closed.
Range(s)      == {s[n] : n \in DOMAIN s}
Remains(s)    == {SubSeq(s, 1, n) : n \in 0 .. Len(s)}
OneOfEach(S)  == {f \in [DOMAIN S -> UNION {S[k] : k \in DOMAIN S}] : \A k \in DOMAIN S : f[k] \in S[k]}

\* cs without the client's ends of the connections ks.
ClientCloses(cs, ks) == [k \in DOMAIN cs |-> IF k \in ks THEN [cs[k] EXCEPT !.client = FALSE] ELSE cs[k]]

\* TCP connects: cs with a new connection, or cs when the connection is refused.
Connected(cs) == IF up /\ Len(cs) < MaxConnections THEN Append(cs, NewConnection) ELSE cs
Last(cs)      == IF up /\ Len(cs) < MaxConnections THEN Len(cs) + 1 ELSE 0

\* initSocket returns at once when the client counts as connected.
AlreadyConnected == isConnected

\* The ClientSocket that is replaced closes, unless a reader thread holds it.
Replaced(cs) ==
    ClientCloses(cs, {k \in {current} \ {0} : readers[k] \in {"none", "ended"}})

\* connect().  When the new connection is refused, Init throws.
Connect ==
    /\ phase = "idle" /\ ~ AlreadyConnected
    /\ LET cs == Replaced(connections)
       IN /\ connections' = Connected(cs)
          /\ current' = Last(cs)
          /\ phase' = IF Last(cs) = 0 THEN "idle" ELSE "handshake"
    /\ attempts' = 0
    /\ UNCHANGED <<process, isConnected, readers, requestId, registered, calls, server, answers>>

\* Mutant of IsHandshake: the value is not compared.
AnyValue(m) == TRUE

IsHandshake(m) == m = Handshake

\* The handshake came: the reader thread starts.
HandshakeDone ==
    /\ phase = "handshake" /\ current # 0
    /\ connections[current].toClient # <<>> /\ IsHandshake(Head(connections[current].toClient))
    /\ connections' = [connections EXCEPT ![current].toClient = Tail(@)]
    /\ phase' = "idle" /\ isConnected' = TRUE
    /\ readers' = [readers EXCEPT ![current] = "check"]
    /\ UNCHANGED <<process, attempts, current, requestId, registered, calls, server, answers>>

\* Mutant of GivesUp: one attempt too many.
GivesUpLate(n) == n > MaxAttempts

GivesUp(n) == n = MaxAttempts

\* Something else came, the connection ended or there is none: the socket is closed
\* and connected anew, after the last attempt too.
HandshakeFails ==
    /\ phase = "handshake"
    /\ current # 0 =>
         \/ /\ connections[current].toClient = <<>>
            /\ connections[current].server = "closed"
         \/ /\ connections[current].toClient # <<>>
            /\ ~ IsHandshake(Head(connections[current].toClient))
    /\ LET cs == ClientCloses(connections, {current})
       IN connections' = Connected(cs) /\ current' = Last(cs)
    /\ attempts' = attempts + 1
    /\ phase' = IF GivesUp(attempts + 1) THEN "idle" ELSE "handshake"
    /\ UNCHANGED <<process, isConnected, readers, requestId, registered, calls, server, answers>>

\* sendMessageSync.  What is written to a connection that the server has closed is
\* lost, or the write fails: then the call throws, its id stays registered and the
\* ClientSocket counts as disconnected.
Call ==
    /\ phase = "idle" /\ isConnected
    /\ calls < MaxCalls
    /\ calls' = calls + 1 /\ requestId' = requestId + 2
    /\ registered' = registered \cup {Request}
    /\ \/ /\ connections[current].server # "closed"
          /\ connections' = [connections EXCEPT ![current].toServer = Append(@, Request)]
          /\ phase' = "waiting" /\ UNCHANGED isConnected
       \/ /\ connections[current].server = "closed"
          /\ UNCHANGED connections
          /\ \/ phase' = "waiting" /\ UNCHANGED isConnected
             \/ isConnected' = FALSE /\ UNCHANGED phase
    /\ UNCHANGED <<process, attempts, current, readers, server, answers>>

\* Mutant of Timeout: a call without an answer counts as a lost connection.
TimeoutDisconnects ==
    /\ phase = "waiting"
    /\ phase' = "idle" /\ isConnected' = FALSE
    /\ UNCHANGED <<connections, process, attempts, current, readers, requestId, registered, calls,
                   server, answers>>

\* After 5 s the call throws; its id stays registered.
Timeout ==
    /\ phase = "waiting"
    /\ phase' = "idle"
    /\ UNCHANGED <<connections, process, attempts, current, isConnected, readers, requestId,
                   registered, calls, server, answers>>

\* The reader thread of a ClientSocket that counts as disconnected gets the empty
\* string at once, and again.
ReaderCheck(k) ==
    /\ readers[k] = "check"
    /\ readers' = [readers EXCEPT ![k] = IF k = current /\ isConnected THEN "read" ELSE "spin"]
    /\ UNCHANGED <<connections, process, phase, attempts, current, isConnected, requestId,
                   registered, calls, server, answers>>

\* Mutant of Awaits: any answer will do.
AwaitsAny(r, m) == m.type = "answer"

\* m answers a request of the id of r.
Awaits(r, m) == m.type = "answer" /\ m.to.id = r.id

\* processMessage completes the call of the id of the answer, if it is registered;
\* the call that waits is the last.
ReaderRead(k) ==
    /\ readers[k] = "read" /\ connections[k].toClient # <<>>
    /\ connections' = [connections EXCEPT ![k].toClient = Tail(@)]
    /\ readers' = [readers EXCEPT ![k] = "check"]
    /\ LET m       == Head(connections[k].toClient)
           waiting == {r \in registered : Awaits(r, m)}
       IN /\ registered' = registered \ waiting
          /\ answers' = answers \cup {[call |-> r, answer |-> m.to] : r \in waiting}
          /\ phase' = IF phase = "waiting" /\ (\E r \in waiting : r.call = calls) THEN "idle" ELSE phase
    /\ UNCHANGED <<process, attempts, current, isConnected, requestId, calls, server>>

\* At the end of file the reader thread ends.  Nobody else learns of it.
ReaderEnds(k) ==
    /\ readers[k] = "read" /\ connections[k].toClient = <<>> /\ connections[k].server = "closed"
    /\ readers' = [readers EXCEPT ![k] = "ended"]
    /\ connections' = ClientCloses(connections, {k} \ {current})
    /\ UNCHANGED <<process, phase, attempts, current, isConnected, requestId, registered, calls,
                   server, answers>>

-----------------------------------------------------------------------------
\* accept() takes the oldest connection of the backlog, whether its client is still
\* there or not.
Accept ==
    /\ up /\ served = 0
    /\ \E k \in DOMAIN connections :
         /\ connections[k].server = "queued"
         /\ \A j \in 1 .. k - 1 : connections[j].server # "queued"
         /\ connections' = [connections EXCEPT ![k].server = "open"]
         /\ served' = k
    /\ greeted' = FALSE
    /\ UNCHANGED <<client, up, blockQueue, serverStarts, answers>>

\* cs with m written to the served connection, if there is one.
Sent(cs, m) == IF served = 0 THEN cs ELSE [cs EXCEPT ![served].toClient = Append(@, m)]

\* The handshake is written after the socket has been open for a moment.
Greet ==
    /\ served # 0 /\ ~ greeted
    /\ connections' = Sent(connections, Handshake)
    /\ greeted' = TRUE
    /\ UNCHANGED <<client, up, served, blockQueue, serverStarts, answers>>

ServerRead ==
    /\ served # 0 /\ greeted /\ connections[served].toServer # <<>>
    /\ blockQueue' = Append(blockQueue, Head(connections[served].toServer))
    /\ connections' = [connections EXCEPT ![served].toServer = Tail(@)]
    /\ UNCHANGED <<client, up, served, greeted, serverStarts, answers>>

\* Mutant of ServerDrops: the socket stays open, and the next read fails again.
ServerDropsNothing ==
    /\ served # 0 /\ connections[served].toServer = <<>> /\ ~ connections[served].client
    /\ UNCHANGED vars

\* A read at the end of file fails, or the handshake to a client that is gone: the
\* socket is closed and the next connection is awaited.
ServerDrops ==
    /\ served # 0 /\ ~ connections[served].client
    /\ connections[served].toServer = <<>> \/ ~ greeted
    /\ \E left \in Remains(connections[served].toClient) :
         connections' = [connections EXCEPT ![served].server = "closed", ![served].toClient = left]
    /\ served' = 0
    /\ UNCHANGED <<client, up, greeted, blockQueue, serverStarts, answers>>

\* The JS thread handles a request and answers on the socket there is, if any.
ServerHandle ==
    /\ up /\ blockQueue # <<>>
    /\ blockQueue' = Tail(blockQueue)
    /\ connections' = Sent(connections, Answer(Head(blockQueue)))
    /\ UNCHANGED <<client, up, served, greeted, serverStarts, answers>>

-----------------------------------------------------------------------------
\* Each process may die; the kernel closes its sockets.
ClientRestart ==
    /\ process < MaxRestarts
    /\ process' = process + 1
    /\ \E left \in OneOfEach([k \in DOMAIN connections |-> Remains(connections[k].toServer)]) :
         connections' = [k \in DOMAIN connections |->
             [connections[k] EXCEPT !.client = FALSE, !.toServer = left[k]]]
    /\ phase' = "idle" /\ attempts' = 0 /\ current' = 0 /\ isConnected' = FALSE
    /\ readers' = [k \in Numbers |-> "none"]
    /\ requestId' = 1 /\ registered' = {} /\ calls' = 0
    /\ UNCHANGED <<server, answers>>

ServerDies ==
    /\ up
    /\ up' = FALSE /\ served' = 0 /\ greeted' = FALSE /\ blockQueue' = <<>>
    /\ \E left \in OneOfEach([k \in DOMAIN connections |-> Remains(connections[k].toClient)]) :
         connections' = [k \in DOMAIN connections |->
             [connections[k] EXCEPT !.server = "closed", !.toClient = left[k]]]
    /\ UNCHANGED <<client, serverStarts, answers>>

ServerStarts ==
    /\ ~ up /\ serverStarts < MaxRestarts
    /\ up' = TRUE /\ serverStarts' = serverStarts + 1
    /\ UNCHANGED <<connections, client, served, greeted, blockQueue, answers>>

ClientSteps ==
    \/ HandshakeDone \/ HandshakeFails \/ Timeout
    \/ \E k \in DOMAIN connections : ReaderCheck(k) \/ ReaderRead(k) \/ ReaderEnds(k)

ReadSteps == Accept \/ Greet \/ ServerRead \/ ServerDrops

Next ==
    \/ Connect \/ Call \/ ClientSteps
    \/ ReadSteps \/ ServerHandle
    \/ ClientRestart \/ ServerDies \/ ServerStarts

Spec == Init /\ [][Next]_vars

\* The server's reader thread runs, and the client's JS thread inside connect().
Fairness ==
    /\ WF_vars(ReadSteps)
    /\ WF_vars(HandshakeDone \/ HandshakeFails)

LiveSpec == Spec /\ Fairness
-----------------------------------------------------------------------------
Ids      == {2 * n - 1 : n \in 1 .. MaxCalls + 1}
Requests == [process : 0 .. MaxRestarts, call : 1 .. MaxCalls, id : Ids]
Values   == {Handshake} \cup {Answer(r) : r \in Requests}

\* Connections, threads and processes are in states the program can be in: one
\* connection at most is served, and it is the one the server has open; a reader
\* thread that still reads has a connected socket; the client waits for a
\* handshake or an answer only as initSocket and sendMessageSync do.
TypeOK ==
    /\ Len(connections) <= MaxConnections
    /\ \A k \in DOMAIN connections :
         /\ connections[k].client \in BOOLEAN
         /\ connections[k].server \in {"queued", "open", "closed"}
         /\ connections[k].server = "open" <=> k = served
         /\ Range(connections[k].toServer) \subseteq Requests
         /\ Range(connections[k].toClient) \subseteq Values
    /\ process \in 0 .. MaxRestarts
    /\ phase \in {"idle", "handshake", "waiting"}
    /\ attempts \in 0 .. MaxAttempts /\ (phase = "handshake" => attempts < MaxAttempts)
    /\ current \in {0} \cup DOMAIN connections
    /\ isConnected \in BOOLEAN /\ (isConnected => current # 0 /\ readers[current] # "none")
    /\ readers \in [Numbers -> {"none", "check", "read", "spin", "ended"}]
    /\ requestId \in Ids /\ calls \in 0 .. MaxCalls /\ registered \subseteq Requests
    /\ up \in BOOLEAN /\ served \in {0} \cup DOMAIN connections
    /\ greeted \in BOOLEAN /\ serverStarts \in 0 .. MaxRestarts
    /\ Range(blockQueue) \subseteq Requests
    /\ answers \subseteq [call : Requests, answer : Requests]

\* A client that is connected has taken the handshake of its connection: the reader
\* thread never meets it in the stream of framed messages, even when the answer to
\* an earlier client's request was written before it.
HandshakeFirst ==
    isConnected => Handshake \notin Range(connections[current].toClient)

\* The answer a call gets is its own or answers a request that an earlier client
\* process made and nobody took; a call never gets the answer of another call of
\* its process, whatever timeouts, lost connections and reconnections came between.
AnswersOwnOrEarlier ==
    \A a \in answers : a.answer = a.call \/ a.answer.process < a.call.process

\* The client never stops reading from a connection the server still writes to.
NoDeafReader ==
    \A k \in DOMAIN connections :
        readers[k] \in {"spin", "ended"} => connections[k].server = "closed"

\* connect() returns or throws: as long as the server's reader thread runs, no
\* connection of a client that has gone keeps the next client waiting.
ConnectEnds == phase = "handshake" ~> phase # "handshake"
=============================================================================
