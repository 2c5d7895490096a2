--------------------------- MODULE Session_proofs ---------------------------
(***************************************************************************)
(* Proved of Session for any number of attempts, connections, calls and    *)
(* restarts: its types, that a handshake comes before all else, whose      *)
(* answer a call may get, and that no client stops reading from a          *)
(* connection the server still writes to.                                  *)
(***************************************************************************)
EXTENDS Session, TLAPS

\* A request made so far; a client process numbers its calls and ids alike.
KnownRequests == {r \in Requests : r.process <= process /\ r.id = 2 * r.call - 1}
KnownValues   == {Handshake} \cup {Answer(r) : r \in KnownRequests}
Connection    == [client : BOOLEAN, server : {"queued", "open", "closed"},
                  toServer : Seq(KnownRequests), toClient : Seq(KnownValues)]

ConnectionsTyped ==
    /\ connections \in Seq(Connection) /\ Len(connections) <= MaxConnections
    /\ \A k \in DOMAIN connections : connections[k].server = "open" <=> k = served
    /\ served \in {0} \cup DOMAIN connections
    /\ current \in {0} \cup DOMAIN connections

ClientTyped ==
    /\ process \in 0 .. MaxRestarts
    /\ phase \in {"idle", "handshake", "waiting"}
    /\ attempts \in 0 .. MaxAttempts /\ (phase = "handshake" => attempts < MaxAttempts)
    /\ isConnected \in BOOLEAN /\ (isConnected => current # 0 /\ readers[current] # "none")
    /\ readers \in [Numbers -> {"none", "check", "read", "spin", "ended"}]
    /\ calls \in 0 .. MaxCalls /\ requestId = 2 * calls + 1

ServerTyped ==
    /\ up \in BOOLEAN /\ greeted \in BOOLEAN /\ serverStarts \in 0 .. MaxRestarts
    /\ blockQueue \in Seq(KnownRequests)

\* What is registered is of this client process, and an answer of it or an earlier one.
RequestsKnown ==
    /\ registered \subseteq {r \in KnownRequests : r.process = process}
    /\ answers \subseteq [call : Requests, answer : Requests]
    /\ AnswersOwnOrEarlier

\* Handshakes among what is under way.
NoHandshake(s)       == \A n \in DOMAIN s : s[n] # Handshake
AtMostOneHandshake(s) ==
    \A m, n \in DOMAIN s : s[m] = Handshake /\ s[n] = Handshake => m = n

\* A connection is greeted once, after it was accepted, and a connected client has
\* taken the handshake of its own.
GreetedOnce ==
    /\ \A k \in DOMAIN connections :
         /\ AtMostOneHandshake(connections[k].toClient)
         /\ connections[k].server = "queued" \/ (k = served /\ ~ greeted) =>
              NoHandshake(connections[k].toClient)
    /\ isConnected =>
         /\ NoHandshake(connections[current].toClient)
         /\ connections[current].server # "queued"
         /\ current = served => greeted

\* A reader thread whose connection is not the connected one has none to read from.
ReadersFollow ==
    /\ phase = "handshake" => ~ isConnected
    /\ \A k \in Numbers : readers[k] # "none" =>
         /\ k \in DOMAIN connections
         /\ \/ k = current /\ isConnected /\ readers[k] \in {"check", "read"}
            \/ connections[k].server = "closed"

IInv ==
    /\ ConnectionsTyped /\ ClientTyped /\ ServerTyped
    /\ RequestsKnown /\ GreetedOnce /\ ReadersFollow

-----------------------------------------------------------------------------
(* Sequences.                                                              *)

\* What is left when the head is taken.
LEMMA TailIs ==
    ASSUME NEW S, NEW s \in Seq(S), s # <<>>
    PROVE  /\ Head(s) \in S /\ Head(s) = s[1] /\ 1 \in DOMAIN s
           /\ Tail(s) \in Seq(S)
           /\ \A n \in DOMAIN Tail(s) : n + 1 \in DOMAIN s /\ Tail(s)[n] = s[n + 1]
  OBVIOUS

\* What is written comes last.
LEMMA AppendIs ==
    ASSUME NEW S, NEW s \in Seq(S), NEW e \in S
    PROVE  /\ Append(s, e) \in Seq(S)
           /\ DOMAIN Append(s, e) = DOMAIN s \cup {Len(s) + 1} /\ Len(s) + 1 \notin DOMAIN s
           /\ \A n \in DOMAIN s : Append(s, e)[n] = s[n]
           /\ Append(s, e)[Len(s) + 1] = e
  OBVIOUS

\* What a closing leaves is a beginning.
LEMMA RemainsIs ==
    ASSUME NEW S, NEW s \in Seq(S), NEW left \in Remains(s)
    PROVE  /\ left \in Seq(S)
           /\ \A n \in DOMAIN left : n \in DOMAIN s /\ left[n] = s[n]
  BY DEF Remains

\* A sequence that has another's elements, in their order, has no more handshakes.
LEMMA FewerHandshakes ==
    ASSUME NEW s, NEW t, NEW d \in Nat, DOMAIN s \subseteq Nat,
           \A n \in DOMAIN s : n + d \in DOMAIN t /\ s[n] = t[n + d]
    PROVE  /\ AtMostOneHandshake(t) => AtMostOneHandshake(s)
           /\ NoHandshake(t) => NoHandshake(s)
  BY DEF AtMostOneHandshake, NoHandshake

\* When a handshake is written to what has none, there is one.
LEMMA FirstHandshake ==
    ASSUME NEW S, NEW s \in Seq(S), Handshake \in S, NoHandshake(s)
    PROVE  AtMostOneHandshake(Append(s, Handshake))
  BY AppendIs DEF AtMostOneHandshake, NoHandshake

\* Answers are none.
LEMMA NoMoreHandshakes ==
    ASSUME NEW S, NEW s \in Seq(S), NEW e \in S, e # Handshake
    PROVE  /\ AtMostOneHandshake(s) => AtMostOneHandshake(Append(s, e))
           /\ NoHandshake(s) => NoHandshake(Append(s, e))
  BY AppendIs DEF AtMostOneHandshake, NoHandshake

\* When the first of those under way is taken, none is left.
LEMMA LastHandshake ==
    ASSUME NEW S, NEW s \in Seq(S), s # <<>>, Head(s) = Handshake, AtMostOneHandshake(s)
    PROVE  NoHandshake(Tail(s))
  BY TailIs DEF AtMostOneHandshake, NoHandshake

\* A handshake is not an answer.
LEMMA HandshakeIsNoAnswer == \A r : Answer(r) # Handshake /\ Answer(r).type = "answer" /\ Answer(r).to = r
  BY DEF Answer, Handshake

-----------------------------------------------------------------------------
(* Connections.                                                            *)

\* What has values at 1 to n is a sequence.
LEMMA IsSequence ==
    ASSUME NEW S, NEW n \in Nat, NEW f \in [1 .. n -> S]
    PROVE  f \in Seq(S) /\ Len(f) = n /\ DOMAIN f = 1 .. n
  OBVIOUS

\* One connection changes.
LEMMA OneChanges ==
    ASSUME NEW S, NEW cs \in Seq(S), NEW k \in DOMAIN cs, NEW c \in S
    PROVE  /\ [cs EXCEPT ![k] = c] \in Seq(S)
           /\ Len([cs EXCEPT ![k] = c]) = Len(cs)
           /\ DOMAIN [cs EXCEPT ![k] = c] = DOMAIN cs
           /\ [cs EXCEPT ![k] = c][k] = c
           /\ \A j \in DOMAIN cs : j # k => [cs EXCEPT ![k] = c][j] = cs[j]
  OBVIOUS

\* The client closes some.
LEMMA ClosesIs ==
    ASSUME NEW cs \in Seq(Connection), NEW ks
    PROVE  /\ ClientCloses(cs, ks) \in Seq(Connection)
           /\ Len(ClientCloses(cs, ks)) = Len(cs)
           /\ DOMAIN ClientCloses(cs, ks) = DOMAIN cs
           /\ \A k \in DOMAIN cs :
                /\ ClientCloses(cs, ks)[k].server = cs[k].server
                /\ ClientCloses(cs, ks)[k].toClient = cs[k].toClient
  <1>1. \A c \in Connection :
           LET d == [c EXCEPT !.client = FALSE]
           IN d \in Connection /\ d.server = c.server /\ d.toClient = c.toClient
    BY DEF Connection
  <1>2. \A k \in DOMAIN cs : cs[k] \in Connection
    OBVIOUS
  <1>3. \A k \in DOMAIN cs : ClientCloses(cs, ks)[k] \in Connection
    BY <1>1, <1>2 DEF ClientCloses
  <1>4. QED
    BY <1>1, <1>2, <1>3 DEF ClientCloses

\* A new one is at the end.
LEMMA ConnectedIs ==
    ASSUME NEW cs \in Seq(Connection), Len(cs) <= MaxConnections, MaxConnections \in Nat
    PROVE  /\ Connected(cs) \in Seq(Connection) /\ Len(Connected(cs)) <= MaxConnections
           /\ DOMAIN cs \subseteq DOMAIN Connected(cs)
           /\ \A k \in DOMAIN cs : Connected(cs)[k] = cs[k]
           /\ \A k \in DOMAIN Connected(cs) \ DOMAIN cs : Connected(cs)[k] = NewConnection
           /\ Last(cs) \in {0} \cup DOMAIN Connected(cs)
  <1>1. NewConnection \in Connection
    BY DEF NewConnection, Connection
  <1>2. CASE up /\ Len(cs) < MaxConnections
    BY <1>1, <1>2, AppendIs DEF Connected, Last
  <1>3. CASE ~ (up /\ Len(cs) < MaxConnections)
    BY <1>3 DEF Connected, Last
  <1>4. QED
    BY <1>2, <1>3


\* What is known stays so while the client process lives.
LEMMA SameKnown ==
    ASSUME process' = process
    PROVE  Connection' = Connection /\ KnownRequests' = KnownRequests /\ KnownValues' = KnownValues
  BY DEF Connection, KnownRequests, KnownValues, Requests

\* connect() and the next attempt of it: other connections stay as the server knows them.
LEMMA Reconnects ==
    ASSUME IInv, NEW ks, process' = process, isConnected' = FALSE, ~ isConnected,
           connections' = Connected(ClientCloses(connections, ks)),
           current' = Last(ClientCloses(connections, ks)),
           readers' = readers, served' = served, greeted' = greeted
    PROVE  /\ ConnectionsTyped' /\ GreetedOnce'
           /\ \A k \in Numbers : readers'[k] # "none" =>
                /\ k \in DOMAIN connections'
                /\ connections'[k].server = "closed"
  <1>1. PICK cs : cs = ClientCloses(connections, ks)
    OBVIOUS
  <1>2. /\ cs \in Seq(Connection) /\ Len(cs) <= MaxConnections
        /\ DOMAIN cs = DOMAIN connections
        /\ \A k \in DOMAIN cs : /\ cs[k].server = connections[k].server
                                /\ cs[k].toClient = connections[k].toClient
    BY <1>1, ClosesIs DEF IInv, ConnectionsTyped
  <1>3. /\ connections' \in Seq(Connection) /\ Len(connections') <= MaxConnections
        /\ DOMAIN cs \subseteq DOMAIN connections'
        /\ \A k \in DOMAIN cs : connections'[k] = cs[k]
        /\ \A k \in DOMAIN connections' \ DOMAIN cs : connections'[k] = NewConnection
        /\ current' \in {0} \cup DOMAIN connections'
    BY <1>1, <1>2, ConnectedIs, SessionAssumption
  <1>4. /\ NewConnection.server = "queued" /\ NewConnection.toClient = <<>>
        /\ NoHandshake(<<>>) /\ AtMostOneHandshake(<<>>)
    BY DEF NewConnection, NoHandshake, AtMostOneHandshake
  <1>5. ConnectionsTyped'
    <2>1. /\ served \in {0} \cup DOMAIN connections
          /\ \A k \in DOMAIN connections : connections[k].server = "open" <=> k = served
      BY DEF IInv, ConnectionsTyped
    <2>2. \A k \in DOMAIN connections' : k # 0
      BY <1>3
    <2>3. \A k \in DOMAIN connections' : connections'[k].server = "open" <=> k = served'
      BY <1>2, <1>3, <1>4, <2>1, <2>2
    <2>4. served' \in {0} \cup DOMAIN connections' /\ Connection' = Connection
      BY <1>2, <1>3, <2>1, SameKnown
    <2>5. QED
      BY <1>3, <2>3, <2>4 DEF ConnectionsTyped
  <1>6. GreetedOnce'
    BY <1>2, <1>3, <1>4 DEF IInv, GreetedOnce
  <1>7. QED
    BY <1>2, <1>3, <1>5, <1>6 DEF IInv, ReadersFollow

-----------------------------------------------------------------------------
(* The steps of the client.                                                *)

\* connect().
LEMMA StepConnect == ASSUME IInv, Connect PROVE IInv'
  <1>1. PICK ks : Replaced(connections) = ClientCloses(connections, ks)
    BY DEF Replaced
  <1>2. /\ process' = process /\ isConnected' = isConnected /\ readers' = readers /\ ~ isConnected
        /\ requestId' = requestId /\ registered' = registered /\ calls' = calls
        /\ answers' = answers /\ attempts' = 0 /\ phase' \in {"idle", "handshake"}
        /\ UNCHANGED server
    BY DEF Connect, AlreadyConnected
  <1>3. /\ connections' = Connected(ClientCloses(connections, ks))
        /\ current' = Last(ClientCloses(connections, ks))
    BY <1>1 DEF Connect
  <1>4. isConnected' = FALSE /\ served' = served /\ greeted' = greeted
    BY <1>2 DEF IInv, ClientTyped, server
  <1>5. /\ ConnectionsTyped' /\ GreetedOnce'
        /\ \A k \in Numbers : readers'[k] # "none" =>
             /\ k \in DOMAIN connections'
             /\ connections'[k].server = "closed"
    BY <1>2, <1>3, <1>4, Reconnects
  <1>6. ClientTyped'
    BY <1>2, <1>4, SessionAssumption DEF IInv, ClientTyped
  <1>7. ServerTyped' /\ RequestsKnown'
    BY <1>2, SameKnown DEF IInv, ServerTyped, RequestsKnown, AnswersOwnOrEarlier, server
  <1>8. ReadersFollow'
    BY <1>4, <1>5 DEF ReadersFollow
  <1>9. QED
    BY <1>5, <1>6, <1>7, <1>8 DEF IInv

\* The handshake is what was expected.
LEMMA StepHandshakeDone == ASSUME IInv, HandshakeDone PROVE IInv'
  <1>1. /\ current \in DOMAIN connections /\ connections[current] \in Connection
        /\ connections[current].toClient \in Seq(KnownValues)
        /\ connections[current].toClient # <<>>
        /\ Head(connections[current].toClient) = Handshake
    <2>1. current \in DOMAIN connections /\ connections[current] \in Connection
      BY DEF HandshakeDone, IInv, ConnectionsTyped
    <2>2. connections[current].toClient \in Seq(KnownValues)
      BY <2>1 DEF Connection
    <2>3. QED
      BY <2>1, <2>2 DEF HandshakeDone, IsHandshake
  <1>2. PICK c : c = [connections[current] EXCEPT !.toClient = Tail(@)]
    OBVIOUS
  <1>3. /\ c \in Connection /\ c.server = connections[current].server
        /\ c.toClient = Tail(connections[current].toClient)
    BY <1>1, <1>2, TailIs DEF Connection
  <1>4. connections' = [connections EXCEPT ![current] = c]
    BY <1>2 DEF HandshakeDone
  <1>5. /\ connections' \in Seq(Connection) /\ Len(connections') = Len(connections)
        /\ DOMAIN connections' = DOMAIN connections /\ connections'[current] = c
        /\ \A k \in DOMAIN connections : k # current => connections'[k] = connections[k]
    BY <1>1, <1>3, <1>4, OneChanges DEF IInv, ConnectionsTyped
  <1>6. /\ process' = process /\ phase' = "idle" /\ isConnected' = TRUE /\ current' = current
        /\ attempts' = attempts /\ requestId' = requestId /\ registered' = registered
        /\ calls' = calls /\ answers' = answers /\ UNCHANGED server
        /\ readers' = [readers EXCEPT ![current] = "check"] /\ ~ isConnected /\ current # 0
    BY DEF HandshakeDone, IInv, ReadersFollow
  <1>7. current \in Numbers
    BY <1>1, SessionAssumption DEF IInv, ConnectionsTyped, Numbers
  <1>8. ConnectionsTyped'
    BY <1>3, <1>5, <1>6, SameKnown DEF IInv, ConnectionsTyped, server
  <1>9. ClientTyped'
    BY <1>6, <1>7 DEF IInv, ClientTyped
  <1>10. ServerTyped' /\ RequestsKnown'
    BY <1>6, SameKnown DEF IInv, ServerTyped, RequestsKnown, AnswersOwnOrEarlier, server
  <1>11. NoHandshake(c.toClient) /\ AtMostOneHandshake(c.toClient)
    BY <1>1, <1>3, LastHandshake DEF IInv, GreetedOnce, AtMostOneHandshake, NoHandshake
  <1>12. c.server # "queued" /\ (current = served => greeted)
    BY <1>1, <1>3, TailIs DEF IInv, GreetedOnce, NoHandshake
  <1>13. GreetedOnce'
    BY <1>5, <1>6, <1>11, <1>12 DEF IInv, GreetedOnce, server
  <1>14. ReadersFollow'
    BY <1>1, <1>3, <1>5, <1>6, <1>7 DEF IInv, ReadersFollow, ClientTyped
  <1>15. QED
    BY <1>8, <1>9, <1>10, <1>13, <1>14 DEF IInv

\* It is not.
LEMMA StepHandshakeFails == ASSUME IInv, HandshakeFails PROVE IInv'
  <1>1. /\ process' = process /\ isConnected' = isConnected /\ readers' = readers
        /\ requestId' = requestId /\ registered' = registered /\ calls' = calls
        /\ answers' = answers /\ attempts' = attempts + 1
        /\ phase' = IF attempts + 1 = MaxAttempts THEN "idle" ELSE "handshake"
        /\ UNCHANGED server /\ phase = "handshake"
        /\ connections' = Connected(ClientCloses(connections, {current}))
        /\ current' = Last(ClientCloses(connections, {current}))
    BY DEF HandshakeFails, GivesUp
  <1>2. ~ isConnected /\ isConnected' = FALSE /\ served' = served /\ greeted' = greeted
    BY <1>1 DEF IInv, ReadersFollow, ClientTyped, server
  <1>3. /\ ConnectionsTyped' /\ GreetedOnce'
        /\ \A k \in Numbers : readers'[k] # "none" =>
             /\ k \in DOMAIN connections'
             /\ connections'[k].server = "closed"
    BY <1>1, <1>2, Reconnects
  <1>4. ClientTyped'
    BY <1>1, <1>2, SessionAssumption DEF IInv, ClientTyped
  <1>5. ServerTyped' /\ RequestsKnown'
    BY <1>1, SameKnown DEF IInv, ServerTyped, RequestsKnown, AnswersOwnOrEarlier, server
  <1>6. ReadersFollow'
    BY <1>2, <1>3 DEF ReadersFollow
  <1>7. QED
    BY <1>3, <1>4, <1>5, <1>6 DEF IInv

\* A call is made, numbered like its id.
LEMMA StepCall == ASSUME IInv, Call PROVE IInv'
  <1>1. /\ process' = process /\ current' = current /\ readers' = readers /\ answers' = answers
        /\ calls' = calls + 1 /\ requestId' = requestId + 2 /\ attempts' = attempts
        /\ registered' = registered \cup {Request} /\ UNCHANGED server
        /\ isConnected /\ calls < MaxCalls /\ phase' \in {"idle", "waiting"}
    BY DEF Call
  <1>2. /\ Request \in KnownRequests /\ Request.process = process
    BY <1>1, SessionAssumption DEF Request, KnownRequests, Requests, Ids, IInv, ClientTyped
  <1>3. current \in DOMAIN connections /\ connections[current] \in Connection
    BY <1>1 DEF IInv, ClientTyped, ConnectionsTyped
  <1>4. /\ connections' \in Seq(Connection) /\ Len(connections') = Len(connections)
        /\ DOMAIN connections' = DOMAIN connections
        /\ \A k \in DOMAIN connections : /\ connections'[k].server = connections[k].server
                                         /\ connections'[k].toClient = connections[k].toClient
        /\ isConnected' = isConnected \/ (connections[current].server = "closed" /\ isConnected' = FALSE)
    <2>1. CASE /\ connections[current].server # "closed"
               /\ connections' = [connections EXCEPT ![current].toServer = Append(@, Request)]
               /\ UNCHANGED isConnected
      <3>1. PICK c : c = [connections[current] EXCEPT !.toServer = Append(@, Request)]
        OBVIOUS
      <3>2. /\ c \in Connection /\ c.server = connections[current].server
            /\ c.toClient = connections[current].toClient
        BY <1>2, <1>3, <3>1, AppendIs DEF Connection
      <3>3. connections' = [connections EXCEPT ![current] = c]
        BY <2>1, <3>1
      <3>4. /\ connections' \in Seq(Connection) /\ Len(connections') = Len(connections)
            /\ DOMAIN connections' = DOMAIN connections /\ connections'[current] = c
            /\ \A k \in DOMAIN connections : k # current => connections'[k] = connections[k]
        BY <1>3, <3>2, <3>3, OneChanges DEF IInv, ConnectionsTyped
      <3>5. QED
        BY <2>1, <3>2, <3>4
    <2>2. CASE /\ connections[current].server = "closed" /\ UNCHANGED connections
               /\ UNCHANGED isConnected \/ isConnected' = FALSE
      BY <2>2 DEF IInv, ConnectionsTyped
    <2>3. QED
      BY <2>1, <2>2 DEF Call
  <1>5. ConnectionsTyped'
    BY <1>1, <1>4, SameKnown DEF IInv, ConnectionsTyped, server
  <1>6. ClientTyped'
    <2>1. calls' \in 0 .. MaxCalls /\ requestId' = 2 * calls' + 1
      BY <1>1, SessionAssumption DEF IInv, ClientTyped
    <2>2. isConnected' \in BOOLEAN /\ (isConnected' => current' # 0 /\ readers'[current'] # "none")
      BY <1>1, <1>4 DEF IInv, ClientTyped
    <2>3. QED
      BY <1>1, <2>1, <2>2 DEF IInv, ClientTyped
  <1>7. ServerTyped' /\ RequestsKnown'
    BY <1>1, <1>2, SameKnown DEF IInv, ServerTyped, RequestsKnown, AnswersOwnOrEarlier, server
  <1>8. GreetedOnce'
    BY <1>1, <1>3, <1>4 DEF IInv, GreetedOnce, server
  <1>9. ReadersFollow'
    BY <1>1, <1>4 DEF IInv, ReadersFollow
  <1>10. QED
    BY <1>5, <1>6, <1>7, <1>8, <1>9 DEF IInv

\* An answer does not come in time.
LEMMA StepTimeout == ASSUME IInv, Timeout PROVE IInv'
  BY SameKnown DEF Timeout, server, IInv, ConnectionsTyped, ClientTyped, ServerTyped, RequestsKnown,
     AnswersOwnOrEarlier, GreetedOnce, ReadersFollow

\* A reader thread looks at its socket.
LEMMA StepReaderCheck == ASSUME IInv, NEW k \in DOMAIN connections, ReaderCheck(k) PROVE IInv'
  <1>1. /\ readers' \in [Numbers -> {"none", "check", "read", "spin", "ended"}]
        /\ \A j \in Numbers : readers'[j] # "none" <=> readers[j] # "none"
    BY DEF ReaderCheck, IInv, ClientTyped
  <1>2. current # 0 => current \in Numbers
    BY SessionAssumption DEF IInv, ConnectionsTyped, Numbers
  <1>3. ClientTyped'
    BY <1>1, <1>2 DEF ReaderCheck, IInv, ClientTyped
  <1>4. ReadersFollow'
    BY <1>1 DEF ReaderCheck, IInv, ReadersFollow
  <1>5. QED
    BY <1>3, <1>4, SameKnown DEF ReaderCheck, server, IInv, ConnectionsTyped, ServerTyped,
       RequestsKnown, AnswersOwnOrEarlier, GreetedOnce

\* It takes a message: an answer can only be one to a request of its id.
LEMMA StepReaderRead == ASSUME IInv, NEW k \in DOMAIN connections, ReaderRead(k) PROVE IInv'
  <1>1. /\ connections[k] \in Connection /\ connections[k].toClient \in Seq(KnownValues)
        /\ connections[k].toClient # <<>>
    <2>1. connections[k] \in Connection
      BY DEF IInv, ConnectionsTyped
    <2>2. QED
      BY <2>1 DEF Connection, ReaderRead
  <1>2. PICK s : s = connections[k].toClient
    OBVIOUS
  <1>3. PICK c : c = [connections[k] EXCEPT !.toClient = Tail(@)]
    OBVIOUS
  <1>4. /\ c \in Connection /\ c.server = connections[k].server /\ c.toClient = Tail(s)
    BY <1>1, <1>2, <1>3, TailIs DEF Connection
  <1>5. connections' = [connections EXCEPT ![k] = c]
    BY <1>3 DEF ReaderRead
  <1>6. /\ connections' \in Seq(Connection) /\ Len(connections') = Len(connections)
        /\ DOMAIN connections' = DOMAIN connections /\ connections'[k] = c
        /\ \A j \in DOMAIN connections : j # k => connections'[j] = connections[j]
    BY <1>1, <1>4, <1>5, OneChanges DEF IInv, ConnectionsTyped
  <1>7. PICK m : m = Head(s)
    OBVIOUS
  <1>8. PICK waiting : waiting = {r \in registered : Awaits(r, m)}
    OBVIOUS
  <1>9. /\ process' = process /\ attempts' = attempts /\ current' = current /\ calls' = calls
        /\ isConnected' = isConnected /\ requestId' = requestId /\ UNCHANGED server
        /\ readers[k] = "read" /\ readers' = [readers EXCEPT ![k] = "check"]
        /\ registered' = registered \ waiting
        /\ answers' = answers \cup {[call |-> r, answer |-> m.to] : r \in waiting}
        /\ phase' \in {phase, "idle"}
    BY <1>2, <1>7, <1>8 DEF ReaderRead
  <1>10. /\ m \in KnownValues
         /\ \A n \in DOMAIN Tail(s) : n + 1 \in DOMAIN s /\ Tail(s)[n] = s[n + 1]
         /\ DOMAIN Tail(s) \subseteq Nat
    BY <1>1, <1>2, <1>7, TailIs
  <1>11. ConnectionsTyped'
    BY <1>4, <1>6, <1>9, SameKnown DEF IInv, ConnectionsTyped, server
  <1>12. k \in Numbers /\ (current # 0 => current \in Numbers)
    BY SessionAssumption DEF IInv, ConnectionsTyped, Numbers
  <1>13. ClientTyped'
    <2>1. /\ readers' \in [Numbers -> {"none", "check", "read", "spin", "ended"}]
          /\ \A j \in Numbers : readers[j] # "none" => readers'[j] # "none"
      BY <1>9 DEF IInv, ClientTyped
    <2>2. QED
      BY <1>9, <1>12, <2>1 DEF IInv, ClientTyped
  <1>14. ServerTyped'
    BY <1>9, SameKnown DEF IInv, ServerTyped, server
  <1>15. RequestsKnown'
    <2>1. ASSUME NEW r \in waiting
          PROVE  /\ m.to \in KnownRequests /\ r \in KnownRequests /\ r.process = process
                 /\ m.to = r \/ m.to.process < r.process
      <3>1. r \in registered /\ m.type = "answer" /\ m.to.id = r.id
        BY <1>8 DEF Awaits
      <3>2. m.to \in KnownRequests
        BY <1>10, <3>1 DEF KnownValues, Handshake, Answer
      <3>3. r \in KnownRequests /\ r.process = process
        BY <3>1 DEF IInv, RequestsKnown
      <3>4. m.to.process < process \/ (m.to.process = process /\ m.to.call = r.call)
        BY <3>1, <3>2, <3>3, SessionAssumption DEF KnownRequests, Requests, IInv, ClientTyped
      <3>5. QED
        BY <3>1, <3>2, <3>3, <3>4 DEF KnownRequests, Requests
    <2>2. registered' \subseteq {r \in KnownRequests' : r.process = process'}
      BY <1>9, SameKnown DEF IInv, RequestsKnown
    <2>3. answers' \subseteq [call : Requests, answer : Requests]
      BY <1>9, <2>1 DEF IInv, RequestsKnown, KnownRequests
    <2>4. AnswersOwnOrEarlier'
      BY <1>9, <2>1 DEF IInv, RequestsKnown, AnswersOwnOrEarlier
    <2>5. QED
      BY <2>2, <2>3, <2>4 DEF RequestsKnown
  <1>16. /\ AtMostOneHandshake(s) => AtMostOneHandshake(c.toClient)
         /\ NoHandshake(s) => NoHandshake(c.toClient)
    BY <1>4, <1>10, FewerHandshakes
  <1>17. GreetedOnce'
    <2>1. isConnected => current \in DOMAIN connections
      BY DEF IInv, ClientTyped, ConnectionsTyped
    <2>2. QED
      BY <1>2, <1>4, <1>6, <1>9, <1>16, <2>1 DEF IInv, GreetedOnce, server
  <1>18. ReadersFollow'
    BY <1>4, <1>6, <1>9, <1>12 DEF IInv, ReadersFollow, ClientTyped
  <1>19. QED
    BY <1>11, <1>13, <1>14, <1>15, <1>17, <1>18 DEF IInv

\* It ends.
LEMMA StepReaderEnds == ASSUME IInv, NEW k \in DOMAIN connections, ReaderEnds(k) PROVE IInv'
  <1>1. PICK ks : connections' = ClientCloses(connections, ks)
    BY DEF ReaderEnds
  <1>2. /\ process' = process /\ phase' = phase /\ attempts' = attempts /\ current' = current
        /\ isConnected' = isConnected /\ requestId' = requestId /\ registered' = registered
        /\ calls' = calls /\ answers' = answers /\ UNCHANGED server
        /\ readers[k] = "read" /\ readers' = [readers EXCEPT ![k] = "ended"]
        /\ connections[k].server = "closed"
    BY DEF ReaderEnds
  <1>3. /\ connections' \in Seq(Connection) /\ Len(connections') = Len(connections)
        /\ DOMAIN connections' = DOMAIN connections
        /\ \A j \in DOMAIN connections : /\ connections'[j].server = connections[j].server
                                         /\ connections'[j].toClient = connections[j].toClient
    BY <1>1, ClosesIs DEF IInv, ConnectionsTyped
  <1>4. ConnectionsTyped'
    BY <1>2, <1>3, SameKnown DEF IInv, ConnectionsTyped, server
  <1>5. k \in Numbers /\ (current # 0 => current \in Numbers)
    BY SessionAssumption DEF IInv, ConnectionsTyped, Numbers
  <1>6. ClientTyped'
    <2>1. /\ readers' \in [Numbers -> {"none", "check", "read", "spin", "ended"}]
          /\ \A j \in Numbers : readers[j] # "none" => readers'[j] # "none"
      BY <1>2 DEF IInv, ClientTyped
    <2>2. QED
      BY <1>2, <1>5, <2>1 DEF IInv, ClientTyped
  <1>7. ServerTyped' /\ RequestsKnown'
    BY <1>2, SameKnown DEF IInv, ServerTyped, RequestsKnown, AnswersOwnOrEarlier, server
  <1>8. GreetedOnce'
    <2>1. isConnected => current \in DOMAIN connections
      BY DEF IInv, ClientTyped, ConnectionsTyped
    <2>2. QED
      BY <1>2, <1>3, <2>1 DEF IInv, GreetedOnce, server
  <1>9. ReadersFollow'
    BY <1>2, <1>3, <1>5 DEF IInv, ReadersFollow, ClientTyped
  <1>10. QED
    BY <1>4, <1>6, <1>7, <1>8, <1>9 DEF IInv

-----------------------------------------------------------------------------
(* The steps of the server.                                                *)

\* What the client has is left alone, and what was asked is known.
LEMMA ClientUnchanged ==
    ASSUME IInv, UNCHANGED client, answers' = answers
    PROVE  ClientTyped' /\ RequestsKnown' /\ Connection' = Connection
           /\ KnownRequests' = KnownRequests /\ process' = process /\ current' = current
           /\ isConnected' = isConnected /\ readers' = readers /\ phase' = phase
  BY SameKnown DEF client, IInv, ClientTyped, RequestsKnown, AnswersOwnOrEarlier

\* A connection is accepted.
LEMMA StepAccept == ASSUME IInv, Accept PROVE IInv'
  <1>1. PICK k \in DOMAIN connections :
          /\ connections[k].server = "queued" /\ served = 0 /\ served' = k /\ greeted' = FALSE
          /\ connections' = [connections EXCEPT ![k].server = "open"]
    BY DEF Accept
  <1>2. PICK c : c = [connections[k] EXCEPT !.server = "open"]
    OBVIOUS
  <1>3. connections[k] \in Connection
    BY DEF IInv, ConnectionsTyped
  <1>4. c \in Connection /\ c.server = "open" /\ c.toClient = connections[k].toClient
    BY <1>2, <1>3 DEF Connection
  <1>5. /\ connections' \in Seq(Connection) /\ Len(connections') = Len(connections)
        /\ DOMAIN connections' = DOMAIN connections /\ connections'[k] = c
        /\ \A j \in DOMAIN connections : j # k => connections'[j] = connections[j]
    BY <1>1, <1>2, <1>4, OneChanges DEF IInv, ConnectionsTyped
  <1>6. /\ UNCHANGED client /\ answers' = answers /\ up' = up /\ blockQueue' = blockQueue
        /\ serverStarts' = serverStarts
    BY DEF Accept
  <1>7. /\ ClientTyped' /\ RequestsKnown' /\ Connection' = Connection
        /\ KnownRequests' = KnownRequests /\ current' = current /\ isConnected' = isConnected
        /\ readers' = readers /\ phase' = phase
    BY <1>6, ClientUnchanged
  <1>8. ConnectionsTyped'
    BY <1>1, <1>4, <1>5, <1>7 DEF IInv, ConnectionsTyped
  <1>9. ServerTyped'
    BY <1>1, <1>6, <1>7 DEF IInv, ServerTyped
  <1>10. GreetedOnce'
    BY <1>1, <1>4, <1>5, <1>7 DEF IInv, GreetedOnce, ConnectionsTyped
  <1>11. ReadersFollow'
    BY <1>1, <1>4, <1>5, <1>7 DEF IInv, ReadersFollow
  <1>12. QED
    BY <1>7, <1>8, <1>9, <1>10, <1>11 DEF IInv

\* Something is written to the connection that is served.
LEMMA Sends ==
    ASSUME IInv, NEW m \in KnownValues, connections' = Sent(connections, m)
    PROVE  /\ connections' \in Seq(Connection) /\ Len(connections') = Len(connections)
           /\ DOMAIN connections' = DOMAIN connections
           /\ \A k \in DOMAIN connections :
                /\ connections'[k].server = connections[k].server
                /\ k # served => connections'[k] = connections[k]
                /\ k = served => connections'[k].toClient = Append(connections[k].toClient, m)
                /\ connections[k].toClient \in Seq(KnownValues)
  <1>1. \A k \in DOMAIN connections :
          connections[k] \in Connection /\ connections[k].toClient \in Seq(KnownValues)
    <2>1. \A k \in DOMAIN connections : connections[k] \in Connection
      BY DEF IInv, ConnectionsTyped
    <2>2. QED
      BY <2>1 DEF Connection
  <1>2. CASE served = 0
    BY <1>1, <1>2 DEF Sent, IInv, ConnectionsTyped
  <1>3. CASE served # 0
    <2>1. served \in DOMAIN connections
      BY <1>3 DEF IInv, ConnectionsTyped
    <2>2. PICK c : c = [connections[served] EXCEPT !.toClient = Append(@, m)]
      OBVIOUS
    <2>3. /\ c \in Connection /\ c.server = connections[served].server
          /\ c.toClient = Append(connections[served].toClient, m)
      <3>1. Append(connections[served].toClient, m) \in Seq(KnownValues)
        BY <1>1, <2>1, AppendIs
      <3>2. QED
        BY <1>1, <2>1, <2>2, <3>1 DEF Connection
    <2>4. connections' = [connections EXCEPT ![served] = c]
      BY <1>3, <2>2 DEF Sent
    <2>5. /\ connections' \in Seq(Connection) /\ Len(connections') = Len(connections)
          /\ DOMAIN connections' = DOMAIN connections /\ connections'[served] = c
          /\ \A j \in DOMAIN connections : j # served => connections'[j] = connections[j]
      BY <2>1, <2>3, <2>4, OneChanges DEF IInv, ConnectionsTyped
    <2>6. QED
      BY <1>1, <2>3, <2>5
  <1>4. QED
    BY <1>2, <1>3

\* The handshake is, once.
LEMMA StepGreet == ASSUME IInv, Greet PROVE IInv'
  <1>1. /\ UNCHANGED client /\ answers' = answers /\ up' = up /\ blockQueue' = blockQueue
        /\ serverStarts' = serverStarts /\ served' = served /\ served # 0
        /\ greeted = FALSE /\ greeted' = TRUE /\ connections' = Sent(connections, Handshake)
    BY DEF Greet, IInv, ServerTyped
  <1>2. Handshake \in KnownValues
    BY DEF KnownValues
  <1>3. /\ connections' \in Seq(Connection) /\ Len(connections') = Len(connections)
        /\ DOMAIN connections' = DOMAIN connections
        /\ \A k \in DOMAIN connections :
             /\ connections'[k].server = connections[k].server
             /\ k # served => connections'[k] = connections[k]
             /\ k = served => connections'[k].toClient = Append(connections[k].toClient, Handshake)
             /\ connections[k].toClient \in Seq(KnownValues)
    BY <1>1, <1>2, Sends
  <1>4. /\ ClientTyped' /\ RequestsKnown' /\ Connection' = Connection
        /\ KnownRequests' = KnownRequests /\ current' = current /\ isConnected' = isConnected
        /\ readers' = readers /\ phase' = phase
    BY <1>1, ClientUnchanged
  <1>5. ConnectionsTyped'
    BY <1>1, <1>3, <1>4 DEF IInv, ConnectionsTyped
  <1>6. ServerTyped'
    BY <1>1, <1>4 DEF IInv, ServerTyped
  <1>7. GreetedOnce'
    <2>1. /\ served \in DOMAIN connections /\ connections[served].server = "open"
          /\ NoHandshake(connections[served].toClient)
      BY <1>1 DEF IInv, ConnectionsTyped, GreetedOnce
    <2>2. AtMostOneHandshake(connections'[served].toClient)
      BY <1>2, <1>3, <2>1, FirstHandshake
    <2>3. isConnected => current # served /\ current \in DOMAIN connections
      BY <1>1 DEF IInv, GreetedOnce, ClientTyped, ConnectionsTyped
    <2>4. QED
      BY <1>1, <1>3, <1>4, <2>1, <2>2, <2>3 DEF IInv, GreetedOnce
  <1>8. ReadersFollow'
    BY <1>3, <1>4 DEF IInv, ReadersFollow
  <1>9. QED
    BY <1>4, <1>5, <1>6, <1>7, <1>8 DEF IInv

\* A request is handled and answered to whoever is served.
LEMMA StepServerHandle == ASSUME IInv, ServerHandle PROVE IInv'
  <1>1. /\ UNCHANGED client /\ answers' = answers /\ up' = up /\ serverStarts' = serverStarts
        /\ served' = served /\ greeted' = greeted /\ blockQueue # <<>>
        /\ blockQueue' = Tail(blockQueue)
        /\ connections' = Sent(connections, Answer(Head(blockQueue)))
    BY DEF ServerHandle
  <1>2. Head(blockQueue) \in KnownRequests /\ Tail(blockQueue) \in Seq(KnownRequests)
    BY <1>1, TailIs DEF IInv, ServerTyped
  <1>3. PICK m : m = Answer(Head(blockQueue))
    OBVIOUS
  <1>4. m \in KnownValues /\ m # Handshake
    BY <1>2, <1>3, HandshakeIsNoAnswer DEF KnownValues
  <1>5. /\ connections' \in Seq(Connection) /\ Len(connections') = Len(connections)
        /\ DOMAIN connections' = DOMAIN connections
        /\ \A k \in DOMAIN connections :
             /\ connections'[k].server = connections[k].server
             /\ k # served => connections'[k] = connections[k]
             /\ k = served => connections'[k].toClient = Append(connections[k].toClient, m)
             /\ connections[k].toClient \in Seq(KnownValues)
    BY <1>1, <1>3, <1>4, Sends
  <1>6. /\ ClientTyped' /\ RequestsKnown' /\ Connection' = Connection
        /\ KnownRequests' = KnownRequests /\ current' = current /\ isConnected' = isConnected
        /\ readers' = readers /\ phase' = phase
    BY <1>1, ClientUnchanged
  <1>7. ConnectionsTyped'
    BY <1>1, <1>5, <1>6 DEF IInv, ConnectionsTyped
  <1>8. ServerTyped'
    BY <1>1, <1>2, <1>6 DEF IInv, ServerTyped
  <1>9. GreetedOnce'
    <2>1. \A k \in DOMAIN connections :
            /\ AtMostOneHandshake(connections[k].toClient) => AtMostOneHandshake(connections'[k].toClient)
            /\ NoHandshake(connections[k].toClient) => NoHandshake(connections'[k].toClient)
      BY <1>4, <1>5, NoMoreHandshakes
    <2>2. isConnected => current \in DOMAIN connections
      BY DEF IInv, ClientTyped, ConnectionsTyped
    <2>3. QED
      BY <1>1, <1>5, <1>6, <2>1, <2>2 DEF IInv, GreetedOnce
  <1>10. ReadersFollow'
    BY <1>5, <1>6 DEF IInv, ReadersFollow
  <1>11. QED
    BY <1>6, <1>7, <1>8, <1>9, <1>10 DEF IInv

\* A request is read.
LEMMA StepServerRead == ASSUME IInv, ServerRead PROVE IInv'
  <1>1. /\ UNCHANGED client /\ answers' = answers /\ up' = up /\ serverStarts' = serverStarts
        /\ served' = served /\ greeted' = greeted /\ served # 0
    BY DEF ServerRead
  <1>2. served \in DOMAIN connections /\ connections[served] \in Connection
    BY <1>1 DEF IInv, ConnectionsTyped
  <1>3. /\ connections[served].toServer \in Seq(KnownRequests) /\ connections[served].toServer # <<>>
    BY <1>2 DEF Connection, ServerRead
  <1>4. PICK c : c = [connections[served] EXCEPT !.toServer = Tail(@)]
    OBVIOUS
  <1>5. /\ c \in Connection /\ c.server = connections[served].server
        /\ c.toClient = connections[served].toClient
    BY <1>2, <1>3, <1>4, TailIs DEF Connection
  <1>6. connections' = [connections EXCEPT ![served] = c]
    BY <1>4 DEF ServerRead
  <1>7. /\ connections' \in Seq(Connection) /\ Len(connections') = Len(connections)
        /\ DOMAIN connections' = DOMAIN connections /\ connections'[served] = c
        /\ \A j \in DOMAIN connections : j # served => connections'[j] = connections[j]
    BY <1>2, <1>5, <1>6, OneChanges DEF IInv, ConnectionsTyped
  <1>8. blockQueue' \in Seq(KnownRequests)
    BY <1>3, TailIs, AppendIs DEF ServerRead, IInv, ServerTyped
  <1>9. /\ ClientTyped' /\ RequestsKnown' /\ Connection' = Connection
        /\ KnownRequests' = KnownRequests /\ current' = current /\ isConnected' = isConnected
        /\ readers' = readers /\ phase' = phase
    BY <1>1, ClientUnchanged
  <1>10. ConnectionsTyped'
    BY <1>1, <1>5, <1>7, <1>9 DEF IInv, ConnectionsTyped
  <1>11. ServerTyped'
    BY <1>1, <1>8, <1>9 DEF IInv, ServerTyped
  <1>12. isConnected => current \in DOMAIN connections
    BY DEF IInv, ClientTyped, ConnectionsTyped
  <1>13. GreetedOnce'
    BY <1>1, <1>5, <1>7, <1>9, <1>12 DEF IInv, GreetedOnce
  <1>14. ReadersFollow'
    BY <1>5, <1>7, <1>9 DEF IInv, ReadersFollow
  <1>15. QED
    BY <1>9, <1>10, <1>11, <1>13, <1>14 DEF IInv

\* The socket is closed; what was under way to the client may be lost from some point on.
LEMMA StepServerDrops == ASSUME IInv, ServerDrops PROVE IInv'
  <1>1. /\ UNCHANGED client /\ answers' = answers /\ up' = up /\ serverStarts' = serverStarts
        /\ greeted' = greeted /\ blockQueue' = blockQueue /\ served # 0 /\ served' = 0
    BY DEF ServerDrops
  <1>2. served \in DOMAIN connections /\ connections[served] \in Connection
    BY <1>1 DEF IInv, ConnectionsTyped
  <1>3. PICK left \in Remains(connections[served].toClient) :
          connections' = [connections EXCEPT ![served].server = "closed", ![served].toClient = left]
    BY DEF ServerDrops
  <1>4. PICK c : c = [connections[served] EXCEPT !.server = "closed", !.toClient = left]
    OBVIOUS
  <1>5. connections[served].toClient \in Seq(KnownValues)
    BY <1>2 DEF Connection
  <1>6. /\ left \in Seq(KnownValues)
        /\ \A n \in DOMAIN left :
             n \in DOMAIN connections[served].toClient /\ left[n] = connections[served].toClient[n]
    BY <1>3, <1>5, RemainsIs
  <1>7. c \in Connection /\ c.server = "closed" /\ c.toClient = left
    BY <1>2, <1>4, <1>6 DEF Connection
  <1>8. connections' = [connections EXCEPT ![served] = c]
    BY <1>2, <1>3, <1>4 DEF IInv, ConnectionsTyped
  <1>9. /\ connections' \in Seq(Connection) /\ Len(connections') = Len(connections)
        /\ DOMAIN connections' = DOMAIN connections /\ connections'[served] = c
        /\ \A j \in DOMAIN connections : j # served => connections'[j] = connections[j]
    BY <1>2, <1>7, <1>8, OneChanges DEF IInv, ConnectionsTyped
  <1>10. /\ ClientTyped' /\ RequestsKnown' /\ Connection' = Connection
         /\ KnownRequests' = KnownRequests /\ current' = current /\ isConnected' = isConnected
         /\ readers' = readers /\ phase' = phase
    BY <1>1, ClientUnchanged
  <1>11. ConnectionsTyped'
    BY <1>1, <1>7, <1>9, <1>10 DEF IInv, ConnectionsTyped
  <1>12. ServerTyped'
    BY <1>1, <1>10 DEF IInv, ServerTyped
  <1>13. GreetedOnce'
    <2>1. isConnected => current \in DOMAIN connections
      BY DEF IInv, ClientTyped, ConnectionsTyped
    <2>2. /\ AtMostOneHandshake(connections[served].toClient) => AtMostOneHandshake(left)
          /\ NoHandshake(connections[served].toClient) => NoHandshake(left)
      BY <1>6 DEF AtMostOneHandshake, NoHandshake
    <2>3. \A k \in DOMAIN connections : k # 0
      BY DEF IInv, ConnectionsTyped
    <2>4. QED
      BY <1>1, <1>2, <1>7, <1>9, <1>10, <2>1, <2>2, <2>3 DEF IInv, GreetedOnce
  <1>14. ReadersFollow'
    BY <1>7, <1>9, <1>10 DEF IInv, ReadersFollow
  <1>15. QED
    BY <1>10, <1>11, <1>12, <1>13, <1>14 DEF IInv

\* The server dies: every connection is closed.
LEMMA StepServerDies == ASSUME IInv, ServerDies PROVE IInv'
  <1>1. /\ UNCHANGED client /\ answers' = answers /\ serverStarts' = serverStarts
        /\ up' = FALSE /\ served' = 0 /\ greeted' = FALSE /\ blockQueue' = <<>>
    BY DEF ServerDies
  <1>2. PICK left \in OneOfEach([k \in DOMAIN connections |-> Remains(connections[k].toClient)]) :
          connections' = [k \in DOMAIN connections |->
              [connections[k] EXCEPT !.server = "closed", !.toClient = left[k]]]
    BY DEF ServerDies
  <1>3. \A k \in DOMAIN connections : left[k] \in Remains(connections[k].toClient)
    BY <1>2 DEF OneOfEach
  <1>4. \A k \in DOMAIN connections :
          connections[k] \in Connection /\ connections[k].toClient \in Seq(KnownValues)
    <2>1. \A k \in DOMAIN connections : connections[k] \in Connection
      BY DEF IInv, ConnectionsTyped
    <2>2. QED
      BY <2>1 DEF Connection
  <1>5. ASSUME NEW k \in DOMAIN connections
        PROVE  /\ connections'[k] \in Connection
               /\ connections'[k].server = "closed"
               /\ AtMostOneHandshake(connections[k].toClient) =>
                    AtMostOneHandshake(connections'[k].toClient)
               /\ NoHandshake(connections[k].toClient) => NoHandshake(connections'[k].toClient)
    <2>1. connections'[k] = [connections[k] EXCEPT !.server = "closed", !.toClient = left[k]]
      BY <1>2
    <2>2. /\ left[k] \in Seq(KnownValues)
          /\ \A n \in DOMAIN left[k] :
               n \in DOMAIN connections[k].toClient /\ left[k][n] = connections[k].toClient[n]
      BY <1>3, <1>4, RemainsIs
    <2>3. /\ connections'[k] \in Connection /\ connections'[k].server = "closed"
          /\ connections'[k].toClient = left[k]
      BY <1>4, <2>1, <2>2 DEF Connection
    <2>4. QED
      BY <2>2, <2>3 DEF AtMostOneHandshake, NoHandshake
  <1>6. /\ connections' \in Seq(Connection) /\ Len(connections') = Len(connections)
        /\ DOMAIN connections' = DOMAIN connections
    <2>1. Len(connections) \in Nat /\ DOMAIN connections = 1 .. Len(connections)
      BY DEF IInv, ConnectionsTyped
    <2>2. connections' \in [1 .. Len(connections) -> Connection]
      BY <1>2, <1>5, <2>1
    <2>3. QED
      BY <2>1, <2>2, IsSequence
  <1>7. /\ ClientTyped' /\ RequestsKnown' /\ Connection' = Connection
        /\ KnownRequests' = KnownRequests /\ current' = current /\ isConnected' = isConnected
        /\ readers' = readers /\ phase' = phase
    BY <1>1, ClientUnchanged
  <1>8. \A k \in DOMAIN connections : k # 0
    BY DEF IInv, ConnectionsTyped
  <1>9. ConnectionsTyped'
    <2>1. current' \in {0} \cup DOMAIN connections' /\ Len(connections') <= MaxConnections
      BY <1>6, <1>7 DEF IInv, ConnectionsTyped
    <2>2. \A k \in DOMAIN connections' : connections'[k].server # "open" /\ k # served'
      BY <1>1, <1>5, <1>6, <1>8
    <2>3. QED
      BY <1>1, <1>6, <1>7, <2>1, <2>2 DEF ConnectionsTyped
  <1>10. ServerTyped'
    <2>1. up' \in BOOLEAN /\ greeted' \in BOOLEAN
      BY <1>1
    <2>2. QED
      BY <1>1, <1>7, <2>1 DEF IInv, ServerTyped
  <1>11. GreetedOnce'
    <2>1. isConnected => current \in DOMAIN connections
      BY DEF IInv, ClientTyped, ConnectionsTyped
    <2>2. QED
      BY <1>1, <1>5, <1>6, <1>7, <1>8, <2>1 DEF IInv, GreetedOnce
  <1>12. ReadersFollow'
    BY <1>5, <1>6, <1>7 DEF IInv, ReadersFollow
  <1>13. QED
    BY <1>7, <1>9, <1>10, <1>11, <1>12 DEF IInv

-----------------------------------------------------------------------------
(* Another client process.                                                 *)

\* What was known before remains known.
LEMMA MoreKnown ==
    ASSUME process' = process + 1, process \in Nat
    PROVE  KnownRequests \subseteq KnownRequests' /\ KnownValues \subseteq KnownValues'
  BY SessionAssumption DEF KnownRequests, KnownValues, Requests

\* Every connection loses its client; requests under way may be lost from some point on.
LEMMA StepClientRestart == ASSUME IInv, ClientRestart PROVE IInv'
  <1>1. /\ UNCHANGED server /\ answers' = answers /\ process < MaxRestarts /\ process' = process + 1
        /\ phase' = "idle" /\ attempts' = 0 /\ current' = 0 /\ isConnected' = FALSE
        /\ readers' = [k \in Numbers |-> "none"]
        /\ requestId' = 1 /\ registered' = {} /\ calls' = 0
    BY DEF ClientRestart
  <1>2. KnownRequests \subseteq KnownRequests' /\ KnownValues \subseteq KnownValues'
    BY <1>1, MoreKnown, SessionAssumption DEF IInv, ClientTyped
  <1>3. PICK left \in OneOfEach([k \in DOMAIN connections |-> Remains(connections[k].toServer)]) :
          connections' = [k \in DOMAIN connections |->
              [connections[k] EXCEPT !.client = FALSE, !.toServer = left[k]]]
    BY DEF ClientRestart
  <1>4. \A k \in DOMAIN connections : left[k] \in Remains(connections[k].toServer)
    BY <1>3 DEF OneOfEach
  <1>5. \A k \in DOMAIN connections :
          /\ connections[k] \in Connection /\ connections[k].toServer \in Seq(KnownRequests)
          /\ connections[k].toClient \in Seq(KnownValues)
    <2>1. \A k \in DOMAIN connections : connections[k] \in Connection
      BY DEF IInv, ConnectionsTyped
    <2>2. QED
      BY <2>1 DEF Connection
  <1>6. ASSUME NEW k \in DOMAIN connections
        PROVE  /\ connections'[k] \in Connection'
               /\ connections'[k].server = connections[k].server
               /\ connections'[k].toClient = connections[k].toClient
    <2>1. connections'[k] = [connections[k] EXCEPT !.client = FALSE, !.toServer = left[k]]
      BY <1>3
    <2>2. left[k] \in Seq(KnownRequests)
      BY <1>4, <1>5, RemainsIs
    <2>3. left[k] \in Seq(KnownRequests') /\ connections[k].toClient \in Seq(KnownValues')
      BY <1>2, <1>5, <2>2
    <2>4. QED
      BY <1>5, <2>1, <2>3 DEF Connection
  <1>7. /\ connections' \in Seq(Connection') /\ Len(connections') = Len(connections)
        /\ DOMAIN connections' = DOMAIN connections
    <2>1. Len(connections) \in Nat /\ DOMAIN connections = 1 .. Len(connections)
      BY DEF IInv, ConnectionsTyped
    <2>2. connections' \in [1 .. Len(connections) -> Connection']
      BY <1>3, <1>6, <2>1
    <2>3. QED
      BY <2>1, <2>2, IsSequence
  <1>8. ConnectionsTyped'
    <2>1. /\ current' \in {0} \cup DOMAIN connections' /\ Len(connections') <= MaxConnections
          /\ served' \in {0} \cup DOMAIN connections'
      BY <1>1, <1>7 DEF IInv, ConnectionsTyped, server
    <2>2. \A k \in DOMAIN connections' : connections'[k].server = "open" <=> k = served'
      BY <1>1, <1>6, <1>7 DEF IInv, ConnectionsTyped, server
    <2>3. QED
      BY <1>7, <2>1, <2>2 DEF ConnectionsTyped
  <1>9. ClientTyped'
    <2>1. isConnected' \in BOOLEAN
      BY <1>1
    <2>2. QED
      BY <1>1, <2>1, SessionAssumption DEF IInv, ClientTyped
  <1>10. ServerTyped'
    BY <1>1, <1>2 DEF IInv, ServerTyped, server
  <1>11. RequestsKnown'
    BY <1>1 DEF IInv, RequestsKnown, AnswersOwnOrEarlier
  <1>12. GreetedOnce'
    BY <1>1, <1>6, <1>7 DEF IInv, GreetedOnce, server
  <1>13. ReadersFollow'
    BY <1>1 DEF ReadersFollow
  <1>14. QED
    BY <1>8, <1>9, <1>10, <1>11, <1>12, <1>13 DEF IInv

-----------------------------------------------------------------------------
(* The invariant is inductive.                                             *)

\* It holds initially.
LEMMA InitIInv == Init => IInv
  <1>1. SUFFICES ASSUME Init PROVE IInv
    OBVIOUS
  <1>2. ConnectionsTyped /\ ClientTyped /\ ServerTyped /\ RequestsKnown
    <2>1. ConnectionsTyped
      BY <1>1, SessionAssumption DEF Init, ConnectionsTyped
    <2>2. 0 \in 0 .. MaxRestarts /\ 0 \in 0 .. MaxAttempts /\ 0 < MaxAttempts /\ 0 \in 0 .. MaxCalls
      BY SessionAssumption
    <2>3. readers \in [Numbers -> {"none", "check", "read", "spin", "ended"}]
      BY <1>1 DEF Init
    <2>4. up \in BOOLEAN /\ greeted \in BOOLEAN /\ isConnected \in BOOLEAN
      BY <1>1 DEF Init
    <2>5. ClientTyped
      BY <1>1, <2>2, <2>3, <2>4 DEF Init, ClientTyped
    <2>6. ServerTyped
      BY <1>1, <2>2, <2>4 DEF Init, ServerTyped
    <2>7. RequestsKnown
      BY <1>1 DEF Init, RequestsKnown, AnswersOwnOrEarlier
    <2>8. QED
      BY <2>1, <2>5, <2>6, <2>7
  <1>3. GreetedOnce /\ ReadersFollow
    BY <1>1 DEF Init, GreetedOnce, ReadersFollow
  <1>4. QED
    BY <1>2, <1>3 DEF IInv

\* The server starts anew, or nothing happens.
LEMMA StepQuiet ==
    ASSUME IInv, UNCHANGED <<connections, client, served, greeted, blockQueue, answers>>,
           up' \in BOOLEAN, serverStarts' \in 0 .. MaxRestarts
    PROVE  IInv'
  BY SameKnown DEF client, IInv, ConnectionsTyped, ClientTyped, ServerTyped, RequestsKnown,
     AnswersOwnOrEarlier, GreetedOnce, ReadersFollow

\* Every step preserves it.
LEMMA NextIInv == IInv /\ [Next]_vars => IInv'
  <1>1. SUFFICES ASSUME IInv, [Next]_vars PROVE IInv'
    OBVIOUS
  <1>2. CASE ServerStarts
    BY <1>1, <1>2, StepQuiet, SessionAssumption DEF ServerStarts, IInv, ServerTyped
  <1>3. CASE UNCHANGED vars
    BY <1>1, <1>3, StepQuiet DEF vars, server, IInv, ServerTyped
  <1>4. CASE ClientSteps
    BY <1>1, <1>4, StepHandshakeDone, StepHandshakeFails, StepTimeout, StepReaderCheck,
       StepReaderRead, StepReaderEnds DEF ClientSteps
  <1>5. CASE ReadSteps
    BY <1>1, <1>5, StepAccept, StepGreet, StepServerRead, StepServerDrops DEF ReadSteps
  <1>6. QED
    BY <1>1, <1>2, <1>3, <1>4, <1>5, StepConnect, StepCall, StepServerHandle, StepClientRestart,
       StepServerDies DEF Next

\* It gives what TypeOK says.
LEMMA TypesFollow == IInv => TypeOK
  <1>1. SUFFICES ASSUME IInv PROVE TypeOK
    OBVIOUS
  <1>2. ASSUME NEW k \in DOMAIN connections
        PROVE  /\ connections[k].client \in BOOLEAN
               /\ connections[k].server \in {"queued", "open", "closed"}
               /\ Range(connections[k].toServer) \subseteq Requests
               /\ Range(connections[k].toClient) \subseteq Values
    <2>1. connections[k] \in Connection
      BY <1>1 DEF IInv, ConnectionsTyped
    <2>2. /\ connections[k].toServer \in Seq(KnownRequests)
          /\ connections[k].toClient \in Seq(KnownValues)
      BY <2>1 DEF Connection
    <2>3. Range(connections[k].toServer) \subseteq Requests
      BY <2>2 DEF Range, KnownRequests
    <2>4. Range(connections[k].toClient) \subseteq Values
      BY <2>2 DEF Range, KnownValues, KnownRequests, Values
    <2>5. QED
      BY <2>1, <2>3, <2>4 DEF Connection
  <1>3. requestId \in Ids /\ registered \subseteq Requests
    BY <1>1, SessionAssumption DEF IInv, ClientTyped, RequestsKnown, KnownRequests, Ids
  <1>4. Range(blockQueue) \subseteq Requests
    BY <1>1 DEF IInv, ServerTyped, Range, KnownRequests
  <1>5. QED
    BY <1>1, <1>2, <1>3, <1>4
    DEF TypeOK, IInv, ConnectionsTyped, ClientTyped, ServerTyped, RequestsKnown

\* The inductive invariant holds in every state.
LEMMA Invariance == Spec => []IInv
  BY InitIInv, NextIInv, PTL DEF Spec

-----------------------------------------------------------------------------
(* The theorems.                                                           *)

\* One connection at most is served and it is the one the server has open, whatever
\* connects, dies and starts again.
THEOREM SessionTyped == Spec => []TypeOK
  BY Invariance, TypesFollow, PTL

\* The reader thread of a connected client never meets the handshake, though answers to
\* an earlier client's requests may be written before it: there is one per connection,
\* and connect() takes it or goes to another connection.
THEOREM HandshakeBeforeAll == Spec => []HandshakeFirst
  <1>1. IInv => HandshakeFirst
    BY DEF IInv, GreetedOnce, NoHandshake, HandshakeFirst, Range
  <1>2. QED
    BY <1>1, Invariance, PTL

\* A call gets its own answer or one to a request of an earlier client process: ids are
\* given once in a process, and whatever is under way comes from this or an earlier one.
THEOREM AnswersNotOthers == Spec => []AnswersOwnOrEarlier
  <1>1. IInv => AnswersOwnOrEarlier
    BY DEF IInv, RequestsKnown
  <1>2. QED
    BY <1>1, Invariance, PTL

\* A client stops reading from a connection only when the server has closed it, however
\* its sends fail and its connect() is called again.
THEOREM ReadersListen == Spec => []NoDeafReader
  <1>1. IInv => NoDeafReader
    <2>1. SUFFICES ASSUME IInv, NEW k \in DOMAIN connections, readers[k] \in {"spin", "ended"}
                   PROVE  connections[k].server = "closed"
      BY DEF NoDeafReader
    <2>2. k \in Numbers
      BY <2>1, SessionAssumption DEF IInv, ConnectionsTyped, Numbers
    <2>3. QED
      BY <2>1, <2>2 DEF IInv, ReadersFollow
  <1>2. QED
    BY <1>1, Invariance, PTL
=============================================================================
