----------------------- MODULE CallbackRegistry_proofs -----------------------
(***************************************************************************)
(* The application's functions are the engine's listeners: for any         *)
(* functions, any number of requests and of restarts of either process.    *)
(***************************************************************************)
EXTENDS CallbackRegistry, SequenceTheorems, TLAPS

-----------------------------------------------------------------------------
(* Ids.                                                                    *)

\* Narrowing keeps apart what fits into the range.
LEMMA FreshId ==
    ASSUME NEW k \in Nat, NEW n \in Nat, NEW r \in Nat \ {0}, 1 <= k, k < n, n <= r
    PROVE  k % r # n % r
  <1>1. k % r = k
    OBVIOUS
  <1>2. CASE n < r
    <2>1. n % r = n
      BY <1>2
    <2>2. QED
      BY <1>1, <2>1
  <1>3. CASE n = r
    <2>1. n % r = 0
      BY <1>3
    <2>2. QED
      BY <1>1, <2>1
  <1>4. QED
    BY <1>2, <1>3

\* The counter's past values remain past values.
LEMMA RangeGrows ==
    ASSUME NEW m \in Int, NEW n \in Int, m <= n
    PROVE  1 .. m - 1 \subseteq 1 .. n - 1
  OBVIOUS

\* Two functions of a client have two ids.
LEMMA OwnId ==
    ASSUME FunctionsBound, IdsDistinct, NEW f \in DOMAIN idOf, NEW g \in DOMAIN idOf,
           idOf[f] = idOf[g]
    PROVE  f = g
  BY DEF FunctionsBound

-----------------------------------------------------------------------------
(* Each action keeps the invariant.                                        *)

LEMMA InitInv == Init => IInv
  <1>1. SUFFICES ASSUME Init PROVE IInv
    OBVIOUS
  <1>2. TypeOK
    BY <1>1, RegistryAssumption DEF Init, TypeOK
  <1>3. FunctionsBound /\ ServerKnows /\ OneClosure /\ OldestFirst /\ ListenersAsWanted
    BY <1>1 DEF Init, FunctionsBound, ServerKnows, OneClosure, OldestFirst, ListenersAsWanted,
                Listening
  <1>4. QED
    BY <1>2, <1>3 DEF IInv

\* A function keeps its id, or gets one that no other has.
LEMMA PassInv ==
    ASSUME IInv, NEW op \in {"add", "remove"}, NEW f \in Callbacks, Pass(op, f)
    PROVE  IInv'
  <1>1. PICK id, q : id = IdFor(f) /\ q = [op |-> op, id |-> id, of |-> f]
    OBVIOUS
  <1>2. /\ f \in Current
        /\ idOf' = With(idOf, f, id) /\ callback' = With(callback, id, f)
        /\ callbackId' = CounterAfter(f)
        /\ requests' = Append(requests, q)
        /\ UNCHANGED <<process, generation, callbackMap, listeners, emissions, handled, wanted>>
    BY <1>1 DEF Pass
  <1>3. TypeOK
    BY DEF IInv
  <1>4. /\ DOMAIN idOf' = DOMAIN idOf \cup {f} /\ idOf'[f] = id
        /\ \A g \in DOMAIN idOf : g # f => idOf'[g] = idOf[g]
        /\ DOMAIN callback' = DOMAIN callback \cup {id} /\ callback'[id] = f
        /\ \A i \in DOMAIN callback : i # id => callback'[i] = callback[i]
    BY <1>2 DEF With
  <1>5. /\ f \in DOMAIN idOf => id = idOf[f] /\ callbackId' = callbackId
        /\ f \notin DOMAIN idOf => id = callbackId % IdRange /\ callbackId' = callbackId + 1
    BY <1>1, <1>2 DEF IdFor, CounterAfter
  <1>6. callbackId \in Nat \ {0} /\ callbackId' \in Nat \ {0} /\ callbackId <= callbackId'
    BY <1>3, <1>5 DEF TypeOK
  <1>7. Current' = Current
    BY <1>2 DEF Current
  <1>8. id \in Ids
    <2>1. CASE f \in DOMAIN idOf
      BY <1>3, <1>5, <2>1 DEF TypeOK
    <2>2. CASE f \notin DOMAIN idOf
      BY <1>5, <1>6, <2>2, RegistryAssumption DEF Ids
    <2>3. QED
      BY <2>1, <2>2
  <1>9. TypeOK'
    <2>1. requests' \in Seq(Requests)
      <3>1. q \in Requests
        BY <1>1, <1>8 DEF Requests
      <3>2. QED
        BY <1>2, <1>3, <3>1, AppendProperties DEF TypeOK
    <2>2. \A g \in DOMAIN idOf' : g \in Current' /\ idOf'[g] \in Ids
      BY <1>2, <1>3, <1>4, <1>7, <1>8 DEF TypeOK
    <2>3. \A i \in DOMAIN callback' : i \in Ids /\ callback'[i] \in Current'
      BY <1>2, <1>3, <1>4, <1>7, <1>8 DEF TypeOK
    <2>4. QED
      BY <1>2, <1>3, <1>6, <2>1, <2>2, <2>3 DEF TypeOK
  <1>10. FunctionsBound'
    <2>1. SUFFICES ASSUME NEW g \in DOMAIN idOf'
                   PROVE  /\ \E k \in 1 .. callbackId' - 1 : idOf'[g] = k % IdRange
                          /\ IdsDistinct' => idOf'[g] \in DOMAIN callback'
                                             /\ callback'[idOf'[g]] = g
      BY DEF FunctionsBound
    <2>2. CASE g = f
      <3>1. \E k \in 1 .. callbackId' - 1 : id = k % IdRange
        <4>1. CASE f \in DOMAIN idOf
          BY <1>5, <4>1 DEF IInv, FunctionsBound
        <4>2. CASE f \notin DOMAIN idOf
          <5>1. callbackId \in 1 .. callbackId' - 1
            BY <1>5, <1>6, <4>2
          <5>2. QED
            BY <1>5, <4>2, <5>1
        <4>3. QED
          BY <4>1, <4>2
      <3>2. QED
        BY <1>4, <2>2, <3>1
    <2>3. CASE g # f
      <3>1. g \in DOMAIN idOf /\ idOf'[g] = idOf[g]
        BY <1>4, <2>1, <2>3
      <3>2. PICK k \in 1 .. callbackId - 1 : idOf[g] = k % IdRange
        BY <3>1 DEF IInv, FunctionsBound
      <3>3. k \in 1 .. callbackId' - 1
        <4>1. callbackId \in Int /\ callbackId' \in Int /\ callbackId <= callbackId'
          BY <1>6
        <4>2. QED
          BY <3>2, <4>1, RangeGrows
      <3>4. ASSUME IdsDistinct' PROVE idOf[g] \in DOMAIN callback' /\ callback'[idOf[g]] = g
        <4>1. IdsDistinct
          BY <1>6, <3>4, RegistryAssumption DEF IdsDistinct
        <4>2. idOf[g] \in DOMAIN callback /\ callback[idOf[g]] = g
          BY <3>1, <4>1 DEF IInv, FunctionsBound
        <4>3. idOf[g] # id
          <5>1. CASE f \in DOMAIN idOf
            BY <1>5, <2>3, <3>1, <4>1, <5>1, OwnId DEF IInv
          <5>2. CASE f \notin DOMAIN idOf
            <6>1. callbackId <= IdRange
              BY <1>5, <1>6, <3>4, <5>2, RegistryAssumption DEF IdsDistinct
            <6>2. k % IdRange # callbackId % IdRange
              <7>1. k \in Nat /\ 1 <= k /\ k < callbackId
                BY <1>6, <3>2
              <7>2. callbackId \in Nat /\ IdRange \in Nat \ {0}
                BY <1>6, RegistryAssumption
              <7>3. QED
                BY <6>1, <7>1, <7>2, FreshId
            <6>3. QED
              BY <1>5, <3>2, <5>2, <6>2
          <5>3. QED
            BY <5>1, <5>2
        <4>4. QED
          BY <1>4, <4>2, <4>3
      <3>5. QED
        BY <3>1, <3>2, <3>3, <3>4
    <2>4. QED
      BY <2>2, <2>3
  <1>11. \A g, i : KnownBy(g, i) => KnownBy(g, i)'
    BY <1>2, <1>4, <1>5, <1>7 DEF KnownBy
  <1>12. /\ Len(requests) \in Nat /\ DOMAIN requests = 1 .. Len(requests)
         /\ DOMAIN requests' = 1 .. Len(requests) + 1
         /\ \A i \in DOMAIN requests : requests'[i] = requests[i]
         /\ requests'[Len(requests) + 1] = q
    BY <1>2, <1>3 DEF TypeOK
  <1>13. ServerKnows'
    <2>1. KnownBy(f, id)'
      BY <1>2, <1>3, <1>4, RegistryAssumption DEF KnownBy, Current, TypeOK
    <2>2. \A i \in DOMAIN requests' : KnownBy(requests[i].of, requests[i].id)'
      <3>1. SUFFICES ASSUME NEW i \in DOMAIN requests'
                     PROVE  KnownBy(requests[i].of, requests[i].id)'
        OBVIOUS
      <3>2. CASE i \in DOMAIN requests
        <4>1. KnownBy(requests[i].of, requests[i].id)
          BY <3>2 DEF IInv, ServerKnows
        <4>2. requests'[i] = requests[i]
          BY <1>12, <3>2
        <4>3. QED
          BY <1>11, <4>1, <4>2 DEF KnownBy
      <3>3. CASE i = Len(requests) + 1
        <4>1. requests'[i].of = f /\ requests'[i].id = id
          BY <1>1, <1>12, <3>3
        <4>2. QED
          BY <2>1, <4>1 DEF KnownBy
      <3>4. QED
        BY <1>12, <3>1, <3>2, <3>3
    <2>3. \A l \in listeners : KnownBy(l.of, l.closure.id)'
      BY <1>2, <1>11 DEF IInv, ServerKnows
    <2>4. \A e \in emissions : \A g \in e.of : KnownBy(g, e.id)'
      BY <1>2, <1>11 DEF IInv, ServerKnows
    <2>5. QED
      BY <1>2, <2>2, <2>3, <2>4 DEF IInv, ServerKnows, KnownBy
  <1>14. OneClosure'
    BY <1>2 DEF IInv, OneClosure
  <1>15. OldestFirst'
    <2>1. Listening' = Listening
      BY <1>2 DEF Listening
    <2>2. requests'[Len(requests) + 1].of \in Current'
      BY <1>1, <1>2, <1>7, <1>12
    <2>3. QED
      BY <1>7, <1>12, <2>1, <2>2 DEF IInv, OldestFirst
  <1>16. ListenersAsWanted'
    <2>1. IdsDistinct' => IdsDistinct
      BY <1>6, RegistryAssumption DEF IdsDistinct
    <2>2. QED
      BY <1>2, <1>7, <2>1 DEF IInv, ListenersAsWanted, Listening
  <1>17. QED
    BY <1>9, <1>10, <1>13, <1>14, <1>15, <1>16 DEF IInv

\* A request finds the closure of its id, and no other function's.
LEMMA HandleInv ==
    ASSUME IInv, Handle
    PROVE  IInv'
  <1>1. PICK r : r = Head(requests)
    OBVIOUS
  <1>2. PICK c : c = callbackMap'[r.id]
    OBVIOUS
  <1>3. /\ requests # <<>> /\ handled < MaxRequests
        /\ requests' = Tail(requests) /\ handled' = handled + 1
        /\ callbackMap' = GetCallback(r.id, [id |-> r.id, name |-> handled])
        /\ UNCHANGED <<process, callbackId, idOf, callback, generation, emissions>>
    BY <1>1 DEF Handle
  <1>4. \/ /\ listeners' = listeners \cup {[closure |-> c, of |-> r.of]}
           /\ wanted' = wanted \cup {r.of}
        \/ /\ listeners' = {l \in listeners : l.closure # c}
           /\ wanted' = wanted \ {r.of}
    BY <1>1, <1>2 DEF Handle
  <1>5. TypeOK
    BY DEF IInv
  <1>6. /\ r \in Requests /\ r = requests[1] /\ 1 \in DOMAIN requests
        /\ Len(requests) \in Nat /\ DOMAIN requests = 1 .. Len(requests)
        /\ requests' \in Seq(Requests)
        /\ DOMAIN requests' = 1 .. Len(requests) - 1
        /\ \A i \in DOMAIN requests' : requests'[i] = requests[i + 1]
    BY <1>1, <1>3, <1>5, HeadTailProperties DEF TypeOK
  <1>7. r.id \in Ids /\ r.of \in Callbacks
    BY <1>6 DEF Requests
  <1>8. Current' = Current
    BY <1>3 DEF Current
  <1>9. /\ DOMAIN callbackMap' = DOMAIN callbackMap \cup {r.id}
        /\ \A id \in DOMAIN callbackMap : callbackMap'[id] = callbackMap[id]
        /\ r.id \notin DOMAIN callbackMap => callbackMap'[r.id] = [id |-> r.id, name |-> handled]
    BY <1>3 DEF GetCallback, With
  <1>10. c \in Closures /\ c.id = r.id
    <2>1. CASE r.id \in DOMAIN callbackMap
      BY <1>2, <1>5, <1>9, <2>1 DEF IInv, OneClosure, TypeOK
    <2>2. CASE r.id \notin DOMAIN callbackMap
      BY <1>2, <1>5, <1>7, <1>9, <2>2 DEF TypeOK, Closures
    <2>3. QED
      BY <2>1, <2>2
  <1>11. KnownBy(r.of, r.id)
    BY <1>6 DEF IInv, ServerKnows
  <1>12. \A l \in listeners' :
            l \in listeners \/ l = [closure |-> c, of |-> r.of]
    BY <1>4
  <1>13. TypeOK'
    <2>1. \A id \in DOMAIN callbackMap' : id \in Ids /\ callbackMap'[id] \in Closures
      BY <1>2, <1>5, <1>7, <1>9, <1>10 DEF TypeOK
    <2>2. listeners' \subseteq [closure : Closures, of : Callbacks] /\ wanted' \subseteq Callbacks
      BY <1>4, <1>5, <1>7, <1>10 DEF TypeOK
    <2>3. handled' \in 0 .. MaxRequests
      BY <1>3, <1>5, RegistryAssumption DEF TypeOK
    <2>4. QED
      BY <1>3, <1>5, <1>6, <1>8, <2>1, <2>2, <2>3 DEF TypeOK
  <1>14. FunctionsBound'
    BY <1>3 DEF IInv, FunctionsBound, IdsDistinct
  <1>15. \A f, i : KnownBy(f, i)' <=> KnownBy(f, i)
    BY <1>3, <1>8 DEF KnownBy
  <1>16. ServerKnows'
    <2>1. \A i \in DOMAIN requests' : KnownBy(requests[i].of, requests[i].id)'
      <3>1. SUFFICES ASSUME NEW i \in DOMAIN requests'
                     PROVE  KnownBy(requests[i].of, requests[i].id)'
        OBVIOUS
      <3>2. i + 1 \in DOMAIN requests /\ requests'[i] = requests[i + 1]
        BY <1>6
      <3>3. KnownBy(requests[i + 1].of, requests[i + 1].id)
        BY <3>2 DEF IInv, ServerKnows
      <3>4. QED
        BY <1>3, <1>8, <3>2, <3>3 DEF KnownBy
    <2>2. \A l \in listeners' : KnownBy(l.of, l.closure.id)'
      BY <1>10, <1>11, <1>12, <1>15 DEF IInv, ServerKnows
    <2>3. \A e \in emissions' : \A f \in e.of : KnownBy(f, e.id)'
      BY <1>3, <1>15 DEF IInv, ServerKnows
    <2>4. \A f \in wanted' : ClientOf[f] <= process'
      BY <1>3, <1>4, <1>11 DEF IInv, ServerKnows, KnownBy
    <2>5. QED
      BY <2>1, <2>2, <2>3, <2>4 DEF ServerKnows
  <1>17. OneClosure'
    <2>1. \A id \in DOMAIN callbackMap' : callbackMap'[id].id = id
      BY <1>2, <1>9, <1>10 DEF IInv, OneClosure
    <2>2. \A l \in listeners' :
             l.closure.id \in DOMAIN callbackMap' /\ l.closure = callbackMap'[l.closure.id]
      BY <1>2, <1>9, <1>10, <1>12 DEF IInv, OneClosure
    <2>3. QED
      BY <2>1, <2>2 DEF OneClosure
  <1>18. OldestFirst'
    <2>1. \A i, j \in DOMAIN requests' :
             i < j /\ requests'[i].of \in Current => requests'[j].of \in Current
      <3>1. SUFFICES ASSUME NEW i \in DOMAIN requests', NEW j \in DOMAIN requests',
                            i < j, requests'[i].of \in Current
                     PROVE  requests'[j].of \in Current
        OBVIOUS
      <3>2. /\ i + 1 \in DOMAIN requests /\ requests'[i] = requests[i + 1]
            /\ j + 1 \in DOMAIN requests /\ requests'[j] = requests[j + 1]
            /\ i + 1 < j + 1
        BY <1>6, <3>1
      <3>3. QED
        BY <3>1, <3>2 DEF IInv, OldestFirst
    <2>2. ASSUME Listening' \cap Current # {}, NEW i \in DOMAIN requests'
          PROVE  requests'[i].of \in Current
      <3>1. Listening \cap Current # {} \/ r.of \in Current
        BY <1>12, <2>2 DEF Listening
      <3>2. i + 1 \in DOMAIN requests /\ requests'[i] = requests[i + 1] /\ 1 < i + 1
        BY <1>6, <2>2
      <3>3. QED
        BY <1>6, <3>1, <3>2 DEF IInv, OldestFirst
    <2>3. QED
      BY <1>8, <2>1, <2>2 DEF OldestFirst
  <1>19. ListenersAsWanted'
    <2>1. SUFFICES ASSUME IdsDistinct
                   PROVE  Listening' \cap Current = wanted' \cap Current
      BY <1>3, <1>8 DEF ListenersAsWanted, IdsDistinct
    <2>2. Listening \cap Current = wanted \cap Current
      BY <2>1 DEF IInv, ListenersAsWanted
    <2>3. CASE /\ listeners' = listeners \cup {[closure |-> c, of |-> r.of]}
               /\ wanted' = wanted \cup {r.of}
      <3>1. Listening' = Listening \cup {r.of}
        <4>1. \A l \in listeners : l \in listeners' /\ l.of \in Listening'
          BY <2>3 DEF Listening
        <4>2. r.of \in Listening'
          <5>1. PICK k \in listeners' : k = [closure |-> c, of |-> r.of]
            BY <2>3
          <5>2. k.of = r.of
            BY <5>1
          <5>3. QED
            BY <5>2 DEF Listening
        <4>3. \A l \in listeners' : l.of \in Listening \cup {r.of}
          BY <2>3 DEF Listening
        <4>4. QED
          BY <4>1, <4>2, <4>3 DEF Listening
      <3>2. QED
        BY <2>2, <2>3, <3>1
    <2>4. CASE /\ listeners' = {l \in listeners : l.closure # c}
               /\ wanted' = wanted \ {r.of}
      <3>1. ASSUME NEW l \in listeners, l.of \in Current, l.of = r.of
            PROVE  l.closure = c
        <4>1. l.closure.id = r.id
          BY <1>11, <3>1 DEF IInv, ServerKnows, KnownBy
        <4>2. QED
          BY <1>2, <1>9, <3>1, <4>1 DEF IInv, OneClosure
      <3>2. ASSUME NEW l \in listeners, l.of \in Current, l.of # r.of
            PROVE  l.closure # c
        <4>1. r.of \in Current
          BY <1>6, <3>2 DEF IInv, OldestFirst, Listening
        <4>2. /\ l.of \in DOMAIN idOf /\ l.closure.id = idOf[l.of]
              /\ r.of \in DOMAIN idOf /\ r.id = idOf[r.of]
          BY <1>11, <3>2, <4>1 DEF IInv, ServerKnows, KnownBy
        <4>3. idOf[l.of] # idOf[r.of]
          BY <2>1, <3>2, <4>2, OwnId DEF IInv
        <4>4. QED
          BY <1>10, <4>2, <4>3
      <3>3. Listening' \cap Current = (Listening \cap Current) \ {r.of}
        BY <2>4, <3>1, <3>2 DEF Listening
      <3>4. QED
        BY <2>2, <2>4, <3>3
    <2>5. QED
      BY <1>4, <2>3, <2>4
  <1>20. QED
    BY <1>13, <1>14, <1>16, <1>17, <1>18, <1>19 DEF IInv

\* Emissions carry the id of their listener.
LEMMA EmitInv ==
    ASSUME IInv, Emit
    PROVE  IInv'
  <1>1. PICK l \in listeners :
          emissions' = emissions \cup {[id |-> l.closure.id,
                                        of |-> {k.of : k \in {k \in listeners : k.closure = l.closure}}]}
    BY DEF Emit
  <1>2. PICK e : e = [id |-> l.closure.id,
                      of |-> {k.of : k \in {k \in listeners : k.closure = l.closure}}]
    OBVIOUS
  <1>3. /\ emissions' = emissions \cup {e} /\ e.id = l.closure.id
        /\ \A f \in e.of : \E k \in listeners : k.closure = l.closure /\ k.of = f
    BY <1>1, <1>2
  <1>4. /\ UNCHANGED <<process, callbackId, idOf, callback, requests, generation, callbackMap,
                       listeners, handled, wanted>>
        /\ Current' = Current
    BY DEF Emit, Current
  <1>5. TypeOK'
    <2>1. TypeOK
      BY DEF IInv
    <2>2. e \in [id : Ids, of : SUBSET Callbacks]
      BY <1>2, <2>1 DEF TypeOK, Closures
    <2>3. QED
      BY <1>3, <1>4, <2>1, <2>2 DEF TypeOK
  <1>6. ServerKnows'
    <2>1. \A f \in e.of : KnownBy(f, e.id)
      BY <1>3 DEF IInv, ServerKnows
    <2>2. \A f, i : KnownBy(f, i)' <=> KnownBy(f, i)
      BY <1>4 DEF KnownBy
    <2>3. \A x \in emissions' : \A f \in x.of : KnownBy(f, x.id)'
      BY <1>3, <2>1, <2>2 DEF IInv, ServerKnows
    <2>4. QED
      BY <1>4, <2>2, <2>3 DEF IInv, ServerKnows, KnownBy
  <1>7. FunctionsBound' /\ OneClosure' /\ OldestFirst' /\ ListenersAsWanted'
    BY <1>4 DEF IInv, FunctionsBound, OneClosure, OldestFirst, ListenersAsWanted, Listening,
                IdsDistinct
  <1>8. QED
    BY <1>5, <1>6, <1>7 DEF IInv

\* An emission that was run is gone.
LEMMA RunInv ==
    ASSUME IInv, NEW e \in emissions, Run(e)
    PROVE  IInv'
  <1>1. /\ emissions' \subseteq emissions
        /\ UNCHANGED <<process, callbackId, idOf, callback, requests, generation, callbackMap,
                       listeners, handled, wanted>>
        /\ Current' = Current
    BY DEF Run, Current
  <1>2. TypeOK'
    BY <1>1 DEF IInv, TypeOK
  <1>3. ServerKnows'
    BY <1>1 DEF IInv, ServerKnows, KnownBy
  <1>4. FunctionsBound' /\ OneClosure' /\ OldestFirst' /\ ListenersAsWanted'
    BY <1>1 DEF IInv, FunctionsBound, OneClosure, OldestFirst, ListenersAsWanted, Listening,
                IdsDistinct
  <1>5. QED
    BY <1>2, <1>3, <1>4 DEF IInv

\* Of the next client nothing is known.
LEMMA ClientRestartInv ==
    ASSUME IInv, ClientRestart
    PROVE  IInv'
  <1>1. /\ process < MaxRestarts /\ process' = process + 1 /\ callbackId' = 1
        /\ DOMAIN idOf' = {} /\ DOMAIN callback' = {} /\ emissions' = {}
        /\ UNCHANGED <<generation, callbackMap, listeners, handled, wanted>>
    BY DEF ClientRestart
  <1>2. TypeOK /\ process \in Nat
    BY RegistryAssumption DEF IInv, TypeOK
  <1>3. PICK n \in 0 .. Len(requests) : requests' = SubSeq(requests, 1, n)
    BY DEF ClientRestart
  <1>4. /\ requests' \in Seq(Requests)
        /\ \A i \in DOMAIN requests' : i \in DOMAIN requests /\ requests'[i] = requests[i]
    <2>1. Len(requests) \in Nat /\ DOMAIN requests = 1 .. Len(requests) /\ n \in Int
          /\ \A i \in 1 .. n : requests[i] \in Requests
      BY <1>2, <1>3 DEF TypeOK
    <2>2. /\ requests' \in Seq(Requests)
          /\ Len(requests') = IF 1 <= n THEN n - 1 + 1 ELSE 0
          /\ \A i \in 1 .. n - 1 + 1 : requests'[i] = requests[1 + i - 1]
      BY <1>3, <2>1, SubSeqProperties
    <2>3. DOMAIN requests' = 1 .. n
      BY <1>3, <2>1, <2>2
    <2>4. \A i \in 1 .. n : requests'[i] = requests[i]
      BY <2>1, <2>2
    <2>5. QED
      BY <1>3, <2>1, <2>2, <2>3, <2>4
  <1>5. \A f \in Callbacks : ClientOf[f] <= process =>
           f \notin Current' /\ ClientOf[f] <= process'
    BY <1>1, <1>2, RegistryAssumption DEF Current
  <1>6. TypeOK'
    BY <1>1, <1>2, <1>4, RegistryAssumption DEF TypeOK
  <1>7. \A i \in DOMAIN requests' : requests'[i].of \in Callbacks /\ ClientOf[requests'[i].of] <= process
    <2>1. \A i \in DOMAIN requests : requests[i] \in Requests
      BY <1>2 DEF TypeOK
    <2>2. QED
      BY <1>4, <2>1 DEF IInv, ServerKnows, KnownBy, Requests
  <1>8. \A l \in listeners : l.of \in Callbacks /\ ClientOf[l.of] <= process
    BY <1>2 DEF TypeOK, IInv, ServerKnows, KnownBy
  <1>9. \A f \in wanted : f \in Callbacks /\ ClientOf[f] <= process
    BY <1>2 DEF TypeOK, IInv, ServerKnows
  <1>10. ServerKnows'
    BY <1>1, <1>5, <1>7, <1>8, <1>9 DEF ServerKnows, KnownBy
  <1>11. FunctionsBound' /\ OneClosure'
    BY <1>1 DEF IInv, FunctionsBound, OneClosure
  <1>12. Listening' \cap Current' = {} /\ wanted' \cap Current' = {}
    BY <1>1, <1>5, <1>8, <1>9 DEF Listening
  <1>13. OldestFirst' /\ ListenersAsWanted'
    BY <1>5, <1>7, <1>12 DEF OldestFirst, ListenersAsWanted
  <1>14. QED
    BY <1>6, <1>10, <1>11, <1>13 DEF IInv

\* The next server knows nothing.
LEMMA ServerRestartInv ==
    ASSUME IInv, ServerRestart
    PROVE  IInv'
  <1>1. /\ generation' = generation + 1 /\ generation < MaxRestarts
        /\ DOMAIN callbackMap' = {} /\ listeners' = {} /\ wanted' = {} /\ requests' = <<>>
        /\ emissions' \subseteq emissions
        /\ UNCHANGED <<process, callbackId, idOf, callback, handled>>
        /\ Current' = Current
    BY DEF ServerRestart, Current
  <1>2. TypeOK'
    BY <1>1, EmptySeq, RegistryAssumption DEF IInv, TypeOK
  <1>3. ServerKnows'
    BY <1>1 DEF IInv, ServerKnows, KnownBy
  <1>4. FunctionsBound'
    BY <1>1 DEF IInv, FunctionsBound, IdsDistinct
  <1>5. OneClosure' /\ OldestFirst' /\ ListenersAsWanted'
    BY <1>1 DEF OneClosure, OldestFirst, ListenersAsWanted, Listening
  <1>6. QED
    BY <1>2, <1>3, <1>4, <1>5 DEF IInv

-----------------------------------------------------------------------------
(* The theorems.                                                           *)

\* The invariant is inductive.
LEMMA IInvInductive == IInv /\ [Next]_vars => IInv'
  <1>1. SUFFICES ASSUME IInv, [Next]_vars PROVE IInv'
    OBVIOUS
  <1>2. ASSUME NEW op \in {"add", "remove"}, NEW f \in Callbacks, Pass(op, f) PROVE IInv'
    BY <1>1, <1>2, PassInv
  <1>3. CASE Handle
    BY <1>1, <1>3, HandleInv
  <1>4. CASE Emit
    BY <1>1, <1>4, EmitInv
  <1>5. ASSUME NEW e \in emissions, Run(e) PROVE IInv'
    BY <1>1, <1>5, RunInv
  <1>6. CASE ClientRestart
    BY <1>1, <1>6, ClientRestartInv
  <1>7. CASE ServerRestart
    BY <1>1, <1>7, ServerRestartInv
  <1>8. CASE UNCHANGED vars
    <2>1. Current' = Current
      BY <1>8 DEF vars, Current
    <2>2. TypeOK' /\ ServerKnows'
      BY <1>1, <1>8, <2>1 DEF vars, IInv, TypeOK, ServerKnows, KnownBy
    <2>3. FunctionsBound' /\ OneClosure' /\ OldestFirst' /\ ListenersAsWanted'
      BY <1>1, <1>8, <2>1 DEF vars, IInv, FunctionsBound, OneClosure, OldestFirst,
                              ListenersAsWanted, Listening, IdsDistinct
    <2>4. QED
      BY <2>2, <2>3 DEF IInv
  <1>9. QED
    BY <1>1, <1>2, <1>3, <1>4, <1>5, <1>6, <1>7, <1>8 DEF Next

\* Every state reached satisfies the invariant.
LEMMA RegistryInvariant == Spec => []IInv
  BY InitInv, IInvInductive, PTL DEF Spec

\* Every variable of the registry of callbacks has its type.
THEOREM RegistryTyped == Spec => []TypeOK
  <1>1. IInv => TypeOK
    BY DEF IInv
  <1>2. QED
    BY <1>1, RegistryInvariant, PTL

\* As long as ids are not used up, the engine listens for exactly those functions
\* of the running client that it added last.
THEOREM RemovalFindsListener == Spec => []ListenersAsWanted
  <1>1. IInv => ListenersAsWanted
    BY DEF IInv
  <1>2. QED
    BY <1>1, RegistryInvariant, PTL

\* An emission of a listener of the running client calls a function it is for.
THEOREM EmissionsFindFunction == Spec => []OwnFunctionRuns
  <1>1. IInv => OwnFunctionRuns
    <2>1. SUFFICES ASSUME IInv, NEW e \in emissions, IdsDistinct, e.of \cap Current # {}
                   PROVE  e.id \in DOMAIN callback /\ callback[e.id] \in e.of
      BY DEF OwnFunctionRuns
    <2>2. PICK f \in e.of : f \in Current
      BY <2>1
    <2>3. f \in DOMAIN idOf /\ e.id = idOf[f]
      BY <2>1, <2>2 DEF IInv, ServerKnows, KnownBy
    <2>4. QED
      BY <2>1, <2>2, <2>3 DEF IInv, FunctionsBound
  <1>2. QED
    BY <1>1, RegistryInvariant, PTL
=============================================================================
