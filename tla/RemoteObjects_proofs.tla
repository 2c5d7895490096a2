------------------------- MODULE RemoteObjects_proofs -------------------------
(***************************************************************************)
(* What the client's references mean, for any objects, any number of ids   *)
(* and of restarts.                                                        *)
(***************************************************************************)
EXTENDS RemoteObjects, SequenceTheorems, FiniteSetTheorems, TLAPS

\* What is proved of the table, for its operations as they are used here.
Table == INSTANCE InstanceTable_proofs
           WITH Classes <- {Controllers}, named <- {}, cleared <- {}, Names <- {}, MaxDepth <- 0,
                Arguments <- {}, Results <- {}, Emissions <- {}

\* The inverse maps name the oldest id of whatever has one.
Ordered(t) == Table!Sound(t) /\ \A x : Table!Canonical(t, x)

-----------------------------------------------------------------------------
(* What the operations of the table do.                                    *)

\* setInstance adds one id and forgets none.
LEMMA SetInstanceAdds ==
    ASSUME NEW t, NEW x
    PROVE  LET s == SetInstance(t, x) IN
             /\ s.next = t.next + 1
             /\ DOMAIN s.map = DOMAIN t.map \cup {t.next}
             /\ \A id \in DOMAIN s.map : s.map[id] = IF id = t.next THEN x ELSE t.map[id]
             /\ DOMAIN s.idOf = DOMAIN t.idOf \cup {x}
             /\ \A y \in DOMAIN s.idOf :
                    s.idOf[y] = IF y \in DOMAIN t.idOf THEN t.idOf[y] ELSE t.next
  BY DEF SetInstance, With

\* removeInstanceOfType leaves what is not of the type as it is.
LEMMA RemoveInstanceOfTypeKeeps ==
    ASSUME NEW t, NEW class
    PROVE  LET s == RemoveInstanceOfType(t, class) IN
             /\ s.next = t.next
             /\ DOMAIN s.map = {id \in DOMAIN t.map : t.map[id] \notin class}
             /\ \A id \in DOMAIN s.map : s.map[id] = t.map[id]
             /\ DOMAIN s.idOf \subseteq DOMAIN t.idOf
             /\ \A y \in DOMAIN t.idOf \ class : y \in DOMAIN s.idOf
             /\ \A y \in DOMAIN s.idOf : s.idOf[y] = t.idOf[y]
  BY DEF RemoveInstanceOfType, IdsOfType, Without, Restrict

\* A new Controller replaces those there are.
LEMMA ConstructReplaces ==
    ASSUME NEW t, NEW c
    PROVE  LET s == Construct(t, c) IN
             /\ s.next = t.next + 1
             /\ DOMAIN s.map = {id \in DOMAIN t.map : t.map[id] \notin Controllers} \cup {t.next}
             /\ \A id \in DOMAIN s.map : s.map[id] = IF id = t.next THEN c ELSE t.map[id]
             /\ DOMAIN s.idOf \subseteq DOMAIN t.idOf \cup {c}
             /\ \A y \in DOMAIN t.idOf \ Controllers : y \in DOMAIN s.idOf
             /\ \A y \in DOMAIN s.idOf \ {c} : s.idOf[y] = t.idOf[y]
  <1> DEFINE d == RemoveInstanceOfType(t, Controllers)
  <1>1. /\ d.next = t.next
        /\ DOMAIN d.map = {id \in DOMAIN t.map : t.map[id] \notin Controllers}
        /\ \A id \in DOMAIN d.map : d.map[id] = t.map[id]
        /\ DOMAIN d.idOf \subseteq DOMAIN t.idOf
        /\ \A y \in DOMAIN t.idOf \ Controllers : y \in DOMAIN d.idOf
        /\ \A y \in DOMAIN d.idOf : d.idOf[y] = t.idOf[y]
    BY RemoveInstanceOfTypeKeeps
  <1>2. /\ SetInstance(d, c).next = d.next + 1
        /\ DOMAIN SetInstance(d, c).map = DOMAIN d.map \cup {d.next}
        /\ \A id \in DOMAIN SetInstance(d, c).map :
               SetInstance(d, c).map[id] = IF id = d.next THEN c ELSE d.map[id]
        /\ DOMAIN SetInstance(d, c).idOf = DOMAIN d.idOf \cup {c}
        /\ \A y \in DOMAIN SetInstance(d, c).idOf :
               SetInstance(d, c).idOf[y] = IF y \in DOMAIN d.idOf THEN d.idOf[y] ELSE d.next
    BY SetInstanceAdds
  <1> HIDE DEF d
  <1>3. Construct(t, c) = SetInstance(d, c)
    BY DEF Construct, d
  <1>4. QED
    BY <1>1, <1>2, <1>3

-----------------------------------------------------------------------------
(* The references after a step.                                            *)

\* If a step adds to what the client knows at most one reference, under a fresh id
\* or to the object its id means already, an id goes on meaning one object.
LEMMA OneObjectPerIdKept ==
    ASSUME IInv, NEW r \in References, r.gen = generation, Known' \subseteq Known \cup {r},
           r.id = table.next \/ (r.of \in Elements /\ Reaches(r, r.of))
    PROVE  OneObjectPerId'
  <1>1. SUFFICES ASSUME NEW p \in Known, p.id = r.id, p.gen = r.gen PROVE p.of = r.of
    BY DEF IInv, OneObjectPerId
  <1>2. p.gen = generation /\ p.id < table.next
    BY <1>1 DEF IInv, NextIsFresh
  <1>3. p.id # table.next
    BY <1>2 DEF IInv, TypeOK
  <1>4. r.of \in Elements /\ Reaches(r, r.of)
    BY <1>1, <1>3
  <1>5. Reaches(p, r.of) /\ r.of \in Instances
    BY <1>1, <1>4 DEF Reaches, Elements
  <1>6. QED
    BY <1>2, <1>5 DEF IInv, ReachesOwnObject

\* A step that keeps the ids of the engine's objects, and gives the ids it adds to
\* the reference it adds, leaves what is known in order.
LEMMA KnownKept ==
    ASSUME IInv, generation' = generation,
           NEW r, r.id < table.next', r.gen = generation,
           Known' \subseteq Known \cup {r},
           table.next' \in Nat, table.next <= table.next',
           \A id \in DOMAIN table.map : table.map[id] \in Elements =>
               id \in DOMAIN table.map' /\ table.map'[id] = table.map[id],
           \A id \in DOMAIN table.map' : id < table.next =>
               id \in DOMAIN table.map /\ table.map'[id] = table.map[id],
           r.of \in Elements => Reaches(r, r.of)',
           \A x \in Instances : Reaches(r, x)' => x = r.of
    PROVE  NextIsFresh' /\ ReachesOwnObject'
  <1> USE DEF IInv
  <1>1. TypeOK
    OBVIOUS
  <1>2. ASSUME NEW p \in Known
        PROVE  p.gen <= generation /\ (p.gen = generation => p.id < table.next)
    BY <1>2 DEF NextIsFresh
  <1>3. NextIsFresh'
    <2>1. SUFFICES ASSUME NEW p \in Known'
                   PROVE  p.gen <= generation /\ (p.gen = generation => p.id < table.next')
      BY DEF NextIsFresh
    <2>2. CASE p = r
      BY <2>2 DEF TypeOK
    <2>3. CASE p \in Known
      <3>1. p \in References
        BY <2>3 DEF TypeOK, Known, Proxies
      <3>2. QED
        BY <2>3, <3>1, <1>2 DEF TypeOK, References
    <2>4. QED
      BY <2>2, <2>3
  <1>4. ReachesOwnObject'
    <2>1. SUFFICES ASSUME NEW p \in Known', p.gen = generation
                   PROVE  /\ p.of \in Elements => Reaches(p, p.of)'
                          /\ \A x \in Instances : Reaches(p, x)' => x = p.of
      BY DEF ReachesOwnObject, Elements
    <2>2. CASE p = r
      BY <2>2
    <2>3. CASE p \in Known
      <3>1. /\ p.of \in Elements => Reaches(p, p.of)
            /\ \A x \in Instances : Reaches(p, x) => x = p.of
        BY <2>1, <2>3 DEF ReachesOwnObject
      <3>2. p.id < table.next
        BY <2>1, <2>3, <1>2
      <3>3. QED
        BY <3>1, <3>2 DEF Reaches
    <2>4. QED
      BY <2>2, <2>3
  <1>5. QED
    BY <1>3, <1>4

-----------------------------------------------------------------------------
(* Each action keeps the invariant.                                        *)

\* At first nothing is known.
LEMMA InitInv == Init => IInv
  <1>1. ASSUME Init PROVE IInv
    <2>1. Known = {}
      BY <1>1 DEF Init, Known, Proxies
    <2>2. TypeOK
      BY <1>1, ObjectsAssumption DEF Init, TypeOK, EmptyTable
    <2>3. IdsResolve /\ EmittedByTable /\ OneController
      BY <1>1 DEF Init, IdsResolve, EmittedByTable, OneController, EmptyTable
    <2>4. NextIsFresh /\ OneObjectPerId /\ ReachesOwnObject
      BY <2>1 DEF NextIsFresh, OneObjectPerId, ReachesOwnObject
    <2>5. QED
      BY <2>2, <2>3, <2>4 DEF IInv
  <1>2. QED
    BY <1>1

\* A reference under an id of the table has its type.
LEMMA ReferenceTyped ==
    ASSUME TypeOK, NEW id \in 1 .. MaxId, NEW x \in Instances
    PROVE  /\ Reference(id, x) \in References
           /\ Reference(id, x).id = id /\ Reference(id, x).of = x
           /\ Reference(id, x).gen = generation
  BY DEF TypeOK, Reference, References

\* A new Controller takes the place of the ones before it, and nobody else's.
LEMMA NewControllerInv ==
    ASSUME IInv, NEW c \in Controllers, NewController(c)
    PROVE  IInv'
  <1>0. PICK r : r = Reference(table.next, c)
    OBVIOUS
  <1>1. TypeOK /\ c \in Instances /\ c \notin Elements
    BY ObjectsAssumption DEF IInv, Elements
  <1>2. /\ table.next \in 1 .. MaxId
        /\ table' = Construct(table, c) /\ made' = Append(made, c)
        /\ generation' = generation /\ clientRestarts' = clientRestarts
        /\ inFlight' = inFlight /\ instanceCache' = instanceCache /\ emitted' = emitted
        /\ controllers' \subseteq controllers \cup {r}
    BY <1>0, <1>1, ObjectsAssumption DEF NewController, TypeOK
  <1>3. r \in References /\ r.id = table.next /\ r.of = c /\ r.gen = generation
    BY <1>0, <1>1, <1>2, ReferenceTyped
  <1>4. Known' \subseteq Known \cup {r}
    BY <1>2 DEF Known, Proxies
  <1>5. /\ table.next' = table.next + 1
        /\ DOMAIN table.map'
             = {id \in DOMAIN table.map : table.map[id] \notin Controllers} \cup {table.next}
        /\ \A id \in DOMAIN table.map' :
               table.map'[id] = IF id = table.next THEN c ELSE table.map[id]
        /\ \A y \in DOMAIN table.idOf \ Controllers : y \in DOMAIN table.idOf'
        /\ \A y \in DOMAIN table.idOf' \ {c} : table.idOf'[y] = table.idOf[y]
        /\ DOMAIN table.idOf' \subseteq DOMAIN table.idOf \cup {c}
    BY <1>2, ConstructReplaces
  <1>6. TypeOK'
    <2>1. table.next' \in 1 .. MaxId + 1 /\ DOMAIN table.map' \subseteq 1 .. table.next' - 1
      BY <1>1, <1>2, <1>5, ObjectsAssumption DEF TypeOK
    <2>2. \A id \in DOMAIN table.map' : table.map'[id] \in Instances
      BY <1>1, <1>5 DEF TypeOK
    <2>3. made' \in Seq(Controllers)
      BY <1>1, <1>2, AppendProperties DEF TypeOK
    <2>4. controllers' \subseteq References
      BY <1>1, <1>2, <1>3 DEF TypeOK
    <2>5. QED
      BY <1>1, <1>2, <2>1, <2>2, <2>3, <2>4 DEF TypeOK
  <1>7. table.next \in Nat /\ \A id \in DOMAIN table.map : id # table.next
    BY <1>1, <1>2 DEF TypeOK
  <1>8. IdsResolve'
    <2>1. SUFFICES ASSUME NEW x \in Elements, x \in DOMAIN table.idOf'
                   PROVE  table.idOf'[x] \in DOMAIN table.map'
                          /\ table.map'[table.idOf'[x]] = x
      BY DEF IdsResolve, Elements
    <2>2. x \in DOMAIN table.idOf /\ table.idOf'[x] = table.idOf[x] /\ x \notin Controllers
      BY <1>1, <1>5, <2>1 DEF Elements
    <2>3. table.idOf[x] \in DOMAIN table.map /\ table.map[table.idOf[x]] = x
      BY <2>1, <2>2 DEF IInv, IdsResolve
    <2>4. QED
      BY <1>5, <1>7, <2>2, <2>3
  <1>9. EmittedByTable'
    BY <1>1, <1>2, <1>5 DEF IInv, EmittedByTable, Elements
  <1>10. OneObjectPerId'
    BY <1>3, <1>4, OneObjectPerIdKept
  <1>11. NextIsFresh' /\ ReachesOwnObject'
    <2>1. /\ r.id < table.next' /\ table.next <= table.next' /\ table.next' \in Nat
      BY <1>3, <1>5, <1>7
    <2>2. \A id \in DOMAIN table.map : table.map[id] \in Elements =>
               id \in DOMAIN table.map' /\ table.map'[id] = table.map[id]
      BY <1>5, <1>7 DEF Elements
    <2>3. \A id \in DOMAIN table.map' : id < table.next =>
               id \in DOMAIN table.map /\ table.map'[id] = table.map[id]
      BY <1>5, <1>7
    <2>4. /\ r.of \in Elements => Reaches(r, r.of)'
          /\ \A x \in Instances : Reaches(r, x)' => x = r.of
      BY <1>1, <1>3, <1>5 DEF Reaches
    <2>5. QED
      BY <1>2, <1>3, <1>4, <2>1, <2>2, <2>3, <2>4, KnownKept
  <1>12. OneController'
    <2>1. {table.map'[id] : id \in DOMAIN table.map'} \cap Controllers = {c}
      <3>1. table.next \in DOMAIN table.map' /\ table.map'[table.next] = c
        BY <1>5
      <3>2. \A id \in DOMAIN table.map' : table.map'[id] \in Controllers => table.map'[id] = c
        BY <1>5, <1>7
      <3>3. QED
        BY <3>1, <3>2
    <2>2. made' # <<>> /\ made'[Len(made')] = c
      BY <1>1, <1>2, AppendProperties DEF TypeOK
    <2>3. QED
      BY <2>1, <2>2 DEF OneController
  <1>13. QED
    BY <1>6, <1>8, <1>9, <1>10, <1>11, <1>12 DEF IInv

\* Registering an engine object once more.
LEMMA RegisterInv ==
    ASSUME IInv, NEW x \in Elements, table.next <= MaxId,
           table' = SetInstance(table, x),
           inFlight' = inFlight \cup {Reference(table.next, x)},
           emitted' = emitted \/ (/\ x \notin DOMAIN table.idOf
                                  /\ emitted' = emitted \cup {Reference(table.next, x)}),
           UNCHANGED <<generation, instanceCache, controllers, made, clientRestarts>>
    PROVE  IInv'
  <1>0. PICK r : r = Reference(table.next, x)
    OBVIOUS
  <1>1. TypeOK /\ x \in Instances /\ x \notin Controllers
    BY DEF IInv, Elements
  <1>2. table.next \in 1 .. MaxId /\ \A id \in DOMAIN table.map : id # table.next
    BY <1>1, ObjectsAssumption DEF TypeOK
  <1>3. r \in References /\ r.id = table.next /\ r.of = x /\ r.gen = generation
    BY <1>0, <1>1, <1>2, ReferenceTyped
  <1>a. /\ inFlight' = inFlight \cup {r}
        /\ emitted' = emitted \/ (x \notin DOMAIN table.idOf /\ emitted' = emitted \cup {r})
    BY <1>0
  <1>4. Known' \subseteq Known \cup {r}
    BY <1>a DEF Known, Proxies
  <1>5. /\ table.next' = table.next + 1
        /\ DOMAIN table.map' = DOMAIN table.map \cup {table.next}
        /\ \A id \in DOMAIN table.map' :
               table.map'[id] = IF id = table.next THEN x ELSE table.map[id]
        /\ DOMAIN table.idOf' = DOMAIN table.idOf \cup {x}
        /\ \A y \in DOMAIN table.idOf' :
               table.idOf'[y] = IF y \in DOMAIN table.idOf THEN table.idOf[y] ELSE table.next
    BY SetInstanceAdds
  <1>6. TypeOK'
    <2>1. table.next' \in 1 .. MaxId + 1 /\ DOMAIN table.map' \subseteq 1 .. table.next' - 1
      BY <1>1, <1>2, <1>5, ObjectsAssumption DEF TypeOK
    <2>2. \A id \in DOMAIN table.map' : table.map'[id] \in Instances
      BY <1>1, <1>5 DEF TypeOK
    <2>3. inFlight' \subseteq References /\ emitted' \subseteq References
      BY <1>1, <1>a, <1>3 DEF TypeOK
    <2>4. QED
      BY <1>1, <2>1, <2>2, <2>3 DEF TypeOK
  <1>7. IdsResolve'
    <2>1. SUFFICES ASSUME NEW y \in Elements, y \in DOMAIN table.idOf'
                   PROVE  table.idOf'[y] \in DOMAIN table.map'
                          /\ table.map'[table.idOf'[y]] = y
      BY DEF IdsResolve, Elements
    <2>2. CASE y \in DOMAIN table.idOf
      <3>1. table.idOf[y] \in DOMAIN table.map /\ table.map[table.idOf[y]] = y
        BY <2>1, <2>2 DEF IInv, IdsResolve
      <3>2. QED
        BY <1>2, <1>5, <2>1, <2>2, <3>1
    <2>3. CASE y \notin DOMAIN table.idOf
      BY <1>5, <2>1, <2>3
    <2>4. QED
      BY <2>2, <2>3
  <1>8. EmittedByTable'
    <2>1. SUFFICES ASSUME NEW q \in emitted'
                   PROVE  q.of \in Elements /\ q.of \in DOMAIN table.idOf'
                          /\ q.id = table.idOf'[q.of]
      BY DEF EmittedByTable, Elements
    <2>2. CASE q \in emitted
      BY <1>5, <2>2 DEF IInv, EmittedByTable
    <2>3. CASE q \notin emitted
      <3>1. q = r /\ x \notin DOMAIN table.idOf
        BY <1>a, <2>1, <2>3
      <3>2. QED
        BY <1>3, <1>5, <3>1
    <2>4. QED
      BY <2>2, <2>3
  <1>9. OneObjectPerId'
    BY <1>3, <1>4, OneObjectPerIdKept
  <1>10. NextIsFresh' /\ ReachesOwnObject'
    <2>1. /\ r.id < table.next' /\ table.next <= table.next' /\ table.next' \in Nat
      BY <1>2, <1>3, <1>5
    <2>2. \A id \in DOMAIN table.map : table.map[id] \in Elements =>
               id \in DOMAIN table.map' /\ table.map'[id] = table.map[id]
      BY <1>2, <1>5
    <2>3. \A id \in DOMAIN table.map' : id < table.next =>
               id \in DOMAIN table.map /\ table.map'[id] = table.map[id]
      BY <1>2, <1>5
    <2>4. /\ r.of \in Elements => Reaches(r, r.of)'
          /\ \A y \in Instances : Reaches(r, y)' => y = r.of
      BY <1>3, <1>5 DEF Reaches
    <2>5. QED
      BY <1>3, <1>4, <2>1, <2>2, <2>3, <2>4, KnownKept
  <1>11. OneController'
    <2>1. {table.map'[id] : id \in DOMAIN table.map'} \cap Controllers
            = {table.map[id] : id \in DOMAIN table.map} \cap Controllers
      BY <1>1, <1>2, <1>5
    <2>2. QED
      BY <2>1 DEF IInv, OneController
  <1>12. QED
    BY <1>6, <1>7, <1>8, <1>9, <1>10, <1>11 DEF IInv

\* A result is a new reference to an engine object.
LEMMA ReturnObjectInv ==
    ASSUME IInv, NEW p \in Proxies, NEW x \in Elements, ReturnObject(p, x)
    PROVE  IInv'
  BY RegisterInv DEF ReturnObject, HookResult

\* A callback's argument is a new reference too, or one to a live id of the object.
LEMMA EmitObjectInv ==
    ASSUME IInv, NEW x \in Elements, EmitObject(x)
    PROVE  IInv'
  <1>1. TypeOK /\ x \in Instances
    BY DEF IInv, Elements
  <1>2. PICK id : /\ id = IdForCallback(table, x) /\ id <= MaxId
                  /\ table' = IF id = table.next THEN SetInstance(table, x) ELSE table
                  /\ inFlight' = inFlight \cup {Reference(id, x)}
                  /\ emitted' = emitted \cup {Reference(id, x)}
    BY DEF EmitObject
  <1>3. UNCHANGED <<generation, instanceCache, controllers, made, clientRestarts>>
    BY DEF EmitObject
  <1>4. CASE x \notin DOMAIN table.idOf
    <2>1. id = table.next
      BY <1>2, <1>4 DEF IdForCallback, GetInstanceId
    <2>2. QED
      BY <1>2, <1>3, <1>4, <2>1, RegisterInv
  <1>5. CASE x \in DOMAIN table.idOf
    <2>1. table.idOf[x] \in DOMAIN table.map /\ table.map[table.idOf[x]] = x
      BY <1>5 DEF IInv, IdsResolve
    <2>2. id = table.idOf[x]
      BY <1>1, <1>2, <1>5, <2>1 DEF IdForCallback, GetInstanceId, TypeOK
    <2>3. id \in 1 .. MaxId /\ id < table.next
      BY <1>1, <1>2, <2>1, <2>2, ObjectsAssumption DEF TypeOK
    <2>4. table' = table
      BY <1>1, <1>2, <2>3 DEF TypeOK
    <2>5. PICK r : r = Reference(id, x)
      OBVIOUS
    <2>6. r \in References /\ r.id = id /\ r.of = x /\ r.gen = generation
      BY <1>1, <2>3, <2>5, ReferenceTyped
    <2>7. /\ Known' \subseteq Known \cup {r}
          /\ inFlight' = inFlight \cup {r} /\ emitted' = emitted \cup {r}
      BY <1>2, <1>3, <2>5 DEF Known, Proxies
    <2>8. /\ r.of \in Elements /\ Reaches(r, r.of)
          /\ \A y \in Instances : Reaches(r, y) => y = r.of
      BY <2>1, <2>2, <2>6 DEF Reaches
    <2>9. TypeOK'
      BY <1>1, <1>3, <2>4, <2>6, <2>7 DEF TypeOK
    <2>10. IdsResolve' /\ OneController'
      BY <1>3, <2>4 DEF IInv, IdsResolve, OneController
    <2>11. EmittedByTable'
      BY <1>5, <2>2, <2>4, <2>6, <2>7 DEF IInv, EmittedByTable
    <2>12. OneObjectPerId'
      BY <2>6, <2>7, <2>8, OneObjectPerIdKept
    <2>13. NextIsFresh' /\ ReachesOwnObject'
      <3>1. /\ r.id < table.next' /\ table.next <= table.next' /\ table.next' \in Nat
        BY <1>1, <2>3, <2>4, <2>6 DEF TypeOK
      <3>2. /\ r.of \in Elements => Reaches(r, r.of)'
            /\ \A y \in Instances : Reaches(r, y)' => y = r.of
        BY <2>4, <2>8 DEF Reaches
      <3>3. QED
        BY <1>3, <2>4, <2>6, <2>7, <3>1, <3>2, KnownKept
    <2>14. QED
      BY <2>9, <2>10, <2>11, <2>12, <2>13 DEF IInv
  <1>6. QED
    BY <1>4, <1>5

\* What is known shrinks, or stays, while the table and the history stay.
LEMMA KnownShrinks ==
    ASSUME IInv, TypeOK', Known' \subseteq Known,
           UNCHANGED <<table, generation, made, emitted>>
    PROVE  IInv'
  <1>1. IdsResolve' /\ EmittedByTable' /\ OneController'
    BY DEF IInv, IdsResolve, EmittedByTable, OneController
  <1>2. OneObjectPerId'
    BY DEF IInv, OneObjectPerId
  <1>3. NextIsFresh'
    BY DEF IInv, NextIsFresh
  <1>4. ReachesOwnObject'
    BY DEF IInv, ReachesOwnObject, Reaches
  <1>5. QED
    BY <1>1, <1>2, <1>3, <1>4 DEF IInv

\* The client keeps a reference it takes, or drops it for the proxy it has.
LEMMA TakeReferenceInv ==
    ASSUME IInv, NEW ref \in inFlight, TakeReference(ref)
    PROVE  IInv'
  <1>1. TypeOK
    BY DEF IInv
  <1>2. /\ inFlight' = inFlight \ {ref} /\ controllers' = controllers
        /\ DOMAIN instanceCache \subseteq DOMAIN instanceCache'
        /\ \A id \in DOMAIN instanceCache' :
               instanceCache'[id] = IF id \in DOMAIN instanceCache
                                    THEN instanceCache[id] ELSE ref
    BY DEF TakeReference, With
  <1>3. Known' \subseteq Known
    BY <1>2 DEF Known, Proxies
  <1>4. TypeOK'
    BY <1>1, <1>2 DEF TypeOK, TakeReference
  <1>5. QED
    BY <1>3, <1>4, KnownShrinks DEF TakeReference

\* A client that starts anew knows nothing.
LEMMA ClientRestartInv ==
    ASSUME IInv, ClientRestart
    PROVE  IInv'
  <1>1. Known' = {}
    BY DEF ClientRestart, Known, Proxies
  <1>2. TypeOK'
    BY ObjectsAssumption DEF IInv, TypeOK, ClientRestart
  <1>3. QED
    BY <1>1, <1>2, KnownShrinks DEF ClientRestart

\* What the client has kept is of an earlier server process.
LEMMA ServerRestartInv ==
    ASSUME IInv, ServerRestart
    PROVE  IInv'
  <1>1. TypeOK /\ table' = EmptyTable /\ generation' = generation + 1 /\ generation \in Nat
    BY DEF IInv, ServerRestart, TypeOK
  <1>2. Known' \subseteq Known
    BY DEF ServerRestart, Known, Proxies
  <1>3. \A p \in Known' : p.gen < generation'
    <2>1. \A p \in Known : p.gen \in Nat /\ p.gen <= generation
      BY <1>1 DEF IInv, NextIsFresh, Known, Proxies, TypeOK, References
    <2>2. QED
      BY <1>1, <1>2, <2>1
  <1>4. TypeOK'
    BY <1>1, ObjectsAssumption, EmptySeq DEF ServerRestart, TypeOK, EmptyTable
  <1>5. IdsResolve' /\ EmittedByTable' /\ OneController'
    BY DEF ServerRestart, EmptyTable, IdsResolve, EmittedByTable, OneController
  <1>6. NextIsFresh' /\ ReachesOwnObject'
    <2>1. \A p \in Known' : p.gen \in Nat
      BY <1>2, <1>1 DEF Known, Proxies, TypeOK, References
    <2>2. QED
      BY <1>1, <1>3, <2>1 DEF NextIsFresh, ReachesOwnObject
  <1>7. OneObjectPerId'
    BY <1>2 DEF IInv, OneObjectPerId
  <1>8. QED
    BY <1>4, <1>5, <1>6, <1>7 DEF IInv

-----------------------------------------------------------------------------
(* The ids of objects with several.                                        *)

\* What InstanceTable assumes of its constants.
LEMMA TableAssumed ==
    /\ Table!TableAssumption /\ Table!InstanceAssumption
    /\ Table!ValuesAssumption /\ Table!ConversionsAssumption
  <1>1. Table!TableAssumption /\ Table!InstanceAssumption
    BY ObjectsAssumption, InstanceAssumption DEF Table!TableAssumption, Table!InstanceAssumption
  <1>2. Table!ValuesAssumption
    BY FS_EmptySet DEF Table!ValuesAssumption, Table!IsFiniteSet, IsFiniteSet
  <1>3. Table!ConversionsAssumption
    BY DEF Table!ConversionsAssumption
  <1>4. QED
    BY <1>1, <1>2, <1>3

\* Its operations are those of this module.
LEMMA TableOperations ==
    /\ Table!EmptyTable = EmptyTable
    /\ \A t, x : Table!SetInstance(t, x) = SetInstance(t, x)
    /\ \A t, class : Table!RemoveInstanceOfType(t, class) = RemoveInstanceOfType(t, class)
    /\ \A t, x : Table!GetInstanceId(t, x) = GetInstanceId(t, x)
    /\ \A t, x : Table!IdsOf(t, x) = IdsOf(t, x)
    /\ \A ids : Table!Oldest(ids) = Oldest(ids)
  BY DEF Table!EmptyTable, EmptyTable, Table!SetInstance, SetInstance, Table!With, With,
    Table!RemoveInstanceOfType, RemoveInstanceOfType, Table!Without, Without, Table!Restrict,
    Restrict, Table!IdsOfType, IdsOfType, Table!GetInstanceId, GetInstanceId, Table!IdsOf, IdsOf,
    Table!Oldest, Oldest

\* They keep the table ordered: InstanceTable has a lemma for each.
LEMMA OrderKept ==
    /\ Ordered(EmptyTable)
    /\ \A t, x : Ordered(t) => Ordered(SetInstance(t, x))
    /\ \A t, class : Ordered(t) => Ordered(RemoveInstanceOfType(t, class))
  <1>1. Ordered(EmptyTable)
    BY TableAssumed, TableOperations, Table!EmptyCanonical DEF Ordered
  <1>2. ASSUME NEW t, NEW x, Ordered(t)
        PROVE  Ordered(SetInstance(t, x))
    BY <1>2, TableAssumed, TableOperations, Table!SetKeeps DEF Ordered
  <1>3. ASSUME NEW t, NEW class, Ordered(t)
        PROVE  Ordered(RemoveInstanceOfType(t, class))
    BY <1>3, TableAssumed, TableOperations, Table!RemoveTypeKeeps DEF Ordered
  <1>4. QED
    BY <1>1, <1>2, <1>3

\* So it stays ordered, whoever registers what, however often Controllers are replaced and
\* the server restarts.
LEMMA TableKept == Ordered(table) /\ [Next]_vars => Ordered(table)'
  <1>1. SUFFICES ASSUME Ordered(table), [Next]_vars PROVE Ordered(table')
    OBVIOUS
  <1>2. ASSUME NEW c, table' = Construct(table, c)
        PROVE  Ordered(table')
    BY <1>1, <1>2, OrderKept DEF Construct
  <1>3. ASSUME NEW x, table' = SetInstance(table, x)
        PROVE  Ordered(table')
    BY <1>1, <1>3, OrderKept
  <1>4. CASE table' = table \/ table' = EmptyTable
    BY <1>1, <1>4, OrderKept
  <1>5. QED
    BY <1>1, <1>2, <1>3, <1>4
    DEF Next, vars, NewController, ReturnObject, HookResult, EmitObject, TakeReference,
        ClientRestart, ServerRestart

-----------------------------------------------------------------------------
(* The theorems.                                                           *)

\* The invariant is inductive.
LEMMA IInvInductive == IInv /\ [Next]_vars => IInv'
  <1>1. SUFFICES ASSUME IInv, [Next]_vars PROVE IInv'
    OBVIOUS
  <1>2. ASSUME NEW c \in Controllers, NewController(c) PROVE IInv'
    BY <1>1, <1>2, NewControllerInv
  <1>3. ASSUME NEW p \in Proxies, NEW x \in Elements, ReturnObject(p, x) PROVE IInv'
    BY <1>1, <1>3, ReturnObjectInv
  <1>4. ASSUME NEW x \in Elements, EmitObject(x) PROVE IInv'
    BY <1>1, <1>4, EmitObjectInv
  <1>5. ASSUME NEW ref \in inFlight, TakeReference(ref) PROVE IInv'
    BY <1>1, <1>5, TakeReferenceInv
  <1>6. CASE ClientRestart
    BY <1>1, <1>6, ClientRestartInv
  <1>7. CASE ServerRestart
    BY <1>1, <1>7, ServerRestartInv
  <1>8. CASE UNCHANGED vars
    <2>1. TypeOK' /\ Known' \subseteq Known
      BY <1>1, <1>8 DEF IInv, TypeOK, Known, Proxies, vars
    <2>2. QED
      BY <1>1, <1>8, <2>1, KnownShrinks DEF vars
  <1>9. QED
    BY <1>1, <1>2, <1>3, <1>4, <1>5, <1>6, <1>7, <1>8 DEF Next

\* Every state reached satisfies the invariant.
LEMMA ObjectsInvariant == Spec => []IInv
  BY InitInv, IInvInductive, PTL DEF Spec

\* Every variable of the model of remote objects has its type.
THEOREM ObjectsTyped == Spec => []TypeOK
  <1>1. IInv => TypeOK
    BY DEF IInv
  <1>2. QED
    BY <1>1, ObjectsInvariant, PTL

\* While a server process lives, an id means one object in everything the client
\* knows: the cache of proxies never gives the proxy of another object.
THEOREM ObjectIdentity == Spec => []OneObjectPerId
  <1>1. IInv => OneObjectPerId
    BY DEF IInv
  <1>2. QED
    BY <1>1, ObjectsInvariant, PTL

\* A proxy reaches the object it was made for or, if that was a Controller since
\* replaced, nothing.
THEOREM ProxiesReachTheirObjects == Spec => []ReachesOwnObject
  <1>1. IInv => ReachesOwnObject
    BY DEF IInv
  <1>2. QED
    BY <1>1, ObjectsInvariant, PTL

\* The server keeps the Controller that was made last and no other.
THEOREM LastControllerOnly == Spec => []OneController
  <1>1. IInv => OneController
    BY DEF IInv
  <1>2. QED
    BY <1>1, ObjectsInvariant, PTL

\* An object reaches callbacks under the oldest id it has: however many results have
\* given it further ids, events bring the proxy that the client made of it first.
THEOREM EmittedIdentity == Spec => []OneIdPerEmitted
  <1>1. Init => Ordered(table)
    BY OrderKept DEF Init
  <1>2. IInv /\ Ordered(table) => OneIdPerEmitted
    <2>1. SUFFICES ASSUME IInv, Ordered(table), NEW r \in emitted
                   PROVE  IdsOf(table, r.of) # {} /\ r.id = Oldest(IdsOf(table, r.of))
      BY DEF OneIdPerEmitted
    <2>2. /\ r.of \in Elements \cap DOMAIN table.idOf /\ r.id = table.idOf[r.of]
          /\ r.id \in DOMAIN table.map /\ table.map[r.id] = r.of
      BY <2>1 DEF IInv, EmittedByTable, IdsResolve
    <2>3. GetInstanceId(table, r.of) = r.id /\ IdsOf(table, r.of) # {}
      BY <2>2 DEF GetInstanceId, IdsOf
    <2>4. Table!Canonical(table, r.of)
      BY <2>1 DEF Ordered
    <2>5. QED
      BY <2>3, <2>4, TableOperations DEF Table!Canonical
  <1>3. QED
    BY <1>1, <1>2, TableKept, ObjectsInvariant, PTL DEF Spec
=============================================================================
