--------------------------- MODULE InstanceManage ---------------------------
(***************************************************************************)
(* packages/typescript/src/server/object-manage.ts:33-127: the server's    *)
(* table of the objects that the client may name.  A table is instanceMap  *)
(* (id to instance), the two inverse maps as one (the WeakMap for objects, *)
(* the Map for primitives: instance to one of its ids), and the next id.   *)
(* An instance that is registered again gets another id.                   *)
(***************************************************************************)
EXTENDS Naturals, Functions

CONSTANTS
    Instances,   \* the values that may be registered
    Primitives   \* those of them that cannot be a key of a WeakMap

ASSUME InstanceAssumption == Primitives \subseteq Instances

EmptyTable == [map |-> [id \in {} |-> 0], idOf |-> [x \in {} |-> 0], next |-> 1]

\* f with x mapped to y.
With(f, x, y)    == [z \in DOMAIN f \cup {x} |-> IF z = x THEN y ELSE f[z]]
Without(f, gone) == Restrict(f, DOMAIN f \ gone)

IdsOf(t, x) == {id \in DOMAIN t.map : t.map[id] = x}

\* A Map is iterated in the order of insertion, which is that of the ids.
Oldest(ids) == CHOOSE id \in ids : \A other \in ids : id <= other

\* 0 stands for null: no id.
GetInstanceId(t, x) == IF x \in DOMAIN t.idOf THEN t.idOf[x] ELSE 0

\* Mutant of SetInstance: the newest id becomes the instance's own.
SetInstanceNewest(t, x) ==
    [map  |-> With(t.map, t.next, x),
     idOf |-> With(t.idOf, x, t.next),
     next |-> t.next + 1]

\* Register x under the next id; it stays known by the first it was given.
SetInstance(t, x) ==
    [map  |-> With(t.map, t.next, x),
     idOf |-> IF x \in DOMAIN t.idOf THEN t.idOf ELSE With(t.idOf, x, t.next),
     next |-> t.next + 1]

\* Mutant of RemoveInstance: the instance's own id goes with whichever id is removed.
RemoveInstanceForgets(t, id) ==
    [map  |-> Without(t.map, {id}),
     idOf |-> Without(t.idOf, {t.map[id]}),
     next |-> t.next]

\* If the id was the instance's own, another of its ids takes the place.
RemoveInstance(t, id) ==
    LET x      == t.map[id]
        others == IdsOf(t, x) \ {id}
    IN [map  |-> Without(t.map, {id}),
        idOf |-> IF GetInstanceId(t, x) # id THEN t.idOf
                 ELSE IF others = {} THEN Without(t.idOf, {x})
                 ELSE With(t.idOf, x, Oldest(others)),
        next |-> t.next]

\* The ids of the instances of a class.
IdsOfType(t, class) == {id \in DOMAIN t.map : t.map[id] \in class}

\* Mutant of RemoveInstanceOfType: the first id that became free is next.
RemoveInstanceOfTypeRewinds(t, class) ==
    [map  |-> Without(t.map, IdsOfType(t, class)),
     idOf |-> Without(t.idOf, class),
     next |-> IF IdsOfType(t, class) = {} THEN t.next ELSE Oldest(IdsOfType(t, class))]

\* All instances of a class, under all their ids.
RemoveInstanceOfType(t, class) ==
    [map  |-> Without(t.map, IdsOfType(t, class)),
     idOf |-> Without(t.idOf, {x \in class : GetInstanceId(t, x) \in IdsOf(t, x)}),
     next |-> t.next]

\* Mutant of ClearInstance: the ids start anew.
ClearInstanceResets(t) ==
    [map |-> EmptyTable.map, idOf |-> Without(t.idOf, Primitives), next |-> 1]

\* A WeakMap cannot be cleared: the objects keep the ids they had.
ClearInstance(t) ==
    [map |-> EmptyTable.map, idOf |-> Without(t.idOf, Primitives), next |-> t.next]
=============================================================================
