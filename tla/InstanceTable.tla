---------------------------- MODULE InstanceTable ----------------------------
(***************************************************************************)
(* The table of object-manage.ts under every sequence of its operations.   *)
(***************************************************************************)
EXTENDS InstanceManage

CONSTANTS
    Classes,  \* the sets of instances that are of one type
    MaxId     \* bound: the last id handed out

ASSUME TableAssumption == Classes \subseteq SUBSET Instances /\ MaxId \in Nat

VARIABLES
    table,
    named,    \* history: <<id, instance>> for every id that was in the table
    cleared   \* history: the objects that were registered when the table was cleared

vars == <<table, named, cleared>>

Init == table = EmptyTable /\ named = {} /\ cleared = {}

Set(x) ==
    /\ table.next <= MaxId
    /\ table' = SetInstance(table, x)
    /\ named' = named \cup {<<table.next, x>>}
    /\ UNCHANGED cleared

\* removeInstance of an id that is not in the table returns at once.
Remove(id) ==
    /\ table' = IF id \in DOMAIN table.map THEN RemoveInstance(table, id) ELSE table
    /\ UNCHANGED <<named, cleared>>

RemoveOfType(class) ==
    /\ table' = RemoveInstanceOfType(table, class)
    /\ UNCHANGED <<named, cleared>>

Clear ==
    /\ table' = ClearInstance(table)
    /\ cleared' = cleared \cup (DOMAIN table.idOf \ Primitives)
    /\ UNCHANGED named

Next ==
    \/ \E x \in Instances : Set(x)
    \/ \E id \in 1 .. MaxId : Remove(id)
    \/ \E class \in Classes : RemoveOfType(class)
    \/ Clear

Spec == Init /\ [][Next]_vars

-----------------------------------------------------------------------------
\* getInstanceId gives the oldest id an instance still has, and none to an
\* instance that has none, whatever was registered twice, removed under one of
\* its ids or dropped with its type: hook-argument.ts:33 registers anew what has
\* no id, and sends the id it gets.  Only objects that a clearInstance dropped
\* are excepted: their WeakMap entries stay.
CanonicalIds ==
    \A x \in Instances \ cleared :
        GetInstanceId(table, x) = IF IdsOf(table, x) = {} THEN 0 ELSE Oldest(IdsOf(table, x))

\* An id names one instance for good, across removals and clearings: what the
\* client still holds may cease to mean anything, never come to mean another
\* object.
IdsAreForever ==
    \A p, q \in named : p[1] = q[1] => p[2] = q[2]
=============================================================================
