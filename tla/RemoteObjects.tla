---------------------------- MODULE RemoteObjects ----------------------------
(***************************************************************************)
(* Remote objects, from the engine's object to the client's proxy.         *)
(*                                                                         *)
(* The server hands out references {instanceId, instanceType}: as results  *)
(* (hook-argument.ts, hookResult: always under a new id), as arguments of  *)
(* callbacks (hookCallbackArgument: under the id the object has), and to   *)
(* the client that constructs a Controller (server.ts, controller.ts).     *)
(* The client turns a reference into a proxy, one per id, kept in          *)
(* instanceCache for ever (convert.cc:186-209); a proxy's calls name their *)
(* target by the id (base_client.cc), which the server looks up            *)
(* (server.ts:93-177, hook-argument.ts:65-77).                             *)
(*                                                                         *)
(* Answers bypass the queue of callbacks, so that references in flight are *)
(* a set.  Either process may be restarted; the server then numbers from 1 *)
(* again, with other objects, and a client process that survived keeps its *)
(* proxies and its cache.                                                  *)
(***************************************************************************)
EXTENDS InstanceManage, Sequences, FiniteSets

CONSTANTS
    Controllers,  \* the Controller objects; the others are the engine's
    MaxId,        \* bound: the last id a server process hands out
    MaxRestarts   \* bound: how often each process restarts

ASSUME ObjectsAssumption ==
    /\ Controllers \subseteq Instances
    /\ MaxId \in Nat /\ MaxRestarts \in Nat

Elements == Instances \ Controllers

VARIABLES
    table,          \* the server's table
    generation,     \* history: which server process runs, from 0
    inFlight,       \* references sent and not yet taken by the client
    instanceCache,  \* the client's cache: id to the proxy that was made for it
    controllers,    \* the proxies of Controllers: made by the application, not cached
    made,           \* history: the Controllers of this server process, oldest first
    emitted,        \* history: the references this server process gave to callbacks
    clientRestarts  \* history: how often the client was restarted

vars == <<table, generation, inFlight, instanceCache, controllers, made, emitted,
          clientRestarts>>

\* A reference, or a proxy: its id, and as history what it was made for.
Reference(id, x) == [id |-> id, of |-> x, gen |-> generation]

Proxies == {instanceCache[id] : id \in DOMAIN instanceCache} \cup controllers

\* The object a proxy reaches, or nothing.
Reaches(p, x) == p.id \in DOMAIN table.map /\ table.map[p.id] = x

Init ==
    /\ table = EmptyTable
    /\ generation = 0
    /\ inFlight = {}
    /\ instanceCache = [id \in {} |-> 0]
    /\ controllers = {}
    /\ made = <<>>
    /\ emitted = {}
    /\ clientRestarts = 0

-----------------------------------------------------------------------------
\* Mutant of Construct: the object is registered before its constructor has
\* dropped the Controllers.
ConstructThenDrop(t, c) == RemoveInstanceOfType(SetInstance(t, c), Controllers)

\* The constructor of the server's Controller drops those there are; then the new
\* object is registered.
Construct(t, c) == SetInstance(RemoveInstanceOfType(t, Controllers), c)

\* The application makes a Controller and gets its id, if the answer is in time.
NewController(c) ==
    /\ table.next <= MaxId
    /\ \A i \in DOMAIN made : made[i] # c
    /\ made' = Append(made, c)
    /\ table' = Construct(table, c)
    /\ \E answer \in SUBSET {Reference(table.next, c)} : controllers' = controllers \cup answer
    /\ UNCHANGED <<generation, inFlight, instanceCache, emitted, clientRestarts>>

\* A result is registered anew, whether the object has an id or not.
HookResult(x) ==
    /\ table' = SetInstance(table, x)
    /\ inFlight' = inFlight \cup {Reference(table.next, x)}

\* A call or a property access through a proxy returns an object.  A proxy that
\* reaches nothing gets an error, and nothing changes.
ReturnObject(p, x) ==
    /\ table.next <= MaxId
    /\ \E y \in Instances : Reaches(p, y)
    /\ HookResult(x)
    /\ UNCHANGED <<generation, instanceCache, controllers, made, emitted, clientRestarts>>

\* Mutant of IdForCallback: registered anew each time, as for results.
IdForCallbackAlways(t, x) == t.next

IdForCallback(t, x) == IF GetInstanceId(t, x) # 0 THEN GetInstanceId(t, x) ELSE t.next

\* The engine calls a callback with an object, known to the client or not.
EmitObject(x) ==
    /\ LET id == IdForCallback(table, x) IN
         /\ id <= MaxId
         /\ table' = IF id = table.next THEN SetInstance(table, x) ELSE table
         /\ inFlight' = inFlight \cup {Reference(id, x)}
         /\ emitted' = emitted \cup {Reference(id, x)}
    /\ UNCHANGED <<generation, instanceCache, controllers, made, clientRestarts>>

\* The client converts a reference: the cached proxy of the id, or a new one.
TakeReference(ref) ==
    /\ inFlight' = inFlight \ {ref}
    /\ instanceCache' = IF ref.id \in DOMAIN instanceCache
                          THEN instanceCache
                          ELSE With(instanceCache, ref.id, ref)
    /\ UNCHANGED <<table, generation, controllers, made, emitted, clientRestarts>>

-----------------------------------------------------------------------------
\* A new client process knows nothing; the server keeps what it has.
ClientRestart ==
    /\ clientRestarts < MaxRestarts
    /\ clientRestarts' = clientRestarts + 1
    /\ inFlight' = {}
    /\ instanceCache' = [id \in {} |-> 0]
    /\ controllers' = {}
    /\ UNCHANGED <<table, generation, made, emitted>>

\* A new server process knows nothing; the client keeps what it has, and what its
\* reader thread has already read.
ServerRestart ==
    /\ generation < MaxRestarts
    /\ generation' = generation + 1
    /\ table' = EmptyTable
    /\ inFlight' \in SUBSET inFlight
    /\ made' = <<>>
    /\ emitted' = {}
    /\ UNCHANGED <<instanceCache, controllers, clientRestarts>>

Next ==
    \/ \E c \in Controllers : NewController(c)
    \/ \E p \in Proxies, x \in Elements : ReturnObject(p, x)
    \/ \E x \in Elements : EmitObject(x)
    \/ \E ref \in inFlight : TakeReference(ref)
    \/ ClientRestart
    \/ ServerRestart

Spec == Init /\ [][Next]_vars

-----------------------------------------------------------------------------
References == [id : 1 .. MaxId, of : Instances, gen : 0 .. MaxRestarts]

\* Every variable has its type.
TypeOK ==
    /\ table.next \in 1 .. MaxId + 1
    /\ DOMAIN table.map \subseteq 1 .. table.next - 1
    /\ \A id \in DOMAIN table.map : table.map[id] \in Instances
    /\ generation \in 0 .. MaxRestarts /\ clientRestarts \in 0 .. MaxRestarts
    /\ inFlight \subseteq References /\ emitted \subseteq References
    /\ controllers \subseteq References
    /\ \A id \in DOMAIN instanceCache : instanceCache[id] \in References
    /\ made \in Seq(Controllers)

Known == Proxies \cup inFlight

\* An id means one object to the client, as long as the server process lives:
\* whatever the cache gives for a reference is a proxy of the object referred to.
OneObjectPerId ==
    \A p, q \in Known : p.id = q.id /\ p.gen = q.gen => p.of = q.of

\* While its server process lives, what the client holds of an engine object
\* reaches that object, and what it holds of a Controller reaches that
\* Controller or, once it was replaced, nothing.
ReachesOwnObject ==
    \A p \in Known : p.gen = generation =>
        /\ p.of \in Elements => Reaches(p, p.of)
        /\ \A x \in Instances : Reaches(p, x) => x = p.of

\* The Controller constructed last, by this client process or an earlier one, is
\* registered, and no other is.
OneController ==
    {table.map[id] : id \in DOMAIN table.map} \cap Controllers
        = IF made = <<>> THEN {} ELSE {made[Len(made)]}

\* The engine's object has one id in all callbacks of a server process, the oldest
\* of those it has: two events of one element give the client one proxy, although
\* each result that returns the element gives it another.
OneIdPerEmitted ==
    \A r \in emitted :
        IdsOf(table, r.of) # {} /\ r.id = Oldest(IdsOf(table, r.of))

-----------------------------------------------------------------------------
(***************************************************************************)
(* The inductive invariant behind the invariants above (proved in          *)
(* RemoteObjects_proofs).  A reference is only as good as the table's      *)
(* counter is fresh and the id the table gives for an engine object is     *)
(* live, whoever has registered it.                                        *)
(***************************************************************************)
\* The inverse map names a live id of each engine object it knows.
IdsResolve ==
    \A x \in Elements \cap DOMAIN table.idOf :
        table.idOf[x] \in DOMAIN table.map /\ table.map[table.idOf[x]] = x

\* References are of this server process or of an earlier one; the next id is new
\* to all of this one's.
NextIsFresh ==
    \A r \in Known :
        r.gen <= generation /\ (r.gen = generation => r.id < table.next)

\* An object that was emitted was emitted under the id the inverse map has for it.
EmittedByTable ==
    \A r \in emitted :
        r.of \in Elements \cap DOMAIN table.idOf /\ r.id = table.idOf[r.of]

IInv ==
    /\ TypeOK /\ IdsResolve /\ NextIsFresh /\ EmittedByTable
    /\ OneObjectPerId /\ ReachesOwnObject /\ OneController
=============================================================================
