-------------------------- MODULE CallbackRegistry --------------------------
(***************************************************************************)
(* The application's functions as callbacks.                               *)
(*                                                                         *)
(* The client gives each function it converts an id, kept on the function  *)
(* itself, and binds the id to the function (convert.cc:77-109).  The      *)
(* server makes a closure for the id it receives (hook-argument.ts:78-122) *)
(* and keeps the first one of each id for ever (callback.ts), so that the  *)
(* engine gets the same closure whenever the application passes the same   *)
(* function: removeListener and hasListener depend on it.  A closure that  *)
(* the engine calls emits its id; the client looks its function up.        *)
(*                                                                         *)
(* The listeners are the engine's: it keeps closures and compares them by  *)
(* identity.  A server outlives its clients: ids of a new client start at  *)
(* 1 again, and closures and listeners of earlier clients remain.          *)
(***************************************************************************)
EXTENDS Naturals, Sequences, FiniteSets

CONSTANTS
    Callbacks,    \* the application's functions, of all client processes
    ClientOf,     \* which client process, from 0, a function belongs to
    IdRange,      \* how many ids there are: callbackId is narrowed to an int
    MaxInFlight,  \* bound: messages under way in each direction
    MaxRequests,  \* bound: requests handled
    MaxRestarts   \* bound: how often each process restarts

ASSUME RegistryAssumption ==
    /\ MaxInFlight \in Nat /\ MaxRequests \in Nat /\ MaxRestarts \in Nat
    /\ IdRange \in Nat \ {0}
    /\ ClientOf \in [Callbacks -> 0 .. MaxRestarts]

VARIABLES
    process,      \* which client process runs
    callbackId,   \* the client's counter
    idOf,         \* the functions' __callbackId
    callback,     \* the client's map from ids to functions
    requests,     \* under way to the server: a function added or removed as listener
    generation,   \* history: which server process runs
    callbackMap,  \* the server's map from ids to closures
    listeners,    \* the engine's: closures, each with the function it was added for
    emissions,    \* under way to the client
    handled,      \* history: how many requests were handled, the name of the next closure
    wanted        \* history: functions whose last request in this server process added them

vars == <<process, callbackId, idOf, callback, requests, generation, callbackMap, listeners,
          emissions, handled, wanted>>

\* f with x mapped to y.
With(f, x, y) == [z \in DOMAIN f \cup {x} |-> IF z = x THEN y ELSE f[z]]

Current == {f \in Callbacks : ClientOf[f] = process}

Init ==
    /\ process = 0 /\ callbackId = 1
    /\ idOf = [f \in {} |-> 0] /\ callback = [id \in {} |-> 0]
    /\ requests = <<>> /\ emissions = {}
    /\ generation = 0 /\ callbackMap = [id \in {} |-> 0]
    /\ listeners = {}
    /\ handled = 0 /\ wanted = {}

-----------------------------------------------------------------------------
\* Mutant of IdFor: every conversion takes another id.
IdForEach(f) == callbackId % IdRange

\* Mutant of IdFor: the id is as wide as the counter.
IdForWide(f) == IF f \in DOMAIN idOf THEN idOf[f] ELSE callbackId

\* The id of a function: its own, or the next.
IdFor(f) == IF f \in DOMAIN idOf THEN idOf[f] ELSE callbackId % IdRange

\* Mutant of CounterAfter: the counter is not advanced.
CounterStuck(f) == callbackId

\* The counter after f was converted.
CounterAfter(f) == IF f \in DOMAIN idOf THEN callbackId ELSE callbackId + 1

\* The application passes f to addListener or removeListener.  The id is bound
\* before the request is sent.
Pass(op, f) ==
    LET id == IdFor(f) IN
    /\ f \in Current /\ Len(requests) < MaxInFlight
    /\ idOf' = With(idOf, f, id)
    /\ callbackId' = CounterAfter(f)
    /\ callback' = With(callback, id, f)
    /\ requests' = Append(requests, [op |-> op, id |-> id, of |-> f])
    /\ UNCHANGED <<process, generation, callbackMap, listeners, emissions, handled, wanted>>

\* Mutant of GetCallback: the closure made last replaces the one there is.
GetCallbackLatest(id, closure) == With(callbackMap, id, closure)

\* The map with a closure for the id: the first that was made.
GetCallback(id, closure) ==
    IF id \in DOMAIN callbackMap THEN callbackMap ELSE With(callbackMap, id, closure)

\* The server replaces the id of a request by the closure, and the engine adds it
\* to its listeners or removes it.
Handle ==
    /\ requests # <<>> /\ handled < MaxRequests
    /\ requests' = Tail(requests) /\ handled' = handled + 1
    /\ LET r == Head(requests) IN
         /\ callbackMap' = GetCallback(r.id, [id |-> r.id, name |-> handled])
         /\ \/ /\ r.op = "add"
               /\ listeners' = listeners \cup {[closure |-> callbackMap'[r.id], of |-> r.of]}
               /\ wanted' = wanted \cup {r.of}
            \/ /\ r.op = "remove"
               /\ listeners' = {l \in listeners : l.closure # callbackMap'[r.id]}
               /\ wanted' = wanted \ {r.of}
    /\ UNCHANGED <<process, callbackId, idOf, callback, generation, emissions>>

\* The engine calls a closure among its listeners.
Emit ==
    /\ Cardinality(emissions) < MaxInFlight
    /\ \E l \in listeners :
         emissions' = emissions \cup {[id |-> l.closure.id,
                                       of |-> {k.of : k \in {k \in listeners : k.closure = l.closure}}]}
    /\ UNCHANGED <<process, callbackId, idOf, callback, requests, generation, callbackMap,
                   listeners, handled, wanted>>

\* The client calls the function bound to the id, if there is one.
Run(e) ==
    /\ emissions' = emissions \ {e}
    /\ UNCHANGED <<process, callbackId, idOf, callback, requests, generation, callbackMap,
                   listeners, handled, wanted>>

-----------------------------------------------------------------------------
\* A new client process, with functions of its own.  What the server has read of
\* the old one's requests is still to be handled; emissions under way are lost.
ClientRestart ==
    /\ process < MaxRestarts
    /\ process' = process + 1
    /\ callbackId' = 1
    /\ idOf' = [f \in {} |-> 0] /\ callback' = [id \in {} |-> 0]
    /\ \E n \in 0 .. Len(requests) : requests' = SubSeq(requests, 1, n)
    /\ emissions' = {}
    /\ UNCHANGED <<generation, callbackMap, listeners, handled, wanted>>

\* A new server process: the engine has no listeners.  Requests are lost; of the
\* emissions, those remain that the client has read.
ServerRestart ==
    /\ generation < MaxRestarts
    /\ generation' = generation + 1
    /\ callbackMap' = [id \in {} |-> 0]
    /\ listeners' = {} /\ wanted' = {} /\ requests' = <<>>
    /\ emissions' \in SUBSET emissions
    /\ UNCHANGED <<process, callbackId, idOf, callback, handled>>

Next ==
    \/ \E op \in {"add", "remove"}, f \in Callbacks : Pass(op, f)
    \/ Handle
    \/ Emit
    \/ \E e \in emissions : Run(e)
    \/ ClientRestart
    \/ ServerRestart

Spec == Init /\ [][Next]_vars

-----------------------------------------------------------------------------
Ids == 0 .. IdRange - 1
Requests == [op : {"add", "remove"}, id : Ids, of : Callbacks]
Closures == [id : Ids, name : Nat]

\* Every variable has its type.
TypeOK ==
    /\ process \in 0 .. MaxRestarts /\ generation \in 0 .. MaxRestarts
    /\ callbackId \in Nat \ {0} /\ handled \in 0 .. MaxRequests
    /\ \A f \in DOMAIN idOf : f \in Current /\ idOf[f] \in Ids
    /\ \A id \in DOMAIN callback : id \in Ids /\ callback[id] \in Current
    /\ requests \in Seq(Requests)
    /\ \A id \in DOMAIN callbackMap : id \in Ids /\ callbackMap[id] \in Closures
    /\ listeners \subseteq [closure : Closures, of : Callbacks]
    /\ emissions \subseteq [id : Ids, of : SUBSET Callbacks]
    /\ wanted \subseteq Callbacks

\* No two functions of this client have the same id: an id recurs only after IdRange
\* functions (2^32 in the code).
IdsDistinct == callbackId <= IdRange + 1

Listening == {l.of : l \in listeners}

\* What the engine does with a function of the client that runs is what the
\* client asked for last: hasListener(f) is true after addListener(f) and false
\* after removeListener(f) (test/webview.test.ts:75-79), however often f was
\* converted meanwhile and whatever earlier clients left behind.
ListenersAsWanted == IdsDistinct => Listening \cap Current = wanted \cap Current

\* An emission of a listener that a function of this client is for calls such a
\* function.
OwnFunctionRuns ==
    \A e \in emissions : IdsDistinct /\ e.of \cap Current # {} =>
        e.id \in DOMAIN callback /\ callback[e.id] \in e.of

\* convert.cc:80, "bind the Function and the callbackId together": an emission
\* calls only a function that its listener was added for.
CallsBoundFunction ==
    \A e \in emissions : e.id \in DOMAIN callback => callback[e.id] \in e.of

-----------------------------------------------------------------------------
(***************************************************************************)
(* The inductive invariant behind the invariants above (proved in          *)
(* CallbackRegistry_proofs).  A listener of this client is found again     *)
(* because every place that knows a function of this client, the client's  *)
(* map, the requests, the listeners and the emissions, knows it by one id, *)
(* which is nobody else's; and nothing of an earlier client can remove it  *)
(* because that client's requests come first.                              *)
(***************************************************************************)
\* The ids given are those of the counter's past values, and the client's map
\* leads back to the function.
FunctionsBound ==
    \A f \in DOMAIN idOf :
        /\ \E k \in 1 .. callbackId - 1 : idOf[f] = k % IdRange
        /\ IdsDistinct => idOf[f] \in DOMAIN callback /\ callback[idOf[f]] = f

\* f is a function of an earlier client or is known by id.
KnownBy(f, id) ==
    /\ ClientOf[f] <= process
    /\ f \in Current => f \in DOMAIN idOf /\ id = idOf[f]

\* What is on the server, or under way, knows functions by their ids.
ServerKnows ==
    /\ \A i \in DOMAIN requests : KnownBy(requests[i].of, requests[i].id)
    /\ \A l \in listeners : KnownBy(l.of, l.closure.id)
    /\ \A e \in emissions : \A f \in e.of : KnownBy(f, e.id)
    /\ \A f \in wanted : ClientOf[f] <= process

\* There is one closure for an id.
OneClosure ==
    /\ \A id \in DOMAIN callbackMap : callbackMap[id].id = id
    /\ \A l \in listeners :
         l.closure.id \in DOMAIN callbackMap /\ l.closure = callbackMap[l.closure.id]

\* Requests of earlier clients come before this one's.
OldestFirst ==
    /\ \A i, j \in DOMAIN requests :
         i < j /\ requests[i].of \in Current => requests[j].of \in Current
    /\ Listening \cap Current # {} => \A i \in DOMAIN requests : requests[i].of \in Current

IInv ==
    /\ TypeOK /\ FunctionsBound /\ ServerKnows /\ OneClosure /\ OldestFirst
    /\ ListenersAsWanted
=============================================================================
