------------------------------- MODULE Values -------------------------------
(***************************************************************************)
(* Values on their way between the application and the engine, and the     *)
(* arguments of calls: convert.cc makes JSON of them, hook-argument.ts     *)
(* (hookArgumentItem) puts instances and closures in for ids.              *)
(*                                                                         *)
(* A value is a tree.  Its kind says what it is and, in JSON, what it is   *)
(* written as; what a number, string or boolean says is never looked at,   *)
(* but for the ids.  The items of an array are a sequence; an object has   *)
(* an item for each name there is, Absent unless it has such a field.  The *)
(* conversions are functions on all trees of a bounded depth.              *)
(***************************************************************************)
EXTENDS InstanceManage, FiniteSets, Sequences

Seqs == INSTANCE SequencesExt

CONSTANTS
    Names,    \* of the fields of the application's and the engine's objects
    MaxDepth  \* bound: how deep their values are

\* Names of fields that make an object stand for something.
Reserved == {"instanceId", "instanceType", "callbackId"}
AllNames == Names \cup Reserved \cup {""}

ASSUME ValuesAssumption == Names \cap Reserved = {} /\ IsFiniteSet(Names) /\ MaxDepth \in Nat

Undefined      == [kind |-> "undefined"]
Null           == [kind |-> "null"]
Number(n)      == [kind |-> "number", number |-> n]
String(s)      == [kind |-> "string", string |-> s]
Array(items)   == [kind |-> "array", items |-> items]
Absent         == [kind |-> "absent"]
\* An object with those fields.
Object(fields) ==
    [kind |-> "object", items |-> [n \in AllNames |-> IF n \in DOMAIN fields THEN fields[n] ELSE Absent]]

\* Of the application: bytes (Buffer or ArrayBuffer), proxies, and functions with
\* the id they have.
Bytes(items)   == [kind |-> "bytes", items |-> items]
Proxy(id)      == [kind |-> "proxy", id |-> id]
Callback(id)   == [kind |-> "callback", id |-> id]
\* Of the engine: registered or registrable objects, functions, and the closures
\* made of callback ids.
Instance(x)    == [kind |-> "instance", of |-> x]
Function(f)    == [kind |-> "function", of |-> f]
Closure(id)    == [kind |-> "closure", id |-> id]
\* What the application gets for a function of the engine.
RemoteFunction(id) == [kind |-> "remote", id |-> id]

Thrown == [kind |-> "thrown"]

HasItems(v)  == v.kind \in {"array", "object"}
Has(v, name) == v.kind = "object" /\ v.items[name] # Absent

\* Where v has items, and v with each of them by f.
Parts(v)  == IF HasItems(v) \/ v.kind = "bytes" THEN {k \in DOMAIN v.items : v.items[k] # Absent} ELSE {}
Map(f, v) == [v EXCEPT !.items = [k \in DOMAIN @ |-> IF @[k] = Absent THEN Absent ELSE f[@[k]]]]

-----------------------------------------------------------------------------
Arrays(S)           == [kind : {"array"}, items : Seq(S)]
\* The objects that have some of S under names, but none under those they lack.
Objects(S, lacking) ==
    [kind : {"object"}, items : {fields \in [AllNames -> S \cup [kind : {"absent"}]] :
                                   \A name \in lacking : fields[name] = Absent}]

\* Trees of no more than n levels above the leaves.
TreesOf(leaves, lacking) ==
    LET T[n \in Nat] == IF n = 0 THEN leaves ELSE leaves \cup Arrays(T[n - 1]) \cup Objects(T[n - 1], lacking)
    IN T

NumberSet   == [kind : {"number"}, number : Nat]
PlainLeaves == [kind : {"null"}] \cup NumberSet \cup [kind : {"string"}, string : STRING]
InstanceSet == [kind : {"instance"}, of : Instances]

\* The types that references have.
TypeSet == [kind : {"string"}, string : {"instance", "function"}]

\* What the application may have in its arguments.
ArgumentLeaves ==
    PlainLeaves \cup [kind : {"undefined"}] \cup [kind : {"bytes"}, items : Seq(NumberSet)]
        \cup [kind : {"proxy", "callback"}, id : Nat]

\* All leaves there are.
Leaves ==
    ArgumentLeaves \cup TypeSet \cup InstanceSet \cup [kind : {"thrown"}]
        \cup [kind : {"function"}, of : STRING] \cup [kind : {"closure", "remote"}, id : Nat]

\* All values there are, and the arguments of calls; what a leaf becomes may be an
\* object, hence one level more.
Trees         == TreesOf(Leaves, {})
Tree          == Trees[MaxDepth + 1]
ArgumentTrees == TreesOf(ArgumentLeaves, Reserved)

\* The arguments of callbacks, and results: objects of objects, and arrays that have
\* instances as elements, but not deeper.
EmissionTrees == TreesOf(PlainLeaves \cup InstanceSet, Reserved)
PlainTrees    == TreesOf(PlainLeaves, Reserved)
ResultLeaves  == (PlainLeaves \ [kind : {"null"}]) \cup InstanceSet \cup [kind : {"function"}, of : STRING]
ResultTrees   ==
    LET T[n \in Nat] ==
          IF n = 0 THEN ResultLeaves
          ELSE ResultLeaves \cup Objects(T[n - 1], Reserved)
                 \cup Arrays(PlainTrees[n - 1] \cup InstanceSet \cup [kind : {"undefined"}])
    IN T

-----------------------------------------------------------------------------
\* What convertValue2Json makes of a value without items: bytes are written as an
\* array, no bytes as null.
LeafToJson(v) ==
    CASE v.kind = "undefined" -> Null
      [] v.kind = "bytes"     -> IF v.items = <<>> THEN Null ELSE Array(v.items)
      [] v.kind = "proxy"     -> Object([instanceId |-> Number(v.id)])
      [] v.kind = "callback"  -> Object([callbackId |-> Number(v.id)])
      [] OTHER                -> v

\* A field without a name is left out.
Written(v) == IF v.kind = "object" THEN [v EXCEPT !.items[""] = Absent] ELSE v

\* convertValue2Json.
ToJson[v \in Tree] == IF HasItems(v) THEN Map(ToJson, Written(v)) ELSE LeafToJson(v)

\* Mutant of HookObject: an id that is not in the table is passed on.
HookObjectUnchecked(t, j) ==
    IF Has(j, "instanceId")
      THEN LET id == j.items["instanceId"].number
           IN IF id \in DOMAIN t.map THEN Instance(t.map[id]) ELSE j
      ELSE Closure(j.items["callbackId"].number)

\* An object that stands for an instance or a callback.  The code looks at what the
\* table has, not whether it has something: a registered 0, "" or false would throw like
\* a gone instance.  Only objects are registered by results and callback arguments, so
\* that Instances is taken to have none of these.
HookObject(t, j) ==
    IF Has(j, "instanceId")
      THEN LET id == j.items["instanceId"].number
           IN IF id \in DOMAIN t.map THEN Instance(t.map[id]) ELSE Thrown
      ELSE Closure(j.items["callbackId"].number)

\* hookArgumentItem.  What throws below makes the whole throw.
HookArgument(t) ==
    LET hook[j \in Tree] ==
          IF Has(j, "instanceId") \/ Has(j, "callbackId") THEN HookObject(t, j)
          ELSE IF ~ HasItems(j) THEN j
          ELSE IF \E k \in Parts(j) : hook[j.items[k]] = Thrown THEN Thrown
          ELSE Map(hook, j)
    IN hook

-----------------------------------------------------------------------------
(* What registers objects works on a registry s: the instances it has      *)
(* registered with table t so far, and the functions.  It gives the value  *)
(* with the registry after it.                                             *)

Registries == [registered : Seq(Instances), functions : Seq(STRING)]
Nothing    == [registered |-> <<>>, functions |-> <<>>]

\* The table when xs have been registered.
After(t, xs) ==
    LET table[n \in 0 .. Len(xs)] == IF n = 0 THEN t ELSE SetInstance(table[n - 1], xs[n])
    IN table[Len(xs)]

Hooked(v, s)        == [value |-> v, to |-> s]
Register(s, x)      == [s EXCEPT !.registered = Append(@, x)]
Reference(id, type) == Object([instanceId |-> Number(id), instanceType |-> String(type)])

\* Where the items of v are: an array's from the first to the last, an object's in
\* some order.
Order(v) == IF v.kind = "array" THEN [i \in DOMAIN v.items |-> i] ELSE Seqs!SetToSeq(Parts(v))

\* Each item of v by f, in that order.
HookItems(f, v, s) ==
    LET done[n \in 0 .. Len(Order(v))] ==
          IF n = 0 THEN Hooked(v, s)
          ELSE LET k == Order(v)[n]
                   h == f[<<v.items[k], done[n - 1].to>>]
               IN Hooked([done[n - 1].value EXCEPT !.items[k] = h.value], h.to)
    IN done[Len(Order(v))]

\* A result that is an object, and an element of a result that is an array.
RegisterResult(t, v, s) ==
    IF v.kind = "instance"
      THEN Hooked(Reference(After(t, s.registered).next, "instance"), Register(s, v.of))
      ELSE Hooked(v, s)

\* A function gets the next number of functionData.
RegisterFunction(v, s) ==
    Hooked(Reference(Len(s.functions) + 1, "function"), [s EXCEPT !.functions = Append(@, v.of)])

\* hookResult: an array's elements are looked at, and not what is in them; null
\* counts as an object without fields.
HookResult(t) ==
    LET hook[p \in Tree \X Registries] ==
          IF p[1].kind = "function" THEN RegisterFunction(p[1], p[2])
          ELSE IF p[1].kind = "array"
            THEN HookItems([q \in Tree \X Registries |-> RegisterResult(t, q[1], q[2])], p[1], p[2])
          ELSE IF p[1].kind = "object" THEN HookItems(hook, p[1], p[2])
          ELSE IF p[1].kind = "null" THEN Hooked(Object(<<>>), p[2])
          ELSE RegisterResult(t, p[1], p[2])
    IN hook

\* Mutant of EmissionId: the id the counter gives, whether or not it was needed.
EmissionIdNext(t, x) == t.next

\* The id an instance has, or gets.
EmissionId(t, x) == IF GetInstanceId(t, x) # 0 THEN GetInstanceId(t, x) ELSE t.next

\* An instance in the arguments of a callback is registered if it has no id.
RegisterEmission(t, v, s) ==
    LET now == After(t, s.registered)
    IN IF v.kind # "instance" THEN Hooked(v, s)
       ELSE Hooked(Reference(EmissionId(now, v.of), "instance"),
                   IF GetInstanceId(now, v.of) # 0 THEN s ELSE Register(s, v.of))

\* hookCallbackArgument.
HookCallbackArgument(t) ==
    LET hook[p \in Tree \X Registries] ==
          IF HasItems(p[1]) THEN HookItems(hook, p[1], p[2]) ELSE RegisterEmission(t, p[1], p[2])
    IN hook

\* JSON.stringify: there is no undefined and there are no functions; an object of
\* the engine is whatever fields it has, none of which we know.
NotJson(v) == v.kind \in {"undefined", "function", "closure"}

Stringified(v) ==
    IF v.kind = "object"
      THEN [v EXCEPT !.items = [n \in DOMAIN @ |-> IF NotJson(@[n]) THEN Absent ELSE @[n]]]
      ELSE v

Stringify[v \in Tree] ==
    IF NotJson(v) THEN Null
    ELSE IF v.kind = "instance" THEN Object(<<>>)
    ELSE IF HasItems(v) THEN Map(Stringify, Stringified(v))
    ELSE v

\* Mutant of FromReference: functions are not told from objects.
FromReferenceObjects(j) == Proxy(j.items["instanceId"].number)

\* A reference: a function that calls functionData by its id, or a proxy.  The types of
\* instances are one type here, of the classes whose proxies the client can make from an
\* id: for a type it does not know it would give undefined, and for a Controller, whose
\* constructor takes no id, an error.
FromReference(j) ==
    IF j.items["instanceType"] = String("function")
      THEN RemoteFunction(j.items["instanceId"].number)
      ELSE Proxy(j.items["instanceId"].number)

\* convertJson2Value.
ToValue[j \in Tree] ==
    IF j.kind = "null" THEN Undefined
    ELSE IF Has(j, "instanceId") /\ Has(j, "instanceType") THEN FromReference(j)
    ELSE IF HasItems(j) THEN Map(ToValue, j)
    ELSE j

-----------------------------------------------------------------------------
(* What arrives, told without the conversions: the nodes of a value, each  *)
(* with the path that leads to it.                                         *)

Shape(v)   == IF HasItems(v) \/ Parts(v) # {} THEN [kind |-> v.kind] ELSE v
Step(v, k) == IF v.kind = "object" THEN [field |-> k] ELSE [index |-> k]

Nodes[v \in Tree] ==
    {<< <<>>, Shape(v) >>} \cup
      UNION {{<< <<Step(v, k)>> \o node[1], node[2] >> : node \in Nodes[v.items[k]]} : k \in Parts(v)}

\* The nodes of an argument that arrive: fields without a name are lost.
Arriving(v) == {node \in Nodes[v] : [field |-> ""] \notin Range(node[1])}

\* What x, as the application has it, is to the engine: each proxy is the instance
\* it stands for, each function the closure of its id, and bytes are an array.
Meaning(t, x) ==
    CASE x.kind = "proxy"     -> Instance(t.map[x.id])
      [] x.kind = "callback"  -> Closure(x.id)
      [] x.kind = "undefined" -> Null
      [] x.kind = "bytes"     -> IF x = Bytes(<<>>) THEN Null ELSE [kind |-> "array"]
      [] OTHER                -> x

\* An argument of a call arrives whole, whatever its depth; one proxy whose object
\* is gone, anywhere, fails the call.
ArgumentArrives(t, v) ==
    LET hooked == HookArgument(t)[ToJson[v]]
    IN IF \E node \in Arriving(v) : node[2].kind = "proxy" /\ node[2].id \notin DOMAIN t.map
         THEN hooked = Thrown
         ELSE Nodes[hooked] = {<<node[1], Meaning(t, node[2])>> : node \in Arriving(v)}

\* What a remote function asks for when it is called: callStaticSync of "functionData".
StaticRequest(id) == [clazz |-> "functionData", action |-> id]

\* The classes whose members may be called so, and the members of each.
ClazzMap(s) == [functionData |-> s.functions]

\* The function that a static request calls, or Thrown.
StaticTarget(s, req) ==
    LET members == ClazzMap(s)[req.clazz]
    IN IF req.action \in DOMAIN members THEN Function(members[req.action]) ELSE Thrown

\* What the application's value x stands for on the server.
StandsFor(t, s, x) ==
    CASE x.kind = "proxy" /\ x.id \in DOMAIN After(t, s.registered).map -> Instance(After(t, s.registered).map[x.id])
      [] x.kind = "remote" -> StaticTarget(s, StaticRequest(x.id))
      [] OTHER -> x

\* What the application has of v, and what it stands for when the registry is s.
Resolved(t, s, v) == {<<node[1], StandsFor(t, s, node[2])>> : node \in Nodes[ToValue[Stringify[v]]]}

\* v with undefined for null: the application cannot tell.
WithoutNull(v) == {<<node[1], IF node[2] = Null THEN Undefined ELSE node[2]>> : node \in Nodes[v]}

\* A result arrives whole: every instance, at the top, in an array or in fields of
\* fields, as a proxy that stands for it, every function that is the result or in such a
\* field as one that reaches it.
ResultArrives(t, v) ==
    LET h == HookResult(t)[<<v, Nothing>>] IN Resolved(t, h.to, h.value) = WithoutNull(v)

\* The arguments of a callback arrive whole, instances at any depth.
EmissionArrives(t, v) ==
    LET h == HookCallbackArgument(t)[<<v, Nothing>>] IN Resolved(t, h.to, h.value) = WithoutNull(v)
=============================================================================
