--------------------------- MODULE MCInstanceTable ---------------------------
(***************************************************************************)
(* InstanceTable for TLC, and with every table it reaches the conversions  *)
(* of trees of leaves two levels deep.                                     *)
(***************************************************************************)
EXTENDS Conversions

\* An object with s for its fields, whose names are ns.
Obj(ns, s) == Object([n \in {ns[i] : i \in DOMAIN ns} |-> s[CHOOSE i \in DOMAIN ns : ns[i] = n]])

Pairs(S)     == {<<x, y>> : x, y \in S}
ArraysOf(S)  == {Array(s) : s \in {<<>>} \cup {<<x>> : x \in S} \cup Pairs(S)}
ObjectsOf(S) == {Obj(<<"j", "k">>, s) : s \in Pairs(S)}
Wrapped(S)   == {Array(<<x>>) : x \in S} \cup {Obj(<<"k">>, <<x>>) : x \in S}
Nested(S)    == S \cup ArraysOf(S) \cup ObjectsOf(S) \cup Wrapped(ArraysOf(S) \cup ObjectsOf(S))

Objs == Instances \ Primitives

\* Proxies of the ids up to 2 and one that no table has.
SomeLeaves ==
    {Undefined, Number(7), Callback(1), Bytes(<<>>), Bytes(<<Number(1)>>)}
        \cup {Proxy(id) : id \in {1, 2, MaxId + 1}}
MCArguments ==
    Nested(SomeLeaves) \cup {Obj(<<"", "k">>, s) : s \in Pairs(SomeLeaves)}
        \cup {Obj(<<"">>, <<x>>) : x \in SomeLeaves}

\* hookResult looks into arrays for instances only, and not deeper.
ElementLeaves == {Undefined, Null, Number(7)} \cup {Instance(x) : x \in Objs}
FieldLeaves   == (ElementLeaves \cup {Function("g")}) \ {Undefined, Null}
MCResults ==
    FieldLeaves \cup {Undefined} \cup ArraysOf(ElementLeaves) \cup ObjectsOf(FieldLeaves)
        \cup {Obj(<<"k">>, <<v>>) : v \in ArraysOf(ElementLeaves) \cup ObjectsOf(FieldLeaves)}

MCEmissions == {Array(<<v>>) : v \in Nested({Null, Number(7)} \cup {Instance(x) : x \in Objs})}
=============================================================================
