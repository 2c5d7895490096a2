----------------------------- MODULE Conversions -----------------------------
(***************************************************************************)
(* The conversions of Values with every table that InstanceTable reaches.  *)
(***************************************************************************)
EXTENDS InstanceTable, Values

CONSTANTS
    Arguments,  \* of calls
    Results,    \* of calls
    Emissions   \* the arguments of callbacks

ASSUME ConversionsAssumption ==
    /\ Arguments \subseteq ArgumentTrees[MaxDepth]
    /\ Results \subseteq ResultTrees[MaxDepth] \cup {Undefined}
    /\ Emissions \subseteq EmissionTrees[MaxDepth]

\* The instances in v.
Mentioned(v) == {node[2].of : node \in {node \in Nodes[v] : node[2].kind = "instance"}}

-----------------------------------------------------------------------------
\* Whatever has been registered and removed, the arguments of a call reach the
\* engine as what they are, or the call fails (convert.cc, hookArgumentItem).
ArgumentsArrive == \A v \in Arguments : ArgumentArrives(table, v)

\* Results reach the application as what they are, each object under an id that
\* the table has for it by then (hookResult, convert.cc).
ResultsArrive == \A v \in Results : ResultArrives(table, v)

\* So do the arguments of callbacks, objects at any depth, registered before or not
\* (hookCallbackArgument, convert.cc); only instances that clearInstance has dropped
\* keep ids that reach nothing.
EmissionsArrive ==
    \A v \in Emissions : Mentioned(v) \cap cleared = {} => EmissionArrives(table, v)
=============================================================================
