--------------------------- MODULE MCRemoteObjects ---------------------------
(* Small instances of RemoteObjects for TLC. *)
EXTENDS RemoteObjects, TLC

\* No action tells one Controller, or one engine object, from another.
ObjectSymmetry == Permutations(Controllers) \cup Permutations(Elements)
=============================================================================
