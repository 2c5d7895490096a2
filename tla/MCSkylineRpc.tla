---------------------------- MODULE MCSkylineRpc ----------------------------
(* Small instances of SkylineRpc for TLC. *)
EXTENDS SkylineRpc, TLC

\* No action tells one known function from another.
FunctionSymmetry == Permutations(Bound)
=============================================================================
