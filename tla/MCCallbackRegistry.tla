------------------------- MODULE MCCallbackRegistry -------------------------
(* Small instances of CallbackRegistry for TLC. *)
EXTENDS CallbackRegistry, TLC

CONSTANTS f1, f2, f3, g1, g2

\* f1, f2 and f3 are the first client's functions, g1 and g2 the second's.
FirstAndSecond == f1 :> 0 @@ f2 :> 0 @@ f3 :> 0 @@ g1 :> 1 @@ g2 :> 1

\* A client does not tell its functions apart.
FunctionSymmetry == Permutations({f1, f2, f3}) \cup Permutations({g1, g2})
=============================================================================
