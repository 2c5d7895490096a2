----------------------------- MODULE MCRequests -----------------------------
(* Small instances of Requests for TLC. *)
EXTENDS Requests, TLC

PageObjects == Controllers \cup Webviews

\* No action tells one Controller from another, nor one src.
PageSymmetry == Permutations(Controllers) \cup Permutations(Sources)
=============================================================================
