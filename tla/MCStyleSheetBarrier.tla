------------------------- MODULE MCStyleSheetBarrier -------------------------
(* Small instances of StyleSheetBarrier for TLC. *)
EXTENDS StyleSheetBarrier
=============================================================================
