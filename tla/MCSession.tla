----------------------------- MODULE MCSession -----------------------------
(***************************************************************************)
(* Session for TLC: every bound is a constant that the configuration sets. *)
(*                                                                         *)
(* Four connections let a client fail both attempts of a handshake, leave  *)
(* the connection of the last one behind and still be served afterwards;   *)
(* three calls let one time out, the next fail because the connection has  *)
(* ended, and a third be made on a new connection while the answer of the  *)
(* first is still to be read from the old one.                             *)
(***************************************************************************)
EXTENDS Session
=============================================================================
