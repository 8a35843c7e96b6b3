---------------------------- MODULE MCRetention -----------------------------
(* Small instances of Retention. *)
EXTENDS Retention, TLC
=============================================================================
