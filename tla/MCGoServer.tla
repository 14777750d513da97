----------------------------- MODULE MCGoServer -----------------------------
(* Small instances of GoServer. *)
EXTENDS GoServer

=============================================================================
