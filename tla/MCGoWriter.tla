----------------------------- MODULE MCGoWriter -----------------------------
(* Small instances of GoWriter. *)
EXTENDS GoWriter
=============================================================================
