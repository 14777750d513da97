------------------------------ MODULE MCSplit ------------------------------
(* Small instances of Split. *)
EXTENDS Split
=============================================================================
