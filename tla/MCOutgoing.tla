----------------------------- MODULE MCOutgoing -----------------------------
(* Small instances of Outgoing. *)
EXTENDS Outgoing

\* The root and a path within it.
Paths == {<<>>, <<0>>}
=============================================================================
