---------------------------- MODULE MCConnection ----------------------------
(* Small instances of Connection. *)
EXTENDS Connection

\* A stream parameter: the root, and its first element.
StreamDeclared == {<<Wild>>}
StreamPath == {<<>>, <<0>>}
StreamApp == {<<0>>}
=============================================================================
