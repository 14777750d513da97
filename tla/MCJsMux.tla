------------------------------ MODULE MCJsMux -------------------------------
(* Small instances of JsMux. *)
EXTENDS JsMux

\* A stream of streams of streams: its elements, and one path that is too long.
DeepPath == {<<>>, <<0>>, <<0, 0>>, <<0, 1>>, <<0, 0, 0>>, <<0, 0, 0, 0>>}
=============================================================================
