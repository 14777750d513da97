----------------------------- MODULE MCGoReader -----------------------------
(* A small instance of GoReader: a stream parameter whose elements carry data. *)
EXTENDS GoReader

StreamDeclared == {<<Wild>>}
StreamWire == {<<0>>, <<1>>, <<0, 0>>}
StreamApp == {<<0>>, <<1>>}
=============================================================================
