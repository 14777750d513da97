----------------------------- MODULE MCIncoming -----------------------------
(* Small instances of Incoming. *)
EXTENDS Incoming

\* list<tuple<future, future>>: elements [*] that carry no data themselves.
PairDeclared == {<<Wild, 0>>, <<Wild, 1>>}
PairWire == {<<0>>, <<0, 0>>, <<0, 1>>}
PairApp == {<<0>>, <<0, 0>>, <<1>>}

\* stream<stream<T>>: elements with data, and elements nested in them.
NestedDeclared == {<<Wild>>, <<Wild, Wild>>}
NestedWire == {<<0>>, <<1>>, <<0, 0>>, <<0, 0, 0>>}
NestedApp == {<<1>>, <<0, 0>>}
=============================================================================
