--------------------------- MODULE MCGuestChannels ---------------------------
(* A list whose elements hold one asynchronous value each, and a guest that *)
(* asks for four channels; pending channels are pruned from the second on.  *)
EXTENDS GuestChannels

MCDeclared == {<<Wild, 0>>}
=============================================================================
