---------------------------- MODULE MCInvocation ----------------------------
(* Every client with a stub, hosts that call each other, and Go on either side. *)
EXTENDS Invocation

MCKinds ==
    [client : {"typed", "blocking", "guest", "go"}, server : {"stub"}, timeout : {FALSE}]
    \cup [client : {"host"}, server : {"store"}, timeout : {TRUE}]
    \cup [client : {"host", "typed"}, server : {"shared"}, timeout : {FALSE}]
    \cup [client : {"typed", "go"}, server : {"go"}, timeout : {FALSE}]
=============================================================================
