------------------------------ MODULE Delivery ------------------------------
(***************************************************************************)
(* What one direction of a connection promises its users, whatever the     *)
(* transport does: every path is a stream of its own.  Its reader receives *)
(* nothing that was not sent, and reads an end of the stream only after    *)
(* everything that was sent, and only if the writer closed the path or     *)
(* nobody is left to write; otherwise it reads an error, or nothing more.  *)
(***************************************************************************)
EXTENDS Naturals

CONSTANTS
    Path,   \* the paths
    Size    \* the chunks that can be written at once

VARIABLES
    sent,       \* chunks the writers of a path were told are sent
    closed,     \* paths that were closed
    quit,       \* whether all writers are dropped
    got,        \* chunks the reader of a path received
    outcome     \* what the reader of a path found in the end

vars == <<sent, closed, quit, got, outcome>>

Init ==
    /\ sent = [p \in Path |-> 0] /\ closed = {} /\ quit = FALSE
    /\ got = [p \in Path |-> 0] /\ outcome = [p \in Path |-> "none"]

Send(p) ==
    /\ p \notin closed /\ ~quit
    /\ \E n \in Size : sent' = [sent EXCEPT ![p] = @ + n]
    /\ UNCHANGED <<closed, quit, got, outcome>>

Close(p) ==
    /\ p \notin closed /\ ~quit
    /\ closed' = closed \cup {p}
    /\ UNCHANGED <<sent, quit, got, outcome>>

Quit ==
    /\ ~quit /\ quit' = TRUE
    /\ UNCHANGED <<sent, closed, got, outcome>>

Receive(p) ==
    /\ outcome[p] = "none" /\ got[p] < sent[p]
    /\ got' = [got EXCEPT ![p] = @ + 1]
    /\ UNCHANGED <<sent, closed, quit, outcome>>

End(p) ==
    /\ outcome[p] = "none" /\ got[p] = sent[p] /\ (p \in closed \/ quit)
    /\ outcome' = [outcome EXCEPT ![p] = "end"]
    /\ UNCHANGED <<sent, closed, quit, got>>

Fail(p) ==
    /\ outcome[p] = "none"
    /\ outcome' = [outcome EXCEPT ![p] = "error"]
    /\ UNCHANGED <<sent, closed, quit, got>>

Next == Quit \/ \E p \in Path : Send(p) \/ Close(p) \/ Receive(p) \/ End(p) \/ Fail(p)

Spec == Init /\ [][Next]_vars
=============================================================================
