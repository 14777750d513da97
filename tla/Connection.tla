----------------------------- MODULE Connection -----------------------------
(***************************************************************************)
(* One direction of a connection: the Outgoing handles of one peer, its    *)
(* egress task, the byte stream, and ingress and the Incoming handles of   *)
(* the other peer.  The peer of Incoming is not arbitrary here: what       *)
(* ingress reads is what egress wrote, in order, and the byte stream ends  *)
(* as egress ended it.                                                     *)
(*                                                                         *)
(* The writers respect the protocol as the encoders do: they write to      *)
(* declared paths, and not to a path they closed.                          *)
(***************************************************************************)
EXTENDS Incoming, Outgoing

\* Both peers come from the same declaration: what the writers index is
\* declared to the receiver (`invoke` and `serve` of one world).
ASSUME ConnAssumption ==
    /\ OutPath \subseteq WirePath /\ OutPath \subseteq Node
    /\ \A p \in OutPath : IsDeclared[p]

VARIABLES
    shut,       \* history: paths the writers closed
    got,        \* history: chunks of a path its reader read to their end
    outcome     \* history: what the reader of a path found in the end

connVars == <<shut, got, outcome>>
allVars == <<vars, outVars, connVars>>

ConnInit ==
    /\ Init /\ OutInit
    /\ shut = {} /\ got = [p \in OutPath |-> 0] /\ outcome = [p \in OutPath |-> "none"]

\* The sending side, with the discipline of its users.  A clone, which only
\* shares the path of its original, is left to Outgoing.
SenderStep ==
    /\ \/ \E w \in Writer :
            \/ \E v \in Writer, path \in OutPath \ {writer[w].path} : OutIndex(w, v, path)
            \/ OutDrop(w)
       \/ EgressStep
       \/ EgressFail
    /\ UNCHANGED <<vars, connVars>>

\* A poll of `write_bytes`, `poll_write` or `close` that finds a free slot
\* (Outgoing takes it apart into its steps; one that finds none, or fails,
\* changes nothing here).
Write(w, n) ==
    LET path == writer[w].path
    IN  /\ writer[w].st = "live" /\ path \notin shut
        /\ inbox = "open" /\ QueueHasRoom
        /\ SendReserved(path, n)
        /\ shut' = IF n = 0 THEN shut \cup {path} ELSE shut
        /\ UNCHANGED <<writer, egressVars, wireVars, vars, got, outcome>>

\* The receiving side.
ReceiverStep ==
    /\ (\E h \in Handle : HandleStep(h)) \/ IngressStep \/ Abort
    /\ got' = [p \in OutPath |-> IF unread'[p] < unread[p] THEN got[p] + 1 ELSE got[p]]
    /\ outcome' = [p \in OutPath |->
                    IF \E h \in Handle : handle[h].path = p /\ ReadEof(h) THEN "end"
                    ELSE IF \E h \in Handle : handle[h].path = p /\ ReadError(h) THEN "error"
                    ELSE outcome[p]]
    /\ UNCHANGED <<outVars, shut>>

\* Ingress reads what egress wrote, whenever the transport passes it on.
ReadWire(kind) ==
    /\ wire # <<>> /\ Head(wire).kind = kind
    /\ wire' = Tail(wire)
    /\ hidden' = IF hidden = Len(wire) THEN hidden - 1 ELSE hidden
    /\ UNCHANGED <<handleVars, egressVars, end, written, connVars>>

ReadFrame ==
    /\ ReadWire("header")
    /\ IngressFrame(Head(wire).path, Head(wire).size)
ReadData ==
    /\ ReadWire("chunk")
    /\ IngressData

\* The byte stream ended, which is an error within a frame, or was aborted,
\* which may overtake what was written.
ReadFin ==
    /\ end = "fin" /\ wire = <<>>
    /\ IngressEnd
    /\ UNCHANGED <<outVars, connVars>>
ReadAbort ==
    /\ end # "open" /\ (end = "fin" => wire = <<>> /\ io.pc = "data")
    /\ IngressBroken
    /\ UNCHANGED <<outVars, connVars>>

ConnNext ==
    \/ SenderStep
    \/ \E w \in Writer, n \in 0..MaxFrameChunks : Write(w, n)
    \/ ReceiverStep
    \/ ReadFrame
    \/ ReadData
    \/ ReadFin
    \/ ReadAbort

ConnSpec == ConnInit /\ [][ConnNext]_allVars

-----------------------------------------------------------------------------
(* Properties                                                              *)

Promise == INSTANCE Delivery
    WITH Path <- OutPath, Size <- 1..MaxFrameChunks, closed <- shut, quit <- (Live = {})

\* The connection keeps the promise of Delivery: a reader receives what was
\* sent, and takes neither an abandoned byte stream nor a failed peer for the
\* end of its path, however the steps of both peers interleave.
Delivered == Promise!Spec

\* `finished` of the receiving peer reports success only if everything sent
\* was read, but for data that raced with the drop of its handle or arrived
\* after the last one.
OkMeansDelivered == done = "ok" /\ raced = {} /\ drained = {} => got = sent

\* Ingress never blames the peer: writers that respect the protocol are not
\* refused, whatever the receiving application indexes, skips or drops.
NoBlame == io.res # "protocol" /\ err # "protocol"
=============================================================================
