------------------------------ MODULE Outgoing ------------------------------
(***************************************************************************)
(* The sending half of a wRPC frame connection                             *)
(* (crates/transport/src/frame/conn/mod.rs): `Outgoing` handles, the       *)
(* bounded queue they share, the egress task that writes its frames to the *)
(* byte stream, and the write half of a socket (frame/split.rs) that tells *)
(* the peer whether the stream was ended or abandoned.                     *)
(*                                                                         *)
(* A frame is its path and the number of chunks the peer will read it in;  *)
(* a frame of no chunks closes its path.  On the wire it is a header and   *)
(* its chunks, and a write may fail after any of them.                     *)
(***************************************************************************)
EXTENDS Integers, Sequences, FiniteSets

CONSTANTS
    Writer,     \* identities of `Outgoing` handles alive at one time
    Origin,     \* the root handle returned by `Outgoing::new`
    OutPath,    \* the paths written to
    MaxQueue,   \* capacity of the queue: 128
    MaxWire,    \* what the transport takes before the peer reads
    MaxSize,    \* bound: chunks of one frame
    MaxSent     \* bound: frames sent

ASSUME WriterAssumption == IsFiniteSet(Writer) /\ Origin \in Writer

ASSUME OutBoundAssumption ==
    /\ <<>> \in OutPath
    /\ MaxQueue \in Nat \ {0} /\ MaxWire \in Nat \ {0}
    /\ MaxSize \in Nat /\ MaxSent \in Nat

VARIABLES
    writer,     \* the `Outgoing` handles
    queue,      \* frames sent and not taken by egress
    inbox,      \* "open" or "dropped": the receiver of the queue
    egress,     \* the egress task: [pc, path, size, left]
    result,     \* the `done` watch
    wire,       \* what was written and not read by the peer
    hidden,     \* how much of it the transport may still hold back
    end,        \* the end of the byte stream: "open", "fin" or "reset"
    sent,       \* history: chunks per path accepted into the queue
    written,    \* history: chunks per path written
    count       \* frames sent, bounded by MaxSent

handleVars == <<writer, queue, sent, count>>
egressVars == <<inbox, egress, result>>
wireVars == <<wire, hidden, end, written>>
outVars == <<handleVars, egressVars, wireVars>>

NoWriter == [st |-> "free", path |-> <<>>, error |-> "none"]
Waiting == [pc |-> "recv", path |-> <<>>, size |-> 0, left |-> 0]

\* A frame `write_all_buf` has yet to write: the header and the chunks.
Writing(frame) == [pc |-> "write", path |-> frame.path, size |-> frame.size, left |-> frame.size + 1]

Live == {w \in Writer : writer[w].st # "free"}
Reserved == {w \in Writer : writer[w].st = "reserved"}

OutInit ==
    /\ writer = [w \in Writer |-> IF w = Origin THEN [NoWriter EXCEPT !.st = "live"] ELSE NoWriter]
    /\ queue = <<>> /\ inbox = "open" /\ egress = Waiting /\ result = "none"
    /\ wire = <<>> /\ hidden = 0 /\ end = "open"
    /\ sent = [p \in OutPath |-> 0] /\ written = [p \in OutPath |-> 0] /\ count = 0

-----------------------------------------------------------------------------
(* Handles                                                                 *)

\* `index`, or `clone` for the path of the handle itself.
OutIndex(w, v, path) ==
    /\ writer[w].st # "free" /\ writer[v].st = "free"
    /\ Len(writer[w].path) <= Len(path)
    /\ SubSeq(path, 1, Len(writer[w].path)) = writer[w].path
    /\ writer' = [writer EXCEPT ![v] = [NoWriter EXCEPT !.st = "live", !.path = path]]
    /\ UNCHANGED <<queue, sent, count, egressVars, wireVars>>

\* `poll_reserve` is pending until a slot of the queue is free.
OutWait(w) ==
    /\ writer[w].st = "live" /\ writer[w].error = "none"
    /\ writer' = [writer EXCEPT ![w].st = "waiting"]
    /\ UNCHANGED <<queue, sent, count, egressVars, wireVars>>

\* A slot of the queue is free.
QueueHasRoom == Len(queue) + Cardinality(Reserved) < MaxQueue

OutReserve(w) ==
    /\ writer[w].st = "waiting" /\ inbox = "open" /\ QueueHasRoom
    /\ writer' = [writer EXCEPT ![w].st = "reserved"]
    /\ UNCHANGED <<queue, sent, count, egressVars, wireVars>>

\* `poll_reserve` fails: `error_egress` returns the error of egress, if it is
\* known.
OutReserveFailed(w) ==
    /\ writer[w].st = "waiting" /\ inbox = "dropped"
    /\ writer' = [writer EXCEPT ![w].st = "live",
                                ![w].error = IF result = "err" THEN "cause" ELSE "unknown"]
    /\ UNCHANGED <<queue, sent, count, egressVars, wireVars>>

\* `send_reserved`: a slot once reserved can be used even if egress is gone.
SendReserved(path, n) ==
    /\ count < MaxSent /\ count' = count + 1
    /\ queue' = IF inbox = "open" THEN Append(queue, [path |-> path, size |-> n]) ELSE queue
    /\ sent' = [sent EXCEPT ![path] = @ + n]

\* The end of `write_bytes`, `poll_write` or, with no chunks, `close`.
OutSend(w, n) ==
    /\ writer[w].st = "reserved"
    /\ SendReserved(writer[w].path, n)
    /\ writer' = [writer EXCEPT ![w].st = "live"]
    /\ UNCHANGED <<egressVars, wireVars>>

\* A handle is dropped, with its slot if it reserved one.
OutDrop(w) ==
    /\ writer[w].st # "free"
    /\ writer' = [writer EXCEPT ![w] = NoWriter]
    /\ UNCHANGED <<queue, sent, count, egressVars, wireVars>>

-----------------------------------------------------------------------------
(* Egress                                                                  *)

\* `recv` or `try_recv` returns a frame.
EgressTake ==
    /\ egress.pc \in {"recv", "next"} /\ queue # <<>>
    /\ egress' = Writing(Head(queue))
    /\ queue' = Tail(queue)
    /\ UNCHANGED <<writer, sent, count, inbox, result, wireVars>>

\* The transport takes the next piece of the frame.
EgressWrite ==
    LET header == egress.left = egress.size + 1
    IN  /\ egress.pc = "write" /\ Len(wire) < MaxWire /\ end = "open"
        /\ wire' = Append(wire, IF header THEN [kind |-> "header", path |-> egress.path, size |-> egress.size]
                                ELSE [kind |-> "chunk", path |-> egress.path, size |-> 1])
        /\ hidden' = hidden + 1
        /\ written' = IF header THEN written ELSE [written EXCEPT ![egress.path] = @ + 1]
        /\ egress' = IF egress.left = 1 THEN [Waiting EXCEPT !.pc = "next"]
                     ELSE [egress EXCEPT !.left = @ - 1]
        /\ UNCHANGED <<handleVars, inbox, result, end>>

\* `try_recv` returns nothing: what was written is flushed before the next
\* `recv`.
SkipFlush ==
    /\ egress.pc = "next" /\ queue = <<>>
    /\ egress' = [egress EXCEPT !.pc = "recv"]
    /\ UNCHANGED <<handleVars, inbox, result, wireVars>>
EgressEmpty ==
    /\ egress.pc = "next" /\ queue = <<>>
    /\ egress' = [egress EXCEPT !.pc = "flush"]
    /\ UNCHANGED <<handleVars, inbox, result, wireVars>>
EgressFlush ==
    /\ egress.pc = "flush" /\ end = "open"
    /\ hidden' = 0
    /\ egress' = Waiting
    /\ UNCHANGED <<handleVars, inbox, result, wire, end, written>>

\* `recv` returns `None`: there is no frame and no sender left.
EgressLast ==
    /\ egress.pc = "recv" /\ queue = <<>> /\ Live = {}
    /\ egress' = [egress EXCEPT !.pc = "shutdown"]
    /\ UNCHANGED <<handleVars, inbox, result, wireVars>>

\* The byte stream is shut down: the peer will read its end.
EgressShutdown ==
    /\ egress.pc = "shutdown" /\ end = "open"
    /\ end' = "fin" /\ hidden' = 0
    /\ egress' = [egress EXCEPT !.pc = "ok"]
    /\ UNCHANGED <<handleVars, inbox, result, wire, written>>

\* The transport fails a write, a flush or a shutdown.
EgressFail ==
    /\ egress.pc \in {"write", "flush", "shutdown"}
    /\ egress' = [egress EXCEPT !.pc = "err"]
    /\ UNCHANGED <<handleVars, inbox, result, wireVars>>

\* The result is published before the task drops the queue, ...
DropUnpublished ==
    /\ egress.pc \in {"ok", "err"}
    /\ inbox' = "dropped" /\ queue' = <<>>
    /\ egress' = [egress EXCEPT !.pc = "done"]
    /\ UNCHANGED <<writer, sent, count, result, wireVars>>
EgressPublish ==
    /\ egress.pc \in {"ok", "err"}
    /\ result' = egress.pc
    /\ egress' = [egress EXCEPT !.pc = "done"]
    /\ UNCHANGED <<handleVars, inbox, wireVars>>

\* ... and the write half, which aborts the connection unless it was shut
\* down.
EndAlways == IF end = "open" THEN "fin" ELSE end
EndOfDropped == IF end = "open" THEN "reset" ELSE end
EgressDrop ==
    /\ egress.pc = "done"
    /\ inbox' = "dropped" /\ queue' = <<>>
    /\ end' = EndOfDropped
    /\ egress' = [egress EXCEPT !.pc = "gone"]
    /\ UNCHANGED <<writer, sent, count, result, wire, hidden, written>>

-----------------------------------------------------------------------------
(* The transport and the peer                                              *)

\* The transport passes on what it held back.
Spill ==
    /\ hidden > 0 /\ hidden' = hidden - 1
    /\ UNCHANGED <<handleVars, egressVars, wire, end, written>>

\* The peer reads.
PeerRead ==
    /\ Len(wire) > hidden
    /\ wire' = Tail(wire)
    /\ UNCHANGED <<handleVars, egressVars, hidden, end, written>>

-----------------------------------------------------------------------------
WriterStep(w) ==
    \/ \E v \in Writer, path \in OutPath : OutIndex(w, v, path)
    \/ OutWait(w)
    \/ OutReserve(w)
    \/ OutReserveFailed(w)
    \/ \E n \in 0..MaxSize : OutSend(w, n)
    \/ OutDrop(w)

EgressStep ==
    \/ EgressTake
    \/ EgressWrite
    \/ EgressEmpty
    \/ EgressFlush
    \/ EgressLast
    \/ EgressShutdown
    \/ EgressPublish
    \/ EgressDrop

OutNext ==
    \/ \E w \in Writer : WriterStep(w)
    \/ EgressStep
    \/ EgressFail
    \/ Spill
    \/ PeerRead

OutSpec == OutInit /\ [][OutNext]_outVars

\* A reserved slot is used, or given back with the handle.
UseSlot(w) ==
    writer[w].st = "reserved" /\ (OutDrop(w) \/ \E n \in 0..MaxSize : OutSend(w, n))

\* Egress is polled when it is woken, a full transport passes on what it holds,
\* the peer reads what it is passed, and a handle that reserved a slot, which
\* it does only with data at hand, uses it or is dropped.  Slots are granted in
\* the order they were asked for.
OutFairness ==
    /\ WF_outVars(EgressStep) /\ WF_outVars(PeerRead) /\ WF_outVars(Len(wire) = MaxWire /\ Spill)
    /\ \A w \in Writer :
        /\ WF_outVars(UseSlot(w))
        /\ SF_outVars(OutReserve(w)) /\ WF_outVars(OutReserveFailed(w))

OutFairSpec == OutSpec /\ OutFairness

-----------------------------------------------------------------------------
(* Properties                                                              *)

\* A handle whose write fails is told why egress failed.
CauseKnown == \A w \in Writer : writer[w].error # "unknown"

\* Nobody waits for egress for ever, though it may fail at any time: a handle
\* that waits for a slot gets one or an error, what was written reaches the
\* peer without another frame being sent, and the result is published once
\* all handles are dropped.
EgressProgress ==
    /\ \A w \in Writer : writer[w].st = "waiting" ~> writer[w].st # "waiting"
    /\ hidden > 0 ~> hidden = 0 \/ end = "reset"
    /\ Live = {} ~> result # "none"
=============================================================================
