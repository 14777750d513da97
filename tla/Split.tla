------------------------------- MODULE Split -------------------------------
(***************************************************************************)
(* The two halves of a socket (crates/transport/src/frame/split.rs), used  *)
(* by two tasks: the read half by ingress, the write half by egress.  They *)
(* share the socket under a mutex and one waker.  A write half dropped     *)
(* before it was shut down takes the socket away, aborts it and wakes the  *)
(* reader.                                                                 *)
(*                                                                         *)
(* A poll of the reader is two steps, since it registers its waker before  *)
(* it takes the mutex; the drop of the write half is two, since it wakes   *)
(* after it released the mutex.                                            *)
(***************************************************************************)
EXTENDS Naturals

CONSTANT MaxBytes   \* bound: what the peer sends

ASSUME BytesAssumption == MaxBytes \in Nat

VARIABLES
    stream,     \* `Shared::stream`: "some" or "none"
    waker,      \* whether `Shared::waker` holds the reader's waker
    reader,     \* the reading task: "idle", "polling" (its waker is
                \* registered), "pending", "stopped" (an error) or "gone"
    woken,      \* whether the reading task was woken since it last polled
    eof,        \* `ReadHalf::eof`
    got,        \* the last answer of `poll_read`: "none", "data", "end",
                \* "empty" (nothing was asked for) or "error"
    writer,     \* the write half: "live", "taken" (dropped, and the wake is
                \* still to come) or "gone"
    shutdown,   \* `WriteHalf::shutdown`
    input,      \* bytes the socket holds for the reader
    peer,       \* the peer's side of the socket: "open", "fin" or "reset"
    sent,       \* bytes the peer sent, bounded by MaxBytes
    end         \* what the peer sees of this side: "open", "fin", "abort" or
                \* "close"

readVars == <<reader, woken, eof, got>>
writeVars == <<writer, shutdown>>
socketVars == <<input, peer, sent>>
vars == <<stream, waker, readVars, writeVars, socketVars, end>>

Init ==
    /\ stream = "some" /\ waker = FALSE
    /\ reader = "idle" /\ woken = FALSE /\ eof = FALSE /\ got = "none"
    /\ writer = "live" /\ shutdown = FALSE
    /\ input = 0 /\ peer = "open" /\ sent = 0 /\ end = "open"

-----------------------------------------------------------------------------
(* The read half                                                           *)

\* `poll_read` of a half that reached the end.
PollAtEof ==
    /\ reader = "idle" /\ eof
    /\ got' = "end"
    /\ UNCHANGED <<stream, waker, reader, woken, eof, writeVars, socketVars, end>>

\* The reading task polls: of its own accord, or since it was woken.
Polled == reader = "idle" \/ (reader = "pending" /\ woken)

\* `poll_read`: the waker is registered.
PollUnregistered ==
    /\ Polled /\ ~eof
    /\ reader' = "polling" /\ woken' = FALSE
    /\ UNCHANGED <<stream, waker, eof, got, writeVars, socketVars, end>>
PollRegister ==
    /\ Polled /\ ~eof
    /\ waker' = TRUE
    /\ reader' = "polling" /\ woken' = FALSE
    /\ UNCHANGED <<stream, eof, got, writeVars, socketVars, end>>

\* `poll_read`, the rest: the socket is polled, fails, or is gone.  A buffer without
\* room (`room` is FALSE) is filled with nothing, which is not the end.
EofOfEmpty(room) == TRUE
EofOf(room) == room
PollStream(room) ==
    /\ reader = "polling"
    /\ \/ /\ stream = "none" \/ peer = "reset"
          /\ reader' = "stopped" /\ got' = "error"
          /\ UNCHANGED <<eof, input>>
       \/ /\ stream = "some" /\ ~room
          /\ reader' = "idle" /\ got' = "empty" /\ eof' = EofOf(room)
          /\ UNCHANGED input
       \/ /\ stream = "some" /\ room /\ input > 0 /\ peer # "reset"
          /\ reader' = "idle" /\ got' = "data" /\ input' = input - 1
          /\ UNCHANGED eof
       \/ /\ stream = "some" /\ room /\ input = 0 /\ peer = "fin"
          /\ reader' = "idle" /\ got' = "end" /\ eof' = EofOf(room)
          /\ UNCHANGED input
       \/ /\ stream = "some" /\ room /\ input = 0 /\ peer = "open"
          /\ reader' = "pending"
          /\ UNCHANGED <<eof, got, input>>
    /\ UNCHANGED <<stream, waker, woken, writeVars, peer, sent, end>>

\* The read half is dropped; the last half to go closes the socket.
ReadDrop ==
    /\ reader \in {"idle", "pending", "stopped"}
    /\ reader' = "gone"
    /\ end' = IF writer = "gone" /\ stream = "some" THEN "close" ELSE end
    /\ UNCHANGED <<stream, waker, woken, eof, got, writeVars, socketVars>>

-----------------------------------------------------------------------------
(* The write half                                                          *)

\* `poll_shutdown` succeeds.
Shutdown ==
    /\ writer = "live" /\ stream = "some" /\ ~shutdown
    /\ shutdown' = TRUE /\ end' = "fin"
    /\ UNCHANGED <<stream, waker, readVars, writer, socketVars>>

\* `drop` of a write half that was shut down.
DropShut ==
    /\ writer = "live" /\ shutdown
    /\ writer' = "gone"
    /\ end' = IF reader = "gone" THEN "close" ELSE end
    /\ UNCHANGED <<stream, waker, readVars, shutdown, socketVars>>

\* `drop` of one that was not: the socket is taken and aborted ...
DropAny == writer = "live"
Unfinished == writer = "live" /\ ~shutdown
DropTake ==
    /\ Unfinished
    /\ stream' = "none" /\ end' = "abort"
    /\ writer' = "taken"
    /\ UNCHANGED <<waker, readVars, shutdown, socketVars>>

\* ... and the reader is woken.
DropWake ==
    /\ writer = "taken"
    /\ writer' = "gone"
    /\ waker' = FALSE /\ woken' = (woken \/ waker)
    /\ UNCHANGED <<stream, reader, eof, got, shutdown, socketVars, end>>

-----------------------------------------------------------------------------
(* The socket: bytes, the end or a reset arrive, and wake a reader that    *)
(* polled it.                                                              *)

Arrive ==
    /\ stream = "some" /\ peer = "open"
    /\ \/ /\ sent < MaxBytes
          /\ input' = input + 1 /\ sent' = sent + 1
          /\ UNCHANGED peer
       \/ /\ peer' \in {"fin", "reset"}
          /\ UNCHANGED <<input, sent>>
    /\ woken' = (woken \/ reader = "pending")
    /\ UNCHANGED <<stream, waker, reader, eof, got, writeVars, end>>

-----------------------------------------------------------------------------
Poll == PollAtEof \/ PollRegister \/ \E room \in BOOLEAN : PollStream(room)

Next ==
    \/ Poll
    \/ ReadDrop
    \/ Shutdown
    \/ DropShut
    \/ DropTake
    \/ DropWake
    \/ Arrive

\* A task that was woken is polled, a poll and a drop that began end.  Nobody
\* has to begin to read, and nothing has to arrive from the peer.
Spec == Init /\ [][Next]_vars /\ WF_vars(reader # "idle" /\ Poll) /\ WF_vars(DropWake)

-----------------------------------------------------------------------------
(* Properties                                                              *)

\* The reader takes the end of its stream only from the peer, and only after
\* everything the peer sent: neither an abandoned write half nor an empty
\* buffer look like it.
EndIsTrue == got = "end" \/ eof => peer = "fin" /\ input = 0

\* A reader asleep when the write half is abandoned is woken, though the peer
\* sends nothing: no interleaving of its poll with the drop loses the wake.
ReaderWoken ==
    stream = "none" /\ reader \in {"polling", "pending"} ~> reader \in {"stopped", "gone"}

\* A connection that was shut down is never aborted, so that what was written
\* before is not discarded, and one that was not is never closed quietly.
AbortIffUnfinished ==
    /\ end \in {"fin", "close"} => shutdown
    /\ end = "abort" => ~shutdown
    /\ writer # "live" => end # "open"
=============================================================================
