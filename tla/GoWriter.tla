------------------------------ MODULE GoWriter ------------------------------
(***************************************************************************)
(* The Go frame writer (go/frame_writer.go): handles that share a channel  *)
(* of frames, and the goroutine that writes the frames to the transport    *)
(* through a buffer.  The last handle that is closed closes the channel    *)
(* and waits for the goroutine; a failure, of the transport or declared by *)
(* CloseWithError, cancels the context of all handles and closes the       *)
(* transport with the error; the context may also be cancelled by the      *)
(* caller.                                                                 *)
(*                                                                         *)
(* `frameEgress.fail` is three steps (swap the flag, cancel, close), since *)
(* handles and goroutine may observe it between any two.                   *)
(***************************************************************************)
EXTENDS Naturals, FiniteSets

CONSTANTS
    Writer,     \* handles alive at one time
    Root,       \* the handle NewFrameStreamWriter returns
    Egress,     \* the goroutine
    MaxQueue,   \* capacity of the channel: 64
    MaxSent     \* bound: frames sent

ASSUME GoWriterAssumption ==
    /\ IsFiniteSet(Writer) /\ Root \in Writer /\ Egress \notin Writer
    /\ MaxQueue \in Nat \ {0} /\ MaxSent \in Nat

VARIABLES
    writer,     \* the handles: [st, last, ret]
    writers,    \* the count of handles they share
    queue,      \* frames in the channel
    shut,       \* whether the channel is closed
    cause,      \* cause of the context: "none", "done" (errWriterDone), "err"
                \* or "parent"
    failed,     \* `frameEgress.failed` and how far `fail` got: "no",
                \* "swapped", "cancelled" or "closed"
    failer,     \* who is in `fail`
    egress,     \* where the goroutine is
    buffer,     \* frames in its buffer
    end,        \* the transport: "open", "closed" or "aborted"
    sent,       \* history: frames accepted by `sendFrame`
    written     \* history: frames the transport took

handleVars == <<writer, writers, queue, shut, sent>>
failVars == <<cause, failed, failer>>
egressVars == <<egress, buffer, end, written>>
writerVars == <<handleVars, failVars, egressVars>>

NoWriter == [st |-> "free", last |-> FALSE, ret |-> "none"]

WriterInit ==
    /\ writer = [w \in Writer |-> IF w = Root THEN [NoWriter EXCEPT !.st = "live"] ELSE NoWriter]
    /\ writers = 1 /\ queue = 0 /\ shut = FALSE
    /\ cause = "none" /\ failed = "no" /\ failer = Egress
    /\ egress = "select" /\ buffer = 0 /\ end = "open"
    /\ sent = 0 /\ written = 0

-----------------------------------------------------------------------------
(* Handles                                                                 *)

IndexUncounted(w, v) ==
    /\ writer[w].st = "live" /\ writer[v].st = "free"
    /\ writer' = [writer EXCEPT ![v].st = "live"]
    /\ UNCHANGED <<writers, queue, shut, sent, failVars, egressVars>>
Index(w, v) ==
    /\ writer[w].st = "live" /\ writer[v].st = "free"
    /\ writer' = [writer EXCEPT ![v].st = "live"]
    /\ writers' = writers + 1
    /\ UNCHANGED <<queue, shut, sent, failVars, egressVars>>

\* `sendFrame` succeeds, which it may though the context is done, or fails.
Send(w) ==
    /\ writer[w].st = "live" /\ queue < MaxQueue /\ sent < MaxSent
    /\ queue' = queue + 1 /\ sent' = sent + 1
    /\ UNCHANGED <<writer, writers, shut, failVars, egressVars>>

\* `drop`: the handle is counted down, by Close or by its finalizer, ...
Leave(w) ==
    /\ writer[w].st \in {"live", "failing"} /\ (writer[w].st = "failing" => failer # w)
    /\ writers' = writers - 1
    /\ writer' = [writer EXCEPT ![w].st = "left", ![w].last = (writers = 1)]
    /\ UNCHANGED <<queue, shut, sent, failVars, egressVars>>

\* ... and the last one closes the channel, unless egress failed, ...
CloseChan(w) ==
    /\ writer[w].st = "left" /\ writer[w].last
    /\ shut' = (failed = "no")
    /\ writer' = [writer EXCEPT ![w].st = "waiting"]
    /\ UNCHANGED <<writers, queue, sent, failVars, egressVars>>

\* ... and waits for the context to be done.  Close returns the cause of the
\* context, unless it is none or success.
ReturnEarly(w) == writer[w].st \in {"left", "waiting"}
MayReturn(w) ==
    \/ writer[w].st = "left" /\ ~writer[w].last
    \/ writer[w].st = "waiting" /\ cause # "none"
CloseReturn(w) ==
    /\ MayReturn(w)
    /\ writer' = [writer EXCEPT ![w].st = "closed",
                                ![w].ret = IF cause \in {"none", "done"} THEN "nil" ELSE "err"]
    /\ UNCHANGED <<writers, queue, shut, sent, failVars, egressVars>>

\* CloseWithError, up to the flag of `fail`.
CloseWithError(w) ==
    /\ writer[w].st = "live"
    /\ IF failed = "no" THEN failed' = "swapped" /\ failer' = w ELSE UNCHANGED <<failed, failer>>
    /\ writer' = [writer EXCEPT ![w].st = "failing"]
    /\ UNCHANGED <<writers, queue, shut, sent, cause, egressVars>>

\* The rest of `fail`, by whoever set the flag: the context is cancelled, ...
FailUncancelled ==
    /\ failed = "swapped" /\ failed' = "cancelled"
    /\ UNCHANGED <<handleVars, cause, failer, egressVars>>
FailCancel ==
    /\ failed = "swapped" /\ failed' = "cancelled"
    /\ cause' = IF cause = "none" THEN "err" ELSE cause
    /\ UNCHANGED <<handleVars, failer, egressVars>>

\* ... then the transport is closed with the error.
FailClose ==
    /\ failed = "cancelled" /\ failed' = "closed" /\ failer' = Egress
    /\ end' = IF end = "open" THEN "aborted" ELSE end
    /\ UNCHANGED <<handleVars, cause, egress, buffer, written>>

\* The context of the caller is done.
ParentDone ==
    /\ cause = "none" /\ cause' = "parent"
    /\ UNCHANGED <<handleVars, failed, failer, egressVars>>

-----------------------------------------------------------------------------
(* The goroutine                                                           *)

\* It is not in `fail`.
Free == failer # Egress \/ failed \in {"no", "closed"}

\* `select` finds the context done.
EgressDone ==
    /\ Free /\ egress \in {"select", "recv"} /\ cause # "none"
    /\ egress' = "defer"
    /\ UNCHANGED <<handleVars, failVars, buffer, end, written>>

\* It receives a frame and writes it; the buffer may overflow to the transport
\* and keep the end of the frame, or nothing.
EgressFrame ==
    /\ Free /\ egress \in {"select", "recv"} /\ queue > 0
    /\ queue' = queue - 1 /\ egress' = "select"
    /\ \/ buffer' = buffer + 1 /\ UNCHANGED written
       \/ end = "open" /\ buffer' = 1 /\ written' = written + buffer
       \/ end = "open" /\ buffer' = 0 /\ written' = written + buffer + 1
    /\ UNCHANGED <<writer, writers, shut, sent, failVars, end>>

\* It finds nothing, and flushes the buffer before it waits.
EgressIdle ==
    /\ Free /\ egress = "select" /\ queue = 0 /\ ~shut /\ cause = "none"
    /\ end = "open" \/ buffer = 0
    /\ egress' = "recv" /\ buffer' = 0 /\ written' = written + buffer
    /\ UNCHANGED <<handleVars, failVars, end>>

\* It finds the channel closed and empty, and flushes the buffer.
EgressLast ==
    /\ Free /\ egress \in {"select", "recv"} /\ queue = 0 /\ shut
    /\ end = "open" \/ buffer = 0
    /\ egress' = "finish" /\ buffer' = 0 /\ written' = written + buffer
    /\ UNCHANGED <<handleVars, failVars, end>>

\* It cancels the context with errWriterDone.
EgressFinish ==
    /\ egress = "finish" /\ egress' = "defer"
    /\ cause' = IF cause = "none" THEN "done" ELSE cause
    /\ UNCHANGED <<handleVars, failed, failer, buffer, end, written>>

\* A write or flush fails, as it does once the transport is closed: `fail`.
EgressFail ==
    /\ Free
    /\ \/ egress \in {"select", "recv"} /\ (queue > 0 \/ (shut /\ buffer > 0))
       \/ egress = "select" /\ buffer > 0 /\ cause = "none"
    /\ egress' = "defer"
    /\ IF failed = "no" THEN failed' = "swapped" /\ failer' = Egress ELSE UNCHANGED <<failed, failer>>
    /\ queue' = IF queue > 0 THEN queue - 1 ELSE 0
    /\ UNCHANGED <<writer, writers, shut, sent, cause, buffer, end, written>>

\* The deferred function: the transport is closed, after a failure with its
\* cause.
DeferClose ==
    /\ Free /\ egress = "defer"
    /\ egress' = "gone"
    /\ end' = IF end = "open" THEN "closed" ELSE end
    /\ UNCHANGED <<handleVars, failVars, buffer, written>>
EgressDefer ==
    /\ Free /\ egress = "defer"
    /\ egress' = "gone"
    /\ IF cause = "done"
       THEN end' = (IF end = "open" THEN "closed" ELSE end) /\ UNCHANGED <<failed, failer>>
       ELSE /\ IF failed = "no" THEN failed' = "swapped" /\ failer' = Egress
                                ELSE UNCHANGED <<failed, failer>>
            /\ UNCHANGED end
    /\ UNCHANGED <<handleVars, cause, buffer, written>>

-----------------------------------------------------------------------------
EgressStep ==
    \/ EgressDone
    \/ EgressFrame
    \/ EgressIdle
    \/ EgressLast
    \/ EgressFinish
    \/ EgressDefer

FailStep == FailCancel \/ FailClose

WriterNext ==
    \/ \E w \in Writer :
        \/ \E v \in Writer : Index(w, v)
        \/ Send(w)
        \/ Leave(w)
        \/ CloseChan(w)
        \/ CloseReturn(w)
        \/ CloseWithError(w)
    \/ FailStep
    \/ ParentDone
    \/ EgressStep
    \/ EgressFail

\* Goroutines run, and the transport does not block for ever: a write, or a
\* flush, succeeds or fails.
WriterFairness ==
    /\ WF_writerVars(EgressStep \/ EgressFail) /\ WF_writerVars(FailStep)
    /\ \A w \in Writer : WF_writerVars(CloseChan(w)) /\ WF_writerVars(CloseReturn(w))

WriterSpec == WriterInit /\ [][WriterNext]_writerVars /\ WriterFairness

-----------------------------------------------------------------------------
(* Properties                                                              *)

\* Nothing is sent on a closed channel, which would panic.
NoSendOnClosed == shut => \A w \in Writer : writer[w].st \notin {"live", "failing"}

\* When Close of the last handle returns no error, everything sent by any
\* handle was passed to the transport.
CloseOkMeansWritten ==
    \A w \in Writer : writer[w].last /\ writer[w].ret = "nil" => written = sent

\* The transport is closed without an error only after everything sent was
\* written: a failure, a cancelled context or a lost frame is never shown to
\* the peer as a clean end.
CleanEndMeansAll == end = "closed" => written = sent /\ writers = 0

\* Close returns.
CloseEnds == \A w \in Writer : writer[w].st = "left" ~> writer[w].st = "closed"

=============================================================================
