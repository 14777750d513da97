------------------------------ MODULE Incoming ------------------------------
(***************************************************************************)
(* The receiving half of a wRPC frame connection                           *)
(* (crates/transport/src/frame/conn/mod.rs): `Incoming` handles, the       *)
(* `Subscriptions` they share under a mutex, and the ingress task that     *)
(* demultiplexes the frames of one byte stream into bounded per-path       *)
(* channels.                                                               *)
(*                                                                         *)
(* Threads: the ingress task and, concurrently with it, whoever uses or    *)
(* drops the handles.  One action is one stretch of code that no other     *)
(* thread can observe half done: a critical section of the mutex, or what  *)
(* lies between two accesses to shared state.  The mutex is a variable,    *)
(* since ingress pushes into a channel without holding it.                 *)
(*                                                                         *)
(* A chunk of data is a unit: only how many are where is kept.  What the   *)
(* peer puts on the wire is unrestricted: any frame, a clean end, an end   *)
(* in the middle of a frame or a transport error.                          *)
(***************************************************************************)
EXTENDS Patterns, Integers, FiniteSets

CONSTANTS
    Handle,         \* identities of `Incoming` handles alive at one time
    First,          \* the root handle returned by `Incoming::new`
    Nobody,         \* no handle
    WirePath,       \* paths the peer may put in a frame
    AppPath,        \* paths the application may index
    MaxUnclaimed,   \* MAX_UNCLAIMED_ELEMENTS
    MaxChunks,      \* MAX_BUFFERED_CHUNKS
    MaxFrameChunks, \* bound: chunks of one frame
    MaxFrames       \* bound: frames the peer sends

ASSUME HandleAssumption == IsFiniteSet(Handle) /\ First \in Handle /\ Nobody \notin Handle

ASSUME AppPathAssumption == AppPath \subseteq Node

ASSUME BoundAssumption ==
    /\ MaxUnclaimed \in Nat \ {0}
    /\ MaxChunks \in Nat \ {0}
    /\ MaxFrameChunks \in Nat
    /\ MaxFrames \in Nat

VARIABLES
    \* Subscriptions
    subs,       \* keys of `subs`
    tx,         \* `Subscription::tx`: "none", "open" or "closed"
    rx,         \* where the receiver of a path is: "none" yet, in the "sub",
                \* "taken" by a handle, "checked" for data and about to be
                \* dropped, or "gone"
    handles,    \* `Subscription::handles`
    permit,     \* subscriptions holding a permit of `unclaimed`
    next,       \* `Subscriptions::next`, 0 where there is no entry
    unclaimed,  \* "open" or "closed": the semaphore
    indexed,    \* whether `indexed` holds a notification
    closed,     \* `Subscriptions::closed`
    lock,       \* the handle in a critical section of two steps, or Nobody
    pending,    \* what that critical section found: discarded data
    \* channels and handles
    chan,       \* number of chunks buffered per path
    handle,     \* the `Incoming` handles
    \* ingress task and `IngressState`
    io,         \* the `io` future: [pc, path, rem, res]
    task,       \* the task around it
    err,        \* `IngressState::err`
    failed,     \* whether `failed` holds a notification
    done,       \* `IngressState::done`
    frames,     \* frames received, bounded by MaxFrames
    \* history
    unread,     \* chunks pushed and not read yet
    raced,      \* paths with a chunk pushed to a receiver already checked
    drained     \* paths with a chunk pushed after all handles were dropped

subsVars == <<subs, tx, rx, handles, permit, next, unclaimed, indexed, closed>>
lockVars == <<lock, pending>>
taskVars == <<io, task, err, failed, done>>
history == <<unread, raced, drained>>
vars == <<subsVars, lockVars, chan, handle, taskVars, frames, history>>

Free == [st |-> "free", path |-> <<>>, rx |-> FALSE, chunk |-> FALSE]
Idle == [pc |-> "header", path |-> <<>>, rem |-> 0, res |-> "none"]

\* Points at which the `io` future can be pending.
Awaiting == {"header", "wait", "data", "send"}

\* "broken_pipe": received data has nobody to process it (`error_unprocessed`,
\* `error_receiver_closed`); "protocol": the peer sent a frame it may not send
\* (`error_not_found`, `error_closed`); "transport": the byte stream broke.
ErrorKind == {"broken_pipe", "protocol", "transport"}

AllDropped == \A h \in Handle : handle[h].st = "free"
Running == task \in {"running", "draining"}

\* A sender of `p` exists, in its slot or as the clone ingress works with.
HasSender(p) ==
    \/ tx[p] = "open"
    \/ Running /\ io.pc \in {"data", "send", "push"} /\ io.path = p

Init ==
    /\ subs = {<<>>} \cup (Declared \cap Node)
    /\ tx = [p \in Node |-> IF p \in subs THEN "open" ELSE "none"]
    /\ rx = [p \in Node |-> IF p = <<>> THEN "taken" ELSE IF p \in subs THEN "sub" ELSE "none"]
    /\ handles = [p \in Node |-> 0]
    /\ permit = {}
    /\ next = [p \in Node |-> 0]
    /\ unclaimed = "open" /\ indexed = FALSE /\ closed = FALSE
    /\ lock = Nobody /\ pending = FALSE
    /\ chan = [p \in Node |-> 0]
    /\ handle = [h \in Handle |-> IF h = First THEN [Free EXCEPT !.st = "live", !.rx = TRUE] ELSE Free]
    /\ io = Idle /\ task = "running" /\ err = "none" /\ failed = FALSE /\ done = "none"
    /\ frames = 0
    /\ unread = [p \in Node |-> 0] /\ raced = {} /\ drained = {}

-----------------------------------------------------------------------------
(* Subscriptions                                                           *)

\* `subscribe` for each path in `ps` that is not subscribed to yet.
SubscribedTx(ps) ==
    [p \in Node |-> IF p \in ps \ subs /\ IsDeclared[p] /\ ~closed THEN "open" ELSE tx[p]]
SubscribedRx(ps) ==
    [p \in Node |-> IF p \in ps \ subs /\ IsDeclared[p] THEN "sub" ELSE rx[p]]

\* `indexed.notify_one()` for each of the elements `es`.
NotifyNone(es) == indexed
Notify(es) == indexed \/ es # {}

\* Indexing the elements `es` gives their permits back ...
KeepPermits(es) == permit
Claim(es) == permit \ es

\* ... and raises `next` past them.
AdvanceShort(es) ==
    [p \in Node |->
        IF \E e \in es : Container(e) = p /\ Position(e) >= next[p]
        THEN Position(CHOOSE e \in es : Container(e) = p)
        ELSE next[p]]
Advance(es) ==
    [p \in Node |->
        IF \E e \in es : Container(e) = p /\ Position(e) >= next[p]
        THEN Position(CHOOSE e \in es : Container(e) = p) + 1
        ELSE next[p]]

\* `handles` with one more handle of `path` (`retain`).
RetainNone(path) == handles
Retain(path) ==
    [p \in Node |-> IF p \in Elements[path] \cap subs THEN handles[p] + 1 ELSE handles[p]]

\* `remove` of the elements `es`, with `counts` the handle counts otherwise:
\* everything nested in them goes.  Receivers still in a subscription are
\* checked for data here, but dropped later, by `DropChecked`.
Remove(es, counts) ==
    LET Within(p) == \E e \in es : StartsWith(p, e)
        removed == {p \in subs : Within(p)}
    IN  /\ subs' = subs \ removed
        /\ tx' = [p \in Node |-> IF p \in removed THEN "none" ELSE tx[p]]
        /\ rx' = [p \in Node |-> IF p \in removed /\ rx[p] = "sub" THEN "checked" ELSE rx[p]]
        /\ handles' = [p \in Node |-> IF p \in removed THEN 0 ELSE counts[p]]
        /\ permit' = permit \ removed
        /\ next' = [p \in Node |-> IF Within(p) THEN 0 ELSE next[p]]
        /\ indexed' = Notify(es)
        /\ pending' = \E p \in removed : rx[p] = "sub" /\ chan[p] > 0
        /\ UNCHANGED <<unclaimed, closed>>

\* Elements preceding the ones in `path` that were subscribed to but never
\* indexed (`skip`).
Skipped(path) ==
    {f \in subs : \E e \in Elements[path] :
        /\ Len(f) = Len(e) /\ Container(f) = Container(e)
        /\ next[Container(e)] <= Position(f) /\ Position(f) < Position(e)
        /\ handles[f] = 0}

\* `take_rx` returns `Some`.
CanTake(path) ==
    /\ \A e \in Elements[path] : e \in subs \/ Position(e) >= next[Container(e)]
    /\ ~(IsDeclared[path] /\ IsLeaf[path] /\ path \in subs /\ rx[path] # "sub")

\* The end of a two-step critical section: the checked receivers are dropped,
\* with whatever was pushed to them in between.
DropChecked == chan' = [p \in Node |-> IF rx[p] = "checked" THEN 0 ELSE chan[p]]
Settled(r) == [p \in Node |-> IF r[p] = "checked" THEN "gone" ELSE r[p]]

\* `fail_unprocessed`, if data was found.
FailUnset(found) == failed' = (failed \/ found) /\ UNCHANGED err
FailUnnotified(found) ==
    /\ err' = IF found /\ err = "none" THEN "broken_pipe" ELSE err
    /\ UNCHANGED failed
FailUnprocessed(found) ==
    /\ err' = IF found /\ err = "none" THEN "broken_pipe" ELSE err
    /\ failed' = (failed \/ found)

-----------------------------------------------------------------------------
(* Handles                                                                 *)

\* `index`, up to and including `skip`; `g` is the handle to be returned.
IndexSkip(h, g, path) ==
    /\ handle[h].st = "live" /\ handle[g].st = "free" /\ lock = Nobody
    /\ StartsWith(path, handle[h].path) /\ path # handle[h].path
    /\ Remove(Skipped(path), handles)
    /\ lock' = h
    /\ handle' = [handle EXCEPT ![h].st = "indexing", ![g] = [Free EXCEPT !.st = "new", !.path = path]]
    /\ UNCHANGED <<chan, taskVars, frames, history>>

\* `index`, the rest: `take_rx` succeeds.
IndexTake(h, g) ==
    LET path == handle[g].path
        es == Elements[path]
        new == IF IsDeclared[path] THEN es \cup {path} ELSE es
        taken == IsDeclared[path] /\ (path \notin subs \/ rx[path] = "sub")
    IN  /\ lock = h /\ handle[h].st = "indexing" /\ handle[g].st = "new"
        /\ CanTake(path)
        /\ FailUnprocessed(pending) /\ DropChecked
        /\ subs' = subs \cup new
        /\ tx' = SubscribedTx(new)
        /\ rx' = IF taken THEN [Settled(SubscribedRx(new)) EXCEPT ![path] = "taken"]
                          ELSE Settled(SubscribedRx(new))
        /\ handles' = [p \in Node |-> IF p \in es THEN handles[p] + 1 ELSE handles[p]]
        /\ permit' = Claim(es)
        /\ next' = Advance(es)
        /\ indexed' = Notify(es)
        /\ handle' = [handle EXCEPT ![h].st = "live", ![g].st = "live", ![g].rx = taken]
        /\ lock' = Nobody /\ pending' = FALSE
        /\ UNCHANGED <<unclaimed, closed, io, task, done, frames, history>>

\* `index`, the rest: `take_rx` finds no subscription.
IndexNotFound(h, g) ==
    /\ lock = h /\ handle[h].st = "indexing" /\ handle[g].st = "new"
    /\ ~CanTake(handle[g].path)
    /\ FailUnprocessed(pending) /\ DropChecked
    /\ rx' = Settled(rx)
    /\ handle' = [handle EXCEPT ![h].st = "live", ![g] = Free]
    /\ lock' = Nobody /\ pending' = FALSE
    /\ UNCHANGED <<subs, tx, handles, permit, next, unclaimed, indexed, closed>>
    /\ UNCHANGED <<io, task, done, frames, history>>

\* `take_reader`, with `retain`.
TakeReader(h, g) ==
    LET path == handle[h].path
    IN  /\ handle[h].st = "live" /\ handle[h].rx /\ handle[g].st = "free"
        /\ path # <<>> => lock = Nobody
        /\ handles' = Retain(path)
        /\ handle' = [handle EXCEPT ![g] = handle[h], ![h].rx = FALSE, ![h].chunk = FALSE]
        /\ UNCHANGED <<subs, tx, rx, permit, next, unclaimed, indexed, closed>>
        /\ UNCHANGED <<lockVars, chan, taskVars, frames, history>>

\* `poll_read` that loads the next chunk of the channel and leaves some of it.  A handle
\* without a receiver (never subscribed, its reader split off, or its end or error
\* reported) is answered at once, an error if it was never subscribed and an end
\* otherwise; that changes nothing and is not a step.
ReadChunk(h) ==
    LET path == handle[h].path
    IN  /\ handle[h].st = "live" /\ handle[h].rx /\ ~handle[h].chunk
        /\ chan[path] > 0
        /\ chan' = [chan EXCEPT ![path] = @ - 1]
        /\ handle' = [handle EXCEPT ![h].chunk = TRUE]
        /\ UNCHANGED <<subsVars, lockVars, taskVars, frames, history>>

\* `poll_read` that reads the rest of the loaded chunk.
ReadRest(h) ==
    /\ handle[h].st = "live" /\ handle[h].chunk
    /\ handle' = [handle EXCEPT ![h].chunk = FALSE]
    /\ unread' = [unread EXCEPT ![handle[h].path] = @ - 1]
    /\ UNCHANGED <<subsVars, lockVars, chan, taskVars, frames, raced, drained>>

\* `poll_read` on a channel that is empty and has no sender: the receiver is
\* dropped.
ReadEnd(h) ==
    LET path == handle[h].path
    IN  /\ handle[h].st = "live" /\ handle[h].rx /\ ~handle[h].chunk
        /\ chan[path] = 0 /\ ~HasSender(path)
        /\ rx' = [rx EXCEPT ![path] = "gone"]
        /\ handle' = [handle EXCEPT ![h].rx = FALSE]
        /\ UNCHANGED <<subs, tx, handles, permit, next, unclaimed, indexed, closed>>
        /\ UNCHANGED <<lockVars, chan, taskVars, frames, history>>

\* It returns the end of the stream, unless ingress failed and the peer did
\* not close the path (`is_closed` takes the mutex).
ReadEof(h) ==
    /\ err # "none" => lock = Nobody /\ tx[handle[h].path] = "closed"
    /\ ReadEnd(h)
ReadError(h) ==
    /\ err # "none" /\ lock = Nobody /\ tx[handle[h].path] # "closed"
    /\ ReadEnd(h)

\* `Drop`, first part: the receiver is closed, checked and dropped.
DropClose(h) ==
    LET path == handle[h].path
        found == handle[h].rx /\ (handle[h].chunk \/ chan[path] > 0)
    IN  /\ handle[h].st = "live"
        /\ FailUnprocessed(found)
        /\ rx' = IF handle[h].rx THEN [rx EXCEPT ![path] = "gone"] ELSE rx
        /\ chan' = IF handle[h].rx THEN [chan EXCEPT ![path] = 0] ELSE chan
        /\ handle' = [handle EXCEPT ![h] = IF path = <<>> THEN Free
                                           ELSE [Free EXCEPT !.st = "dropping", !.path = path]]
        /\ UNCHANGED <<subs, tx, handles, permit, next, unclaimed, indexed, closed>>
        /\ UNCHANGED <<lockVars, io, task, done, frames, history>>

\* `Drop`, second part: `release` walks the elements of the path outside in,
\* and removes the first one that is left without handles.
DropRelease(h) ==
    LET es == Elements[handle[h].path]
        stops == {e \in es : e \notin subs \/ handles[e] <= 1}
        stop == Outermost(stops)
        counts == [p \in Node |->
                     IF p \in es /\ \A e \in stops : Len(p) < Len(e)
                     THEN handles[p] - 1 ELSE handles[p]]
    IN  /\ handle[h].st = "dropping" /\ lock = Nobody
        /\ Remove(IF stops # {} /\ stop \in subs THEN {stop} ELSE {}, counts)
        /\ lock' = h
        /\ handle' = [handle EXCEPT ![h].st = "releasing"]
        /\ UNCHANGED <<chan, taskVars, frames, history>>

\* `Drop`, the end: removed receivers are dropped, then the mutex guard, then
\* the fields of the handle.
DropFinish(h) ==
    /\ lock = h /\ handle[h].st = "releasing"
    /\ FailUnprocessed(pending) /\ DropChecked
    /\ rx' = Settled(rx)
    /\ handle' = [handle EXCEPT ![h] = Free]
    /\ lock' = Nobody /\ pending' = FALSE
    /\ UNCHANGED <<subs, tx, handles, permit, next, unclaimed, indexed, closed>>
    /\ UNCHANGED <<io, task, done, frames, history>>

-----------------------------------------------------------------------------
(* Ingress                                                                 *)

\* The `ingress` future returns.
Return(res) == io' = [Idle EXCEPT !.pc = "ended", !.res = res]

\* The slot of `path` is `TxSlot::Closed`.
EndedOrGone(path) == tx[path] = "closed" \/ rx[path] = "gone"
Ended(path) == tx[path] = "closed"

\* `acquire_owned` succeeds.
PermitAvailableLate == unclaimed = "open" /\ Cardinality(permit) <= MaxUnclaimed
PermitAvailable == unclaimed = "open" /\ Cardinality(permit) < MaxUnclaimed

\* `route` of a frame of `n` chunks on `path`, with a permit if `granted`, and
\* what ingress does with the route.
Route(path, n, granted) ==
    LET found == path \in subs /\ tx[path] # "none"
        missing == IF found THEN {} ELSE Elements[path] \ subs
        first == Outermost(missing)
        released == missing # {} /\ Position(first) < next[Container(first)]
        blocked == missing # {} /\ (~granted \/ missing # {first})
        opened == IF granted /\ missing # {} THEN {first} ELSE {}
        sub == IF blocked THEN opened ELSE opened \cup {path}
        Subscribe ==
            /\ subs' = subs \cup sub
            /\ tx' = IF ~blocked /\ n = 0 THEN [SubscribedTx(sub) EXCEPT ![path] = "closed"]
                                          ELSE SubscribedTx(sub)
            /\ rx' = SubscribedRx(sub)
            /\ permit' = permit \cup opened
            /\ UNCHANGED <<handles, next, unclaimed, closed>>
    IN  \/ /\ ~found /\ ~IsDeclared[path]
           /\ Return("protocol")
           /\ UNCHANGED <<subs, tx, rx, handles, permit, next, unclaimed, closed>>
        \/ /\ found /\ Ended(path)
           /\ Return("protocol")
           /\ UNCHANGED <<subs, tx, rx, handles, permit, next, unclaimed, closed>>
        \/ /\ ~found /\ IsDeclared[path] /\ released
           /\ Return("broken_pipe")
           /\ UNCHANGED <<subs, tx, rx, handles, permit, next, unclaimed, closed>>
        \/ /\ found => ~Ended(path)
           /\ IsDeclared[path] /\ ~released
           /\ io' = [pc |-> IF blocked THEN "wait" ELSE IF n = 0 THEN "header" ELSE "data",
                     path |-> IF ~blocked /\ n = 0 THEN <<>> ELSE path,
                     rem |-> n, res |-> "none"]
           /\ Subscribe

IngressUnchanged == UNCHANGED <<lockVars, chan, handle, task, err, done, history>>

\* A frame header is read and routed.
IngressFrame(path, n) ==
    /\ Running /\ io.pc = "header" /\ frames < MaxFrames /\ lock = Nobody
    /\ path \in Node
    /\ frames' = frames + 1
    /\ Route(path, n, FALSE)
    /\ UNCHANGED <<indexed, failed>> /\ IngressUnchanged

\* A frame header is read whose path is too long or matches nothing declared.
IngressUnknown(path) ==
    /\ Running /\ io.pc = "header" /\ frames < MaxFrames
    /\ path \notin Node
    /\ frames' = frames + 1
    /\ Return("protocol")
    /\ UNCHANGED <<subsVars, failed>> /\ IngressUnchanged

\* The wait for elements to be indexed ends: with a permit, with a
\* notification, or because the semaphore was closed.
IngressPermit ==
    /\ Running /\ io.pc = "wait" /\ lock = Nobody
    /\ PermitAvailable
    /\ Route(io.path, io.rem, TRUE)
    /\ UNCHANGED <<indexed, failed, frames>> /\ IngressUnchanged

IngressIndexed ==
    /\ Running /\ io.pc = "wait" /\ lock = Nobody
    /\ indexed /\ indexed' = FALSE
    /\ Route(io.path, io.rem, FALSE)
    /\ UNCHANGED <<failed, frames>> /\ IngressUnchanged

IngressClosed ==
    /\ Running /\ io.pc = "wait" /\ unclaimed = "closed"
    /\ Return("broken_pipe")
    /\ UNCHANGED <<subsVars, failed, frames>> /\ IngressUnchanged

\* A chunk of the frame is read from the byte stream.
IngressData ==
    /\ Running /\ io.pc = "data"
    /\ io' = [io EXCEPT !.pc = "send"]
    /\ UNCHANGED <<subsVars, failed, frames>> /\ IngressUnchanged

\* The channel has room for another chunk.
AlwaysRoom(path) == TRUE
HasRoom(path) == chan[path] < MaxChunks

\* `tx.send`: a slot of the channel is reserved, or the receiver is gone.
IngressReserve ==
    /\ Running /\ io.pc = "send"
    /\ \/ /\ rx[io.path] = "gone"
          /\ Return("broken_pipe")
       \/ /\ rx[io.path] # "gone" /\ HasRoom(io.path)
          /\ io' = [io EXCEPT !.pc = "push"]
    /\ UNCHANGED <<subsVars, failed, frames>> /\ IngressUnchanged

\* `tx.send`: the chunk is pushed to the reserved slot, which a receiver
\* closed in the meantime does not prevent.
IngressPush ==
    LET path == io.path
        late == rx[path] \in {"checked", "gone"}
    IN  /\ Running /\ io.pc = "push"
        /\ io' = IF io.rem = 1 THEN Idle ELSE [io EXCEPT !.pc = "data", !.rem = @ - 1]
        /\ chan' = IF rx[path] = "gone" THEN chan ELSE [chan EXCEPT ![path] = @ + 1]
        /\ unread' = IF late \/ task = "draining" THEN unread ELSE [unread EXCEPT ![path] = @ + 1]
        /\ raced' = IF late THEN raced \cup {path} ELSE raced
        /\ drained' = IF task = "draining" THEN drained \cup {path} ELSE drained
        /\ UNCHANGED <<subsVars, lockVars, handle, task, err, failed, done, frames>>

\* The byte stream ends between two frames.
IngressEnd ==
    /\ Running /\ io.pc = "header"
    /\ Return("ok")
    /\ UNCHANGED <<subsVars, failed, frames>> /\ IngressUnchanged

\* The byte stream fails, or ends within a frame.
IngressBroken ==
    /\ Running /\ io.pc \in {"header", "data"}
    /\ Return("transport")
    /\ UNCHANGED <<subsVars, failed, frames>> /\ IngressUnchanged

\* `failed.notified()` ends ingress.
IngressFailed ==
    /\ Running /\ io.pc \in Awaiting /\ failed
    /\ failed' = FALSE
    /\ Return("broken_pipe")
    /\ UNCHANGED <<subsVars, frames>> /\ IngressUnchanged

-----------------------------------------------------------------------------
(* The task around ingress                                                 *)

\* `err` is set before any sender is closed.
SkipErr ==
    /\ Running /\ io.pc = "ended"
    /\ io' = [io EXCEPT !.pc = "closing"]
    /\ UNCHANGED <<subsVars, lockVars, chan, handle, task, err, failed, done, frames, history>>
SetErr ==
    /\ Running /\ io.pc = "ended"
    /\ err' = IF io.res # "ok" /\ err = "none" THEN io.res ELSE err
    /\ io' = [io EXCEPT !.pc = "closing"]
    /\ UNCHANGED <<subsVars, lockVars, chan, handle, task, failed, done, frames, history>>

\* `Subscriptions::close_tx`
CloseSenders ==
    /\ closed' = TRUE
    /\ tx' = [p \in Node |-> IF tx[p] = "open" THEN "none" ELSE tx[p]]

\* `close_tx`, and the outer `select!` taking the result of `io`.
CloseTx ==
    /\ Running /\ io.pc = "closing" /\ lock = Nobody
    /\ CloseSenders
    /\ io' = [io EXCEPT !.pc = "done"]
    /\ task' = IF io.res = "ok" /\ task = "running" THEN "lingering" ELSE "finished"
    /\ done' = IF io.res # "ok" THEN "err" ELSE IF task = "draining" THEN "ok" ELSE done
    /\ UNCHANGED <<subs, rx, handles, permit, next, unclaimed, indexed>>
    /\ UNCHANGED <<lockVars, chan, handle, err, failed, frames, history>>

\* `Subscriptions::close_rx` closes the semaphore and drops the receivers that
\* no handle took.
KeepSemaphore ==
    /\ UNCHANGED unclaimed
    /\ rx' = [p \in Node |-> IF p \in subs /\ rx[p] = "sub" THEN "gone" ELSE rx[p]]
    /\ chan' = [p \in Node |-> IF p \in subs /\ rx[p] = "sub" THEN 0 ELSE chan[p]]
CloseReceivers ==
    /\ unclaimed' = "closed"
    /\ rx' = [p \in Node |-> IF p \in subs /\ rx[p] = "sub" THEN "gone" ELSE rx[p]]
    /\ chan' = [p \in Node |-> IF p \in subs /\ rx[p] = "sub" THEN 0 ELSE chan[p]]

\* All handles are dropped: `close_rx`, after `io` completed or at one of its
\* suspension points.
CloseRx ==
    LET found == \E p \in subs : rx[p] = "sub" /\ chan[p] > 0
        bad == found \/ err # "none"
    IN  /\ AllDropped /\ lock = Nobody
        /\ task = "lingering" \/ (task = "running" /\ io.pc \in Awaiting)
        /\ CloseReceivers
        /\ task' = IF task = "running" /\ ~bad THEN "draining" ELSE "finished"
        /\ done' = IF bad THEN "err" ELSE IF task = "lingering" THEN "ok" ELSE done
        /\ UNCHANGED <<subs, tx, handles, permit, next, indexed, closed>>
        /\ UNCHANGED <<lockVars, handle, io, err, failed, frames, history>>

\* `AbortOnDropHandle`: no handle is left, and no future returned by
\* `finished` either.  Whether the application holds one is left open.
Abort ==
    /\ AllDropped
    /\ task = "lingering" \/ (Running /\ io.pc \in Awaiting)
    /\ task' = "aborted"
    /\ UNCHANGED <<subsVars, lockVars, chan, handle, io, err, failed, done, frames, history>>

-----------------------------------------------------------------------------
HandleStep(h) ==
    \/ \E g \in Handle, path \in AppPath : IndexSkip(h, g, path)
    \/ \E g \in Handle : IndexTake(h, g)
    \/ \E g \in Handle : IndexNotFound(h, g)
    \/ \E g \in Handle : TakeReader(h, g)
    \/ ReadChunk(h)
    \/ ReadRest(h)
    \/ ReadEof(h)
    \/ ReadError(h)
    \/ DropClose(h)
    \/ DropRelease(h)
    \/ DropFinish(h)

IngressStep ==
    \/ IngressPermit
    \/ IngressIndexed
    \/ IngressClosed
    \/ IngressReserve
    \/ IngressPush
    \/ IngressFailed
    \/ SetErr
    \/ CloseTx
    \/ CloseRx

PeerStep ==
    \/ \E path \in WirePath, n \in 0..MaxFrameChunks : IngressFrame(path, n)
    \/ \E path \in WirePath : IngressUnknown(path)
    \/ IngressData
    \/ IngressEnd
    \/ IngressBroken

Next ==
    \/ \E h \in Handle : HandleStep(h)
    \/ PeerStep
    \/ IngressStep
    \/ Abort

Spec == Init /\ [][Next]_vars

\* A woken task is polled, and a thread inside a critical section leaves it.
\* A mutex that is released again and again is eventually acquired, hence the
\* strong fairness.  The peer may stop sending at any time.
Fairness ==
    /\ WF_vars(IngressStep)
    /\ SF_vars(CloseTx) /\ SF_vars(CloseRx)
    /\ \A h \in Handle :
        /\ WF_vars(DropFinish(h))
        /\ \A g \in Handle : WF_vars(IndexTake(h, g) \/ IndexNotFound(h, g))

FairSpec == Spec /\ Fairness

\* The peer keeps sending and eventually ends its byte stream.
PeerFairness == WF_vars(PeerStep)

-----------------------------------------------------------------------------
(* Properties                                                              *)

SubsTypeOK ==
    /\ subs \subseteq Node /\ <<>> \in subs
    /\ tx \in [Node -> {"none", "open", "closed"}]
    /\ rx \in [Node -> {"none", "sub", "taken", "checked", "gone"}]
    /\ handles \in [Node -> Nat]
    /\ permit \subseteq subs
    /\ next \in [Node -> Nat]
    /\ unclaimed \in {"open", "closed"} /\ indexed \in BOOLEAN /\ closed \in BOOLEAN

HandleTypeOK ==
    /\ lock \in Handle \cup {Nobody} /\ pending \in BOOLEAN
    /\ handle \in [Handle -> [st : {"free", "new", "live", "indexing", "dropping", "releasing"},
                              path : Node, rx : BOOLEAN, chunk : BOOLEAN]]

TaskTypeOK ==
    /\ io \in [pc : Awaiting \cup {"push", "ended", "closing", "done"}, path : Node,
               rem : 0..MaxFrameChunks, res : {"none", "ok"} \cup ErrorKind]
    /\ task \in {"running", "draining", "lingering", "finished", "aborted"}
    /\ err \in {"none"} \cup ErrorKind /\ failed \in BOOLEAN
    /\ done \in {"none", "ok", "err"}
    /\ frames \in 0..MaxFrames

\* Every variable has the shape the code gives it.  In particular a channel
\* never holds more than MAX_BUFFERED_CHUNKS chunks, though ingress checks for
\* room in one step and pushes in another.
TypeOK ==
    /\ SubsTypeOK /\ HandleTypeOK /\ TaskTypeOK
    /\ chan \in [Node -> 0..MaxChunks]
    /\ unread \in [Node -> Int] /\ raced \subseteq Node /\ drained \subseteq Node

\* The permit of an element is held exactly as long as the element is
\* subscribed to and no handle is within it: it is neither leaked when the
\* element is indexed, skipped or released, nor given back early.
Unclaimed == {e \in subs : IsElement(e) /\ handles[e] = 0}
PermitIffUnclaimed == permit = Unclaimed

\* At most MAX_UNCLAIMED_ELEMENTS elements are subscribed to before being
\* indexed, whatever the peer sends.
UnclaimedBound == Cardinality(Unclaimed) <= MaxUnclaimed

\* Handles that `Subscription::handles` of the elements of their path counts.
Counted(e) == {h \in Handle : handle[h].st \in {"live", "indexing", "dropping"} /\ e \in Elements[handle[h].path]}

\* `handles` counts the handles within an element, and an element with a
\* handle within it stays subscribed to: no handle is pulled from under its
\* owner and none is forgotten.
HandlesCounted ==
    \A e \in Node : IsElement(e) => handles[e] = Cardinality(Counted(e)) /\ (Counted(e) # {} => e \in subs)

\* `finished` resolves to success only if the peer ended its stream between
\* two frames, every handle is dropped and every chunk that was pushed to a
\* channel somebody could still read was read.
OkMeansProcessed ==
    done = "ok" => /\ io.res = "ok" /\ err = "none" /\ AllDropped
                   /\ \A p \in Node : unread[p] = 0

\* Ingress that waits for elements to be indexed is not left asleep once
\* there is nothing left to wait for.
NoLostWakeup ==
    Running /\ io.pc = "wait" /\ lock = Nobody =>
        \/ indexed \/ unclaimed = "closed" \/ PermitAvailable
        \/ LET missing == Elements[io.path] \ subs
           IN  missing # {} /\ Position(Outermost(missing)) >= next[Container(Outermost(missing))]

\* A handle reads a clean end of its stream only if the peer closed the path
\* or ended the byte stream between two frames, and only after all data of
\* the path: truncation and failure are never taken for the end.  This is the
\* first thing reported at the end of a handle: read again, it is at its end even
\* if that was an error.
EofIsTrue ==
    [][\A h \in Handle : ReadEof(h) =>
        /\ tx[handle[h].path] = "closed" \/ io.res = "ok"
        /\ unread[handle[h].path] = 0]_vars

\* A path whose receiver was dropped is never subscribed to again: data for a
\* released element is refused, not buffered for nobody.
ReleasedForever ==
    [][\A p \in Node : rx[p] \in {"checked", "gone"} => rx'[p] \in {rx[p], "gone"}]_vars

\* A handle that fails ingress does fail it: the failure reaches `finished`,
\* unless the peer was done already and other handles are still in use.
FailureSurfaces == (err # "none") ~> (done = "err" \/ task \in {"lingering", "aborted"})

\* Once all handles are dropped, `finished` resolves, as long as the peer does
\* its part.
DrainEnds == PeerFairness => [](AllDropped => <>(done # "none" \/ task = "aborted"))
=============================================================================
