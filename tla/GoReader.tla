------------------------------ MODULE GoReader ------------------------------
(***************************************************************************)
(* The Go frame reader (go/frame_reader.go): readers of the paths of one   *)
(* byte stream and the goroutine that receives frames and routes their     *)
(* data to them.  A mutex protects the subscriptions; data is sent and     *)
(* received on channels outside of it, and a reader is counted down before *)
(* it takes it.  A condition variable wakes the goroutine.                 *)
(*                                                                         *)
(* Frames are counted in chunks (maxInitialCapacity bytes), errors by      *)
(* their kind: "unprocessed" (errUnprocessed), "protocol" (the peer sent   *)
(* what it must not), "io" and "ctx".                                      *)
(***************************************************************************)
EXTENDS Patterns, FiniteSets

CONSTANTS
    Handle,         \* readers alive at one time
    Root,           \* the one NewFrameStreamReader returns
    WirePath,       \* the paths the peer sends frames for
    AppPath,        \* the paths Index is called for
    MaxUnclaimed,   \* maxUnclaimedElements: 64
    Capacity,       \* of a channel: 16
    MaxFrameChunks, \* bound: chunks of a frame
    MaxFrames       \* bound: frames received

ASSUME GoReaderAssumption ==
    /\ Root \in Handle /\ IsFiniteSet(Handle) /\ AppPath \subseteq Node
    /\ {MaxUnclaimed, Capacity, MaxFrameChunks, MaxFrames} \subseteq Nat

VARIABLES
    handle,     \* FrameStreamReader: [st, path, sub, buf, last, late]
    readers,    \* their atomic count
    subs,       \* frameSub of a path: [st, ch, shut, dropped, taken], in `nest` iff st = "in"
    closed,     \* paths the peer closed
    count,      \* frameElement.readers of the elements there are
    unclaimed,  \* elements nobody indexed yet
    next,       \* by container: every element below is indexed or released
    failed, err, done, drained,
    closing,    \* `fail` started a goroutine that closes the transport
    end,        \* the transport: "open", or closed with "nil" or "err"
    io,         \* the goroutine: [pc, path, n, res]
    asleep,     \* whether it waits on the condition variable
    ctx,        \* the context: "live", "done", or done with the waiters told ("told")
    frames,     \* frames received
    over,       \* history: the peer ended the stream between two frames
    outcome     \* history: what the reader of a path found in the end

subVars == <<subs, closed, count, unclaimed, next>>
failVars == <<failed, err, closing>>
history == <<over, outcome>>
vars == <<handle, readers, subVars, failVars, done, drained, end, io, asleep, ctx, frames, history>>

Path == {p \in Node : IsDeclared[p]}
Element == UNION {Elements[p] : p \in Node}
Live(h) == handle[h].st = "live"

NoSub == [st |-> "none", ch |-> 0, shut |-> FALSE, dropped |-> FALSE, taken |-> FALSE]
Free == [st |-> "free", path |-> <<>>, sub |-> FALSE, buf |-> FALSE, last |-> FALSE, late |-> FALSE]

\* Subscribed to from the start: the root and the paths without wildcard.
Concrete == {<<>>} \cup {d \in Declared : Wild \notin {d[k] : k \in 1..Len(d)}}

Init ==
    /\ handle = [h \in Handle |-> IF h = Root THEN [Free EXCEPT !.st = "live", !.sub = TRUE] ELSE Free]
    /\ readers = 1
    /\ subs = [p \in Path |-> IF p \in Concrete THEN [NoSub EXCEPT !.st = "in", !.taken = (p = <<>>)]
                              ELSE NoSub]
    /\ closed = {} /\ count = [e \in {} |-> 0] /\ unclaimed = {}
    /\ next = [c \in {Container(e) : e \in Element} |-> 0]
    /\ failed = FALSE /\ err = "none" /\ done = FALSE /\ drained = FALSE /\ closing = FALSE
    /\ end = "open" /\ io = [pc |-> "loop", path |-> <<>>, n |-> 0, res |-> "none"]
    /\ asleep = FALSE /\ ctx = "live" /\ frames = 0 /\ over = FALSE
    /\ outcome = [p \in Path |-> "none"]

-----------------------------------------------------------------------------
(* The subscriptions, under the mutex                                      *)

Exists(e) == e \in DOMAIN count
InNest(p) == p \in Path /\ subs[p].st = "in"

\* An element that is not there and never will be again.
Released(e) == ~Exists(e) /\ Position(e) < next[Container(e)]

\* Elements of `path` that would have to be created.
Missing(path) == {e \in Elements[path] : ~Exists(e)}

\* `remove` of the elements es: what is nested in them goes along.
Within(x, es) == \E e \in es : StartsWith(x, e)
PathsWithin(es) == {p \in Path : subs[p].st = "in" /\ Within(p, es)}
Unread(ps) == \E p \in ps : subs[p].ch > 0
Removed(es) ==
    [p \in Path |-> IF p \in PathsWithin(es) THEN [subs[p] EXCEPT !.st = "out", !.dropped = TRUE]
                    ELSE subs[p]]
RemovedNext(es) == [c \in DOMAIN next |-> IF Within(c, es) THEN 0 ELSE next[c]]

\* `subscribe`, in the subscriptions ss.
Subscribe(ss, path) ==
    IF ss[path].st # "none" THEN ss
    ELSE [ss EXCEPT ![path] = [@ EXCEPT !.st = "in", !.shut = done, !.dropped = drained]]

\* `fail`, if b.
FailUnclosed(b) ==
    /\ failed' = (failed \/ b)
    /\ err' = IF b /\ ~failed /\ err = "none" THEN "unprocessed" ELSE err
    /\ UNCHANGED closing
FailIf(b) ==
    /\ failed' = (failed \/ b)
    /\ err' = IF b /\ ~failed /\ err = "none" THEN "unprocessed" ELSE err
    /\ closing' = (closing \/ (b /\ ~failed))

\* `cond.Broadcast`, of claim, remove and drop: nobody is asleep.
BroadcastNot == asleep
Broadcast == FALSE

-----------------------------------------------------------------------------
(* Readers                                                                 *)

CanClaim(path) ==
    /\ \A e \in Elements[path] : ~Released(e)
    /\ ~(IsDeclared[path] /\ IsLeaf[path] /\ subs[path].taken)

\* Index: the elements of the path are claimed, the unclaimed ones before them released.
IndexReader(h, g, path) ==
    LET es == Elements[path]
        skip == {s \in unclaimed : \E e \in es :
                   /\ Container(s) = Container(e)
                   /\ next[Container(e)] <= Position(s) /\ Position(s) < Position(e)}
        kept == {e \in DOMAIN count : ~Within(e, skip)}
        free == IsDeclared[path] /\ ~subs[path].taken
        rest == Removed(skip)
    IN  /\ Live(h) /\ handle[g].st = "free"
        /\ StartsWith(path, handle[h].path) /\ path # handle[h].path
        /\ CanClaim(path)
        /\ FailIf(Unread(PathsWithin(skip)))
        /\ count' = [e \in kept \cup es |-> (IF e \in kept THEN count[e] ELSE 0) + (IF e \in es THEN 1 ELSE 0)]
        /\ unclaimed' = {e \in unclaimed : ~Within(e, skip)} \ es
        /\ next' = [c \in DOMAIN next |->
                      LET here == {Position(e) + 1 : e \in {e \in es : Container(e) = c}}
                      IN  IF here # {} /\ next[c] < CHOOSE n \in here : TRUE
                          THEN CHOOSE n \in here : TRUE ELSE RemovedNext(skip)[c]]
        /\ subs' = IF IsDeclared[path] THEN [Subscribe(rest, path) EXCEPT ![path].taken = TRUE] ELSE rest
        /\ closed' = closed \ PathsWithin(skip)
        /\ handle' = [handle EXCEPT ![g] = [Free EXCEPT !.st = "live", !.path = path, !.sub = free]]
        /\ readers' = readers + 1
        /\ asleep' = Broadcast
        /\ UNCHANGED <<done, drained, end, io, ctx, frames, history>>

\* Read and ReadByte: what is left of the last chunk, ...
ReadBuf(h) ==
    /\ Live(h) /\ handle[h].buf
    /\ handle' = [handle EXCEPT ![h].buf = FALSE]
    /\ UNCHANGED <<readers, subVars, failVars, done, drained, end, io, asleep, ctx, frames, history>>

\* ... the next one, of which a part may be left, ...
ReadChunk(h, part) ==
    LET p == handle[h].path
    IN  /\ Live(h) /\ handle[h].sub /\ ~handle[h].buf /\ subs[p].ch > 0
        /\ subs' = [subs EXCEPT ![p].ch = @ - 1]
        /\ handle' = [handle EXCEPT ![h].buf = part]
        /\ UNCHANGED <<readers, closed, count, unclaimed, next, failVars, done, drained, end, io, asleep,
                       ctx, frames, history>>

\* ... or the end of the channel, which closedErr explains.
ClosedErrEof(p) == "eof"
ClosedErr(p) == IF err # "none" /\ p \notin closed THEN "err" ELSE "eof"
ReadClosed(h) ==
    LET p == handle[h].path
    IN  /\ Live(h) /\ handle[h].sub /\ ~handle[h].buf
        /\ subs[p].ch = 0 /\ subs[p].shut
        /\ outcome[p] = "none"
        /\ outcome' = [outcome EXCEPT ![p] = ClosedErr(p)]
        /\ UNCHANGED <<handle, readers, subVars, failVars, done, drained, end, io, asleep, ctx, frames, over>>

\* `drop`, by Close or by the finalizer: the reader is counted down ...
Leave(h) ==
    /\ Live(h)
    /\ readers' = readers - 1
    /\ handle' = [handle EXCEPT ![h].st = "left", ![h].last = (readers = 1)]
    /\ UNCHANGED <<subVars, failVars, done, drained, end, io, asleep, ctx, frames, history>>

\* ... and then, under the mutex, its channel and its elements are released, from
\* the outermost, up to the first that no reader is left of; the last reader
\* drops all channels.
Release(h) ==
    LET p    == handle[h].path
        es   == Elements[p]
        zero == {e \in es : Exists(e) /\ count[e] = 1}
        gone == IF zero = {} THEN {} ELSE {Outermost(zero)}
        ss   == [q \in Path |->
                   IF (q = p /\ handle[h].sub) \/ (handle[h].last /\ Removed(gone)[q].st = "in")
                   THEN [Removed(gone)[q] EXCEPT !.dropped = TRUE] ELSE Removed(gone)[q]]
    IN  /\ handle[h].st = "left"
        /\ FailIf(\/ handle[h].sub /\ (handle[h].buf \/ subs[p].ch > 0)
                  \/ Unread(PathsWithin(gone))
                  \/ handle[h].last /\ \E q \in Path : subs[q].st = "in" /\ subs[q].ch > 0)
        /\ count' = [e \in {e \in DOMAIN count : ~Within(e, gone)} |->
                       IF e \in es THEN count[e] - 1 ELSE count[e]]
        /\ unclaimed' = {e \in unclaimed : ~Within(e, gone)}
        /\ next' = RemovedNext(gone)
        /\ subs' = ss
        /\ closed' = closed \ PathsWithin(gone)
        /\ drained' = (drained \/ handle[h].last)
        /\ handle' = [handle EXCEPT ![h].st = "dropped",
                                    ![h].late = (end = "nil" \/ (io.pc = "end" /\ io.res = "none"))]
        /\ asleep' = Broadcast
        /\ UNCHANGED <<readers, done, end, io, ctx, frames, history>>

HandleStep(h) ==
    \/ \E g \in Handle, path \in AppPath : IndexReader(h, g, path)
    \/ ReadBuf(h)
    \/ \E part \in BOOLEAN : ReadChunk(h, part)
    \/ ReadClosed(h)
    \/ Leave(h)
    \/ Release(h)

-----------------------------------------------------------------------------
(* The transport and the context                                           *)

\* `closeReader`: the first call decides; a done context is no error.
CloseReader(e) ==
    end' = IF end # "open" THEN end ELSE IF e \in {"none", "ctx"} THEN "nil" ELSE "err"

FailClose ==
    /\ closing /\ CloseReader("unprocessed")
    /\ closing' = FALSE
    /\ UNCHANGED <<handle, readers, subVars, failed, err, done, drained, io, asleep, ctx, frames, history>>

CtxDone ==
    /\ ctx = "live" /\ ctx' = "done"
    /\ UNCHANGED <<handle, readers, subVars, failVars, done, drained, end, io, asleep, frames, history>>

\* context.AfterFunc, unless it was stopped.
CtxTold ==
    /\ ctx = "done" /\ io.pc \notin {"end", "over"}
    /\ ctx' = "told" /\ asleep' = FALSE
    /\ UNCHANGED <<handle, readers, subVars, failVars, done, drained, end, io, frames, history>>

-----------------------------------------------------------------------------
(* The goroutine                                                           *)

IngressUnchanged == UNCHANGED <<handle, readers, failed, closing, drained, ctx>>

\* The function that receives frames returns the error e.
Stop(e) == io' = [io EXCEPT !.pc = "stop", !.res = e]

IngressLoop ==
    /\ io.pc = "loop"
    /\ IF ctx # "live" THEN Stop("ctx") ELSE IF failed THEN Stop("unprocessed")
       ELSE io' = [io EXCEPT !.pc = "read"]
    /\ UNCHANGED <<subVars, err, done, end, asleep, frames, history>> /\ IngressUnchanged

\* A frame header arrives.
IngressFrame(path, n) ==
    /\ io.pc = "read" /\ end = "open" /\ ~over /\ frames < MaxFrames
    /\ io' = [io EXCEPT !.pc = "route", !.path = path, !.n = n]
    /\ frames' = frames + 1
    /\ UNCHANGED <<subVars, err, done, end, asleep, history>> /\ IngressUnchanged

\* The stream ends between two frames.
IngressEnd ==
    /\ io.pc = "read" /\ end = "open"
    /\ io' = [io EXCEPT !.pc = "finish"]
    /\ over' = TRUE
    /\ UNCHANGED <<subVars, err, done, end, asleep, frames, outcome>> /\ IngressUnchanged

\* The stream breaks, ends within a frame, or is closed by `fail`.
IngressBroken ==
    /\ io.pc \in {"read", "data"}
    /\ Stop("io")
    /\ UNCHANGED <<subVars, err, done, end, asleep, frames, history>> /\ IngressUnchanged

Room(path) ==
    \/ Missing(path) = {}
    \/ ~drained /\ Cardinality(unclaimed) + Cardinality(Missing(path)) <= MaxUnclaimed

ErrDropped == IF failed THEN "unprocessed" ELSE "protocol"

\* `accept` of a frame whose subscription is in ss: an empty one closes its path.
Accept(ss) ==
    LET p == io.path
    IN  IF p \in closed THEN Stop("protocol") /\ subs' = ss /\ UNCHANGED closed
        ELSE IF io.n = 0
        THEN /\ subs' = [ss EXCEPT ![p].shut = TRUE] /\ closed' = closed \cup {p}
             /\ io' = [io EXCEPT !.pc = "loop"]
        ELSE /\ subs' = ss /\ UNCHANGED closed
             /\ IF ss[p].dropped THEN Stop(ErrDropped) ELSE io' = [io EXCEPT !.pc = "data"]

\* `route` fails, finds the subscription or creates it, or waits.
IngressRoute ==
    /\ io.pc = "route" /\ ~asleep
    /\ LET p == io.path
       IN  CASE InNest(p) ->
                  Accept(subs) /\ UNCHANGED <<count, unclaimed, asleep>>
             [] ~InNest(p) /\ (p \notin Path \/ (p \in Path /\ \E e \in Elements[p] : Released(e))) ->
                  Stop("protocol") /\ UNCHANGED <<subs, closed, count, unclaimed, asleep>>
             [] OTHER ->
                  IF Room(p)
                  THEN /\ count' = [e \in DOMAIN count \cup Missing(p) |-> IF Exists(e) THEN count[e] ELSE 0]
                       /\ unclaimed' = unclaimed \cup Missing(p)
                       /\ Accept(Subscribe(subs, p))
                       /\ UNCHANGED asleep
                  ELSE /\ UNCHANGED <<subs, closed, count, unclaimed>>
                       /\ IF drained THEN Stop("protocol") /\ UNCHANGED asleep
                          ELSE IF failed THEN Stop("unprocessed") /\ UNCHANGED asleep
                          ELSE IF ctx # "live" THEN Stop("ctx") /\ UNCHANGED asleep
                          ELSE asleep' = TRUE /\ UNCHANGED io
    /\ UNCHANGED <<next, err, done, end, frames, history>> /\ IngressUnchanged

\* A chunk of the data arrives, ...
IngressData ==
    /\ io.pc = "data" /\ end = "open"
    /\ io' = [io EXCEPT !.pc = "send"]
    /\ UNCHANGED <<subVars, err, done, end, asleep, frames, history>> /\ IngressUnchanged

\* ... is sent on the channel, unless one of the other cases is chosen, ...
IngressSend ==
    /\ io.pc = "send" /\ subs[io.path].ch < Capacity
    /\ subs' = [subs EXCEPT ![io.path].ch = @ + 1]
    /\ io' = [io EXCEPT !.pc = "check"]
    /\ UNCHANGED <<closed, count, unclaimed, next, err, done, end, asleep, frames, history>>
    /\ IngressUnchanged
IngressCancel ==
    /\ io.pc = "send"
    /\ \/ ctx # "live" /\ Stop("ctx")
       \/ failed /\ Stop("unprocessed")
       \/ subs[io.path].dropped /\ Stop(ErrDropped)
    /\ UNCHANGED <<subVars, err, done, end, asleep, frames, history>> /\ IngressUnchanged

\* ... and if its reader was dropped meanwhile, nobody will read it.
LostUnchecked == FALSE
LostData == subs[io.path].dropped /\ subs[io.path].ch > 0
IngressCheck ==
    /\ io.pc = "check"
    /\ IF LostData THEN Stop(ErrDropped)
       ELSE io' = [io EXCEPT !.n = @ - 1, !.pc = IF io.n = 1 THEN "loop" ELSE "data"]
    /\ UNCHANGED <<subVars, err, done, end, asleep, frames, history>> /\ IngressUnchanged

\* The first error is published and closes the transport ...
IngressStop ==
    /\ io.pc = "stop"
    /\ err' = IF err = "none" THEN io.res ELSE err
    /\ io' = [io EXCEPT !.pc = "close", !.res = err']
    /\ UNCHANGED <<subVars, done, end, asleep, frames, history>> /\ IngressUnchanged
IngressClose ==
    /\ io.pc = "close"
    /\ CloseReader(io.res)
    /\ io' = [io EXCEPT !.pc = "finish"]
    /\ UNCHANGED <<subVars, err, done, asleep, frames, history>> /\ IngressUnchanged

\* ... before the channels are closed; without one, the readers are awaited.
IngressFinish ==
    /\ io.pc = "finish"
    /\ done' = TRUE
    /\ subs' = [p \in Path |-> IF subs[p].st = "in" THEN [subs[p] EXCEPT !.shut = TRUE] ELSE subs[p]]
    /\ LET res == IF io.res = "none" /\ failed THEN "unprocessed" ELSE io.res
       IN  io' = [io EXCEPT !.res = res, !.pc = IF res = "none" THEN "wait" ELSE "end"]
    /\ UNCHANGED <<closed, count, unclaimed, next, err, end, asleep, frames, history>> /\ IngressUnchanged
IngressWait ==
    /\ io.pc = "wait" /\ ~asleep
    /\ IF drained \/ failed \/ ctx # "live"
       THEN io' = [io EXCEPT !.pc = "end", !.res = IF failed THEN "unprocessed" ELSE "none"] /\ UNCHANGED asleep
       ELSE asleep' = TRUE /\ UNCHANGED io
    /\ UNCHANGED <<subVars, err, done, end, frames, history>> /\ IngressUnchanged
IngressOver ==
    /\ io.pc = "end"
    /\ CloseReader(io.res)
    /\ io' = [io EXCEPT !.pc = "over"]
    /\ UNCHANGED <<subVars, err, done, asleep, frames, history>> /\ IngressUnchanged

IngressStep ==
    \/ IngressLoop \/ IngressRoute \/ IngressSend \/ IngressCancel \/ IngressCheck
    \/ IngressStop \/ IngressClose \/ IngressFinish \/ IngressWait \/ IngressOver

PeerStep ==
    \/ \E path \in WirePath, n \in 0..MaxFrameChunks : IngressFrame(path, n)
    \/ IngressEnd
    \/ IngressData

Next ==
    \/ \E h \in Handle : HandleStep(h)
    \/ FailClose \/ CtxDone \/ CtxTold
    \/ PeerStep \/ IngressBroken
    \/ IngressStep

Spec == Init /\ [][Next]_vars

\* The goroutines run, also those that a reader being dropped is in the middle of.
FairSpec ==
    /\ Spec
    /\ WF_vars(IngressStep) /\ WF_vars(FailClose) /\ WF_vars(CtxTold)
    /\ \A h \in Handle : WF_vars(Release(h))

-----------------------------------------------------------------------------
(* Properties                                                              *)

\* The transport is closed without an error, by a goroutine that is not told to
\* stop, only if everything received was read: nothing is left in a channel,
\* though it was sent to while its reader was being dropped, and no reader is
\* dropped with part of a chunk.  The exception are readers that are dropped at
\* the same time as the last one, counted down before it and released after it:
\* `fail` then finds the transport closed.
OkMeansRead ==
    end = "nil" /\ ctx = "live" =>
        /\ \A p \in Path : subs[p].ch = 0
        /\ \A h \in Handle : handle[h].st = "dropped" /\ handle[h].buf => handle[h].late

\* A reader finds the end of its path only if the peer closed the path or ended
\* the stream, not if the goroutine failed.
EofIsTrue ==
    [][\A p \in Path : outcome[p] = "none" /\ outcome'[p] = "eof"
                      => p \in closed \/ over]_vars

\* The goroutine sleeps only as long as it has to: what it waits for does not
\* happen without waking it.
NoLostWakeup ==
    asleep =>
        /\ ~failed /\ ~drained /\ ctx # "told"
        /\ io.pc = "route" => ~InNest(io.path) /\ ~Room(io.path)

\* The transport is closed after a failure, even if the peer is silent and the goroutine
\* blocked on it, and once every reader is dropped if the peer sends until its end.
ReaderEnds ==
    /\ [](failed => <>(end # "open"))
    /\ WF_vars(PeerStep) => [](drained => <>(end # "open"))
=============================================================================
