------------------------------- MODULE JsMux --------------------------------
(***************************************************************************)
(* The JavaScript multiplexer (js/src/mux.js) with the tasks of an         *)
(* invocation that receive from it (js/src/session.js): frames are routed  *)
(* to the channels of the sub-streams that decoded values declare, and     *)
(* buffered while it is not known whether their sub-stream is expected.    *)
(*                                                                         *)
(* The tuple received holds a stream at every index of Params, of streams, *)
(* and so on, up to paths of length Depth, whose streams hold plain data.  *)
(* A chunk of a channel is one whole value: "some" is the tuple, or a      *)
(* chunk of one element of a stream, "end" the chunk that ends a stream.   *)
(* One step is what runs between two awaits.  A node of the trie and its   *)
(* children are a path and the paths in the domain of `trie` that extend   *)
(* it by one.                                                              *)
(*                                                                         *)
(* Once the multiplexer is aborted, `finished` rejects, whatever the tasks *)
(* do until they fail too: only the former is modelled.                    *)
(***************************************************************************)
EXTENDS Naturals, Sequences, FiniteSets

CONSTANTS
    Index,          \* bound: the elements of a stream
    Params,         \* the members of the tuple that are streams
    Depth,          \* the maximum length of the path of a sub-stream
    WirePath,       \* the paths the peer sends frames for
    Capacity,       \* CAPACITY: 16
    QueueCapacity,  \* STREAM_CAPACITY: 128
    MaxPending,     \* MAX_PENDING: 64
    MaxFrameChunks, \* bound: chunks of a frame
    MaxFrames       \* bound: frames received

ASSUME JsMuxAssumption ==
    /\ Index \subseteq Nat /\ Params \subseteq Index /\ WirePath \subseteq Seq(Index)
    /\ Params # {} => Depth > 0
    /\ {Depth, Capacity, QueueCapacity, MaxPending, MaxFrameChunks, MaxFrames} \subseteq Nat

VARIABLES
    mux,        \* the Mux: [trie, chan, pend, inbound, aborted, asleep]
    reader,     \* the task that reads a sub-stream: [pc, base]
    queue,      \* the chunks of a stream the application reads: [n, taken, closed, cancelled]
    ingress,    \* [pc, path, n]
    tx,         \* the write side: "open", "closed" or "failed"
    finished,   \* whether the promise of that name resolved; it rejects once aborted
    frames,     \* frames received
    sent,       \* history: [n, elems, over] by path: chunks, elements, end of the stream
    decoded,    \* history: chunks the reader of a path decoded
    blame       \* history: who did what makes an invocation fail

vars == <<mux, reader, queue, ingress, tx, finished, frames, sent, decoded, blame>>

Path == UNION {[1..n -> Index] : n \in 0..Depth}
Front(p) == SubSeq(p, 1, Len(p) - 1)
Last(p) == p[Len(p)]
Prefixes(p) == {SubSeq(p, 1, n) : n \in 0..Len(p)}
Nested(p) == Len(p) < Depth

\* The member of {x}.  The methods of the Mux call each other on what the last
\* one left, m0; binding it to m has TLC compute it once.
One(S) == CHOOSE x \in S : TRUE

-----------------------------------------------------------------------------
(* Chan                                                                    *)

NewChan == [q |-> <<>>, end |-> "open", cancelled |-> FALSE, waiting |-> FALSE, got |-> "none"]

\* A value is handed to the consumer that waits, past the queue.
Push(c, v) ==
    IF c.waiting THEN [c EXCEPT !.waiting = FALSE, !.got = v] ELSE [c EXCEPT !.q = Append(@, v)]

Close(c, end) ==
    IF c.end # "open" THEN c
    ELSE [c EXCEPT !.end = end, !.waiting = FALSE, !.got = IF c.waiting THEN end ELSE @]

\* `cancel` with DISCARDED
Cancel(c) ==
    IF c.cancelled THEN c
    ELSE LET d == Close([c EXCEPT !.q = <<>>, !.cancelled = TRUE], "discarded")
         IN  [d EXCEPT !.end = IF @ = "eof" THEN "discarded" ELSE @]

NextOf(c) ==
    IF c.q # <<>> THEN [c EXCEPT !.q = Tail(@), !.got = Head(c.q)]
    ELSE IF c.end # "open" THEN [c EXCEPT !.got = c.end]
    ELSE [c EXCEPT !.waiting = TRUE, !.got = "none"]

-----------------------------------------------------------------------------
(* The trie and the data buffered for its missing children                 *)

NewNode == [chan |-> FALSE, sealed |-> TRUE, decided |-> 0, done |-> FALSE, closed |-> FALSE]
NoPending == [in |-> FALSE, at |-> <<>>, closed |-> FALSE, counted |-> FALSE]

Has(m, p) == p \in DOMAIN m.trie
Children(m, p) == {c \in DOMAIN m.trie : Len(c) = Len(p) + 1 /\ Front(c) = p}

\* Where the lookup of a path stops.
Stop(m, p) == CHOOSE n \in Prefixes(p) : Has(m, n) /\ \A x \in Prefixes(p) : Has(m, x) => Len(x) <= Len(n)
ChildAt(p, at) == SubSeq(p, 1, Len(at) + 1)

\* `_find` throws.
Unexpected(m, p) ==
    LET n == Stop(m, p)
        node == m.trie[n]
        i == p[Len(n) + 1]
    IN  IF n = p THEN node.closed \/ node.done \/ ~node.chan
        ELSE node.sealed \/ i < node.decided \/ (n = <<>> /\ i \notin Params)
Undecided(m, p) == Stop(m, p) # p /\ ~Unexpected(m, p)

\* Buffered where its lookup stops.
Buffered(m, p) == m.pend[p].in /\ m.pend[p].at = Stop(m, p)

PendingCount(m) == Cardinality({p \in Path : m.pend[p].counted})

WakeNone(m) == m
Wake(m) == [m EXCEPT !.asleep = FALSE]

Out(pending) == [pending EXCEPT !.in = FALSE]
Uncounted(pending) == [pending EXCEPT !.counted = FALSE]

\* f with what it has for ps replaced
Replaced(f, ps, New(_)) == [p \in Path |-> IF p \in ps THEN New(f[p]) ELSE f[p]]

\* `_uncount`
Uncount(m0, ps) ==
    One({IF \E p \in ps : m.pend[p].counted
         THEN Wake([m EXCEPT !.pend = Replaced(@, ps, Uncounted)]) ELSE m : m \in {m0}})

\* `chans` of the root
Chans(m) == {p \in Path : (Has(m, p) /\ m.trie[p].chan) \/ m.pend[p].in}

CloseChans(m, ps, end) == [m EXCEPT !.chan = Replaced(@, ps, LAMBDA c : Close(c, end))]

CloseInbound(m, end) ==
    IF m.inbound # "open" THEN m ELSE [CloseChans(m, Chans(m), end) EXCEPT !.inbound = end]

Abort(m0) ==
    One({IF m.aborted THEN m
         ELSE [Wake(CloseInbound(m, "failed")) EXCEPT !.aborted = TRUE, !.inbound = "failed"] : m \in {m0}})
AbortIf(b, m) == IF b THEN Abort(m) ELSE m

\* Data dropped unread fails the invocation.
DropUnnoticed(m0, ps) ==
    One({Uncount([m EXCEPT !.chan = Replaced(@, ps, Cancel)], ps) : m \in {m0}})
Drop(m0, ps) ==
    One({AbortIf(\E p \in ps : m.chan[p].q # <<>>,
                 Uncount([m EXCEPT !.chan = Replaced(@, ps, Cancel)], ps)) : m \in {m0}})

\* `_settle` of the groups below `places`, each a missing child: what is
\* decided since fails the invocation, the rest moves to where it stops now.
Settle(m0, places) ==
    One({LET group == {p \in Path : m.pend[p].in /\ ChildAt(p, m.pend[p].at) \in places}
             known == {p \in group : Stop(m, p) = p}
             moved == [p \in Path |-> IF p \in known THEN Out(m.pend[p])
                                      ELSE IF p \in group THEN [m.pend[p] EXCEPT !.at = Stop(m, p)]
                                      ELSE m.pend[p]]
         IN  IF \E p \in group : Unexpected(m, p)
             THEN Abort(CloseChans([m EXCEPT !.pend = Replaced(@, group, Out)], group, "failed"))
             ELSE Drop([m EXCEPT !.pend = moved], known)
         : m \in {m0}})

\* `_declare` of the sub-streams ps, with the data buffered for `taken`.
Declare(m0, ps, taken) ==
    One({LET fresh == {p \in ps : ~(Has(m, p) /\ m.trie[p].chan)}
             new(p) == [NewNode EXCEPT !.chan = TRUE, !.sealed = ~Nested(p),
                                       !.closed = (p \in taken /\ m.pend[p].closed)]
             chan(p) == IF p \in taken THEN m.chan[p] ELSE NewChan
         IN  [m EXCEPT
                !.trie = [p \in DOMAIN m.trie \cup ps |-> IF p \in fresh THEN new(p) ELSE @[p]],
                !.chan = [p \in Path |-> IF p \notin fresh THEN @[p]
                                         ELSE IF m.inbound = "open" THEN chan(p)
                                         ELSE Close(chan(p), m.inbound)]]
         : m \in {m0}})

\* `_takePending`
TakePending(m, ps) == Uncount([m EXCEPT !.pend = Replaced(@, ps, Out)], ps)

\* `seal` of the tuple: its streams are declared.
SealTuple(m) ==
    LET ps == {<<i>> : i \in Params}
        taken == {p \in ps : Buffered(m, p)}
        sealed == [TakePending(m, taken) EXCEPT !.trie[<<>>].sealed = TRUE]
    IN  Wake(Settle(Declare(sealed, ps, taken), {<<i>> : i \in Index}))

\* `seal` of the element of a stream at p, which is a stream at p itself.  Of
\* a forgotten stream, nothing is declared.
DecidedAhead(p) == Last(p) + 2
Decided(p) == Last(p) + 1
SealElement(m, p) ==
    LET parent == Front(p)
        from == m.trie[parent].decided
        taken == {x \in {p} : Buffered(m, x)}
        counted == [TakePending(m, taken) EXCEPT !.trie[parent].decided = Decided(p)]
        settled == {Append(parent, i) : i \in {i \in Index : from <= i /\ i < Decided(p)}}
    IN  IF Has(m, parent) /\ ~m.trie[parent].sealed /\ from <= Last(p)
        THEN Wake(Settle(Declare(counted, {p}, taken), settled))
        ELSE Wake(Settle(Drop(TakePending(m, taken), taken), {ChildAt(p, Stop(m, p))}))

\* `_prune`
Prune(m0, p) ==
    One({LET over(x) == ~m.trie[x].chan \/ m.trie[x].done
             gone == {x \in Prefixes(p) \ {<<>>} :
                        \A y \in Prefixes(p) : Len(y) >= Len(x) =>
                            Has(m, y) /\ over(y) /\ Children(m, y) \subseteq Prefixes(p)}
         IN  [m EXCEPT !.trie = [x \in DOMAIN @ \ gone |-> @[x]]]
         : m \in {m0}})

\* `finish`: what is left unread fails the invocation.
Finish(m0, p) ==
    One({LET read == AbortIf(m.chan[p].q # <<>>, m)
             ended == [read EXCEPT !.trie[p].sealed = TRUE, !.trie[p].done = TRUE,
                                   !.chan[p] = Close(@, "eof")]
         IN  IF Has(m, p) THEN Wake(Prune(Settle(ended, {Append(p, i) : i \in Index}), p)) ELSE read
         : m \in {m0}})

\* `discard` of the elements of a stream that nobody will receive.
Discard(m, p, from, to) ==
    LET lost == {c \in Children(m, p) : from <= Last(c) /\ Last(c) < to}
        gone == {x \in DOMAIN m.trie : Prefixes(x) \cap lost # {}}
        held == {x \in Path : m.pend[x].in /\ m.pend[x].at \in gone}
        left == [m EXCEPT !.trie = [x \in DOMAIN @ \ gone |-> @[x]], !.pend = Replaced(@, held, Out)]
    IN  IF Has(m, p) THEN Wake(Prune(Drop(left, held \cup {x \in gone : m.trie[x].chan}), p)) ELSE m

-----------------------------------------------------------------------------
Init ==
    /\ mux = [trie |-> [p \in {<<>>} |-> [NewNode EXCEPT !.chan = TRUE, !.sealed = FALSE]],
              chan |-> [p \in Path |-> IF p = <<>> THEN NextOf(NewChan) ELSE NewChan],
              pend |-> [p \in Path |-> NoPending],
              inbound |-> "open", aborted |-> FALSE, asleep |-> FALSE]
    /\ reader = [p \in Path |-> [pc |-> IF p = <<>> THEN "next" ELSE "off", base |-> 0]]
    /\ queue = [p \in Path |-> [n |-> 0, taken |-> 0, closed |-> FALSE, cancelled |-> FALSE]]
    /\ ingress = [pc |-> "loop", path |-> <<>>, n |-> 0]
    /\ tx = "open" /\ finished = FALSE /\ frames = 0
    /\ sent = [p \in Path |-> [n |-> 0, elems |-> 0, over |-> FALSE]]
    /\ decoded = [p \in Path |-> 0] /\ blame = {}

-----------------------------------------------------------------------------
(* Ingress                                                                 *)

\* A sub-stream the peer declared and did not end: a peer as the code of the
\* repository writes sends data of no other, and none but whole values.
Open(p) ==
    /\ p \in Path /\ ~sent[p].over
    /\ CASE p = <<>> -> sent[p].n = 0
         [] Len(p) = 1 -> sent[<<>>].n > 0 /\ Last(p) \in Params
         [] OTHER -> Last(p) < sent[Front(p)].elems

Blamed(b) == IF b THEN blame ELSE blame \cup {"peer"}

\* The header of a frame of n chunks, too long a path included.  Bound: a peer
\* that misbehaves sends no other frame.
IngressFrame(p, n) ==
    /\ ingress.pc = "loop" /\ frames < MaxFrames /\ "peer" \notin blame
    /\ frames' = frames + 1
    /\ blame' = Blamed(n > 0 /\ Open(p))
    /\ IF Len(p) > Depth THEN mux' = Abort(mux) /\ ingress' = [ingress EXCEPT !.pc = "done"]
       ELSE UNCHANGED mux /\ ingress' = [pc |-> "room", path |-> p, n |-> n]
    /\ UNCHANGED <<reader, queue, tx, finished, sent, decoded>>

\* `_room`
IngressRoom ==
    LET p == ingress.path
        full == PendingCount(mux) >= MaxPending
    IN  /\ ingress.pc = "room" /\ ~mux.asleep
        /\ IF full /\ Unexpected(mux, p) THEN mux' = Abort(mux) /\ ingress' = [ingress EXCEPT !.pc = "done"]
           ELSE IF full /\ Undecided(mux, p) /\ ~Buffered(mux, p)
           THEN mux' = [mux EXCEPT !.asleep = TRUE] /\ UNCHANGED ingress
           ELSE ingress' = [ingress EXCEPT !.pc = "route"] /\ UNCHANGED mux
        /\ UNCHANGED <<reader, queue, tx, finished, frames, sent, decoded, blame>>

\* `_route`: the sub-stream may have been declared, finished or forgotten
\* meanwhile.
IngressRoute ==
    LET p == ingress.path
        empty == ingress.n = 0
        known == Stop(mux, p) = p
        new == ~known /\ ~Buffered(mux, p)
        routed == IF known THEN [mux EXCEPT !.trie[p].closed = @ \/ empty]
                  ELSE [mux EXCEPT
                          !.pend[p] = [in |-> TRUE, at |-> Stop(mux, p), closed |-> @.closed \/ empty,
                                       counted |-> new \/ @.counted],
                          !.chan[p] = IF new THEN NewChan ELSE @]
    IN  /\ ingress.pc = "route"
        /\ IF Unexpected(mux, p) \/ (~known /\ mux.pend[p].closed)
           THEN mux' = Abort(mux) /\ ingress' = [ingress EXCEPT !.pc = "done"]
           ELSE /\ mux' = IF empty THEN [routed EXCEPT !.chan[p] = Close(@, "eof")] ELSE routed
                /\ ingress' = [ingress EXCEPT !.pc = IF empty THEN "loop" ELSE "send"]
        /\ UNCHANGED <<reader, queue, tx, finished, frames, sent, decoded, blame>>

\* A chunk of the frame is sent once its channel has room.
IngressChunk(v) ==
    LET p == ingress.path
        gone == mux.chan[p].end # "open"
    IN  /\ ingress.pc = "send"
        /\ gone \/ Len(mux.chan[p].q) < Capacity
        /\ p # <<>> /\ v = "some" => sent[p].elems \in Index
        /\ sent' = [sent EXCEPT ![p] = [n |-> @.n + 1, over |-> @.over \/ v = "end",
                                        elems |-> IF v = "some" THEN @.elems + 1 ELSE @.elems]]
        /\ blame' = Blamed(Open(p))
        /\ IF gone
           THEN mux' = Abort(mux) /\ ingress' = [ingress EXCEPT !.pc = "done"]
           ELSE /\ mux' = [mux EXCEPT !.chan[p] = Push(@, v)]
                /\ ingress' = [ingress EXCEPT !.n = @ - 1, !.pc = IF ingress.n = 1 THEN "loop" ELSE "send"]
        /\ UNCHANGED <<reader, queue, tx, finished, frames, decoded>>

\* The transport ends between two frames.
Complete == ~\E p \in Path : Open(p)
IngressEnd ==
    /\ ingress.pc = "loop"
    /\ mux' = CloseInbound(mux, "eof")
    /\ ingress' = [ingress EXCEPT !.pc = "end"]
    /\ blame' = Blamed(Complete)
    /\ UNCHANGED <<reader, queue, tx, finished, frames, sent, decoded>>

\* The transport fails, or ends in a frame.
IngressFail ==
    /\ ingress.pc \in {"loop", "send"}
    /\ mux' = Abort(mux)
    /\ ingress' = [ingress EXCEPT !.pc = "done"]
    /\ blame' = blame \cup {"transport"}
    /\ UNCHANGED <<reader, queue, tx, finished, frames, sent, decoded>>

-----------------------------------------------------------------------------
(* The tasks that read                                                     *)

\* A task starts, or goes on, waiting for the next chunk.
Await(m, p) == [m EXCEPT !.chan[p] = NextOf(@)]
Got(p) == mux.chan[p].got
Counted(p) == decoded' = [decoded EXCEPT ![p] = @ + 1]

\* `receiveTuple`
ReadTuple ==
    LET m == Finish(SealTuple(mux), <<>>)
        ps == {<<i>> : i \in Params}
    IN  /\ reader[<<>>].pc = "next" /\ Got(<<>>) \in {"some", "end"}
        /\ Counted(<<>>)
        /\ mux' = [m EXCEPT !.chan = [p \in Path |-> IF p \in ps THEN NextOf(@[p]) ELSE @[p]]]
        /\ reader' = [p \in Path |-> IF p \in ps THEN [reader[p] EXCEPT !.pc = "next"]
                                     ELSE IF p = <<>> THEN [reader[p] EXCEPT !.pc = "done"] ELSE reader[p]]
        /\ UNCHANGED <<queue, ingress, tx, finished, frames, sent, blame>>

\* A discarded stream's queue is cancelled too.
Cancelled(p) == queue[p].cancelled \/ mux.chan[p].cancelled

\* `readStream`: the length of a chunk, which must not follow a cancelled one.
ReadLength(p) ==
    /\ p # <<>> /\ reader[p].pc = "next" /\ Got(p) = "some"
    /\ mux' = AbortIf(Cancelled(p), mux)
    /\ reader' = [reader EXCEPT ![p].pc = IF Cancelled(p) THEN "failed" ELSE "decode"]
    /\ UNCHANGED <<queue, ingress, tx, finished, frames, sent, decoded, blame>>

\* ... its element, whose stream is declared and read, unless it was
\* discarded meanwhile
ReadElement(p) ==
    LET e == Append(p, reader[p].base)
        m == SealElement(mux, e)
    IN  /\ reader[p].pc = "decode"
        /\ Counted(p)
        /\ IF Nested(p)
           THEN /\ mux' = IF Has(m, e) THEN Await(m, e) ELSE m
                /\ reader' = [reader EXCEPT ![p] = [pc |-> "send", base |-> @.base + 1],
                                            ![e].pc = IF Has(m, e) THEN "next" ELSE @]
           ELSE UNCHANGED mux /\ reader' = [reader EXCEPT ![p].pc = "send"]
        /\ UNCHANGED <<queue, ingress, tx, finished, frames, sent, blame>>

\* ... `queue.send` of it, unless the queue is cancelled.
SendElement(p) ==
    /\ reader[p].pc = "send"
    /\ Cancelled(p) \/ queue[p].n < QueueCapacity
    /\ IF Cancelled(p)
       THEN /\ mux' = AbortIf(queue[p].cancelled, mux)
            /\ reader' = [reader EXCEPT ![p].pc = IF queue[p].cancelled THEN "failed" ELSE "done"]
            /\ UNCHANGED queue
       ELSE /\ mux' = Await(mux, p)
            /\ reader' = [reader EXCEPT ![p].pc = "next"]
            /\ queue' = [queue EXCEPT ![p].n = @ + 1]
    /\ UNCHANGED <<ingress, tx, finished, frames, sent, decoded, blame>>

\* The chunk that ends the stream.
ReadEnd(p) ==
    /\ p # <<>> /\ reader[p].pc = "next" /\ Got(p) = "end"
    /\ Counted(p)
    /\ mux' = Finish(mux, p)
    /\ reader' = [reader EXCEPT ![p].pc = "done"]
    /\ queue' = [queue EXCEPT ![p].closed = TRUE]
    /\ UNCHANGED <<ingress, tx, finished, frames, sent, blame>>

\* A discarded stream is done, the end of its channel a failure.
ReadDiscarded(p) ==
    /\ reader[p].pc = "next" /\ Got(p) = "discarded"
    /\ reader' = [reader EXCEPT ![p].pc = "done"]
    /\ UNCHANGED <<mux, queue, ingress, tx, finished, frames, sent, decoded, blame>>
ReadFail(p) ==
    /\ reader[p].pc = "next" /\ Got(p) = "eof"
    /\ mux' = Abort(mux)
    /\ reader' = [reader EXCEPT ![p].pc = "failed"]
    /\ UNCHANGED <<queue, ingress, tx, finished, frames, sent, decoded, blame>>

-----------------------------------------------------------------------------
(* The application                                                         *)

\* It has a stream once it received the tuple, or the element that is it.
Holds(p) == p # <<>> /\ reader[p].pc # "off" /\ (Len(p) > 1 => Last(p) < queue[Front(p)].taken)

\* The next chunk of a stream.
Take(p) ==
    /\ Holds(p) /\ ~Cancelled(p) /\ queue[p].n > 0
    /\ queue' = [queue EXCEPT ![p].n = @ - 1, ![p].taken = @ + 1]
    /\ UNCHANGED <<mux, reader, ingress, tx, finished, frames, sent, decoded, blame>>

\* It stops reading a stream: `cancel`, whose hook discards what is nested in
\* the chunks dropped.
CancelQueue(p) ==
    LET q == queue[p]
    IN  /\ Holds(p) /\ ~Cancelled(p)
        /\ queue' = [queue EXCEPT ![p].cancelled = TRUE, ![p].n = 0]
        /\ mux' = IF Nested(p) /\ q.n > 0 THEN Discard(mux, p, q.taken, q.taken + q.n) ELSE mux
        /\ blame' = blame \cup {"app"}
        /\ UNCHANGED <<reader, ingress, tx, finished, frames, sent, decoded>>

\* The other direction: all is written and closed, or fails.
TxClose ==
    /\ tx = "open"
    /\ tx' = "closed"
    /\ UNCHANGED <<mux, reader, queue, ingress, finished, frames, sent, decoded, blame>>
TxFail ==
    /\ tx = "open"
    /\ tx' = "failed"
    /\ mux' = Abort(mux)
    /\ blame' = blame \cup {"app"}
    /\ UNCHANGED <<reader, queue, ingress, finished, frames, sent, decoded>>

\* `finished`
Resolve ==
    /\ ~finished /\ ~mux.aborted
    /\ ingress.pc = "end" /\ tx = "closed"
    /\ \A p \in Path : reader[p].pc \in {"off", "done"}
    /\ finished' = TRUE
    /\ UNCHANGED <<mux, reader, queue, ingress, tx, frames, sent, decoded, blame>>

-----------------------------------------------------------------------------
IngressStep ==
    /\ ~mux.aborted
    /\ \/ \E p \in WirePath, n \in 0..MaxFrameChunks : IngressFrame(p, n)
       \/ IngressRoom
       \/ IngressRoute
       \/ \E v \in {"some", "end"} : IngressChunk(v)
       \/ IngressEnd
       \/ IngressFail

ReaderStep(p) ==
    /\ ~mux.aborted
    /\ \/ p = <<>> /\ ReadTuple
       \/ ReadLength(p)
       \/ ReadElement(p)
       \/ SendElement(p)
       \/ ReadEnd(p)
       \/ ReadDiscarded(p)
       \/ ReadFail(p)

Consume(p) == ~mux.aborted /\ Take(p)
Leave(p) == ~mux.aborted /\ CancelQueue(p)
TxStep == ~mux.aborted /\ (TxClose \/ TxFail)

Next ==
    \/ IngressStep
    \/ \E p \in Path : ReaderStep(p) \/ Consume(p) \/ Leave(p)
    \/ TxStep
    \/ Resolve

Spec == Init /\ [][Next]_vars

\* The event loop runs every task that can go on.  The transport ends or
\* fails, the application goes on reading every stream it received, and
\* finishes writing.
FairSpec ==
    /\ Spec
    /\ WF_vars(IngressStep) /\ WF_vars(TxStep) /\ WF_vars(Resolve)
    /\ \A p \in Path : WF_vars(ReaderStep(p)) /\ WF_vars(Consume(p))

-----------------------------------------------------------------------------
(* Properties                                                              *)

\* `finished` resolves only once all data the peer sent was decoded, and
\* every stream it declared was read to its end, unless the application
\* stopped reading: data that was buffered, moved, discarded or left over
\* while values were being decoded is never lost in silence.
OkMeansDecoded ==
    finished =>
        /\ \A p \in Path : decoded[p] = sent[p].n
        /\ "app" \in blame \/ Complete

\* An invocation fails for a reason: a peer that declares sub-streams before
\* it sends their data, and ends them, is never blamed for what it sent,
\* however late its values are decoded.
NoBlame == mux.aborted => blame # {}

\* `finished` settles if the peer declares sub-streams before it sends their
\* data: waiting for room (`_room`) ends in spite of sub-streams that are
\* declared, finished or discarded while it waits.
MuxEnds == <>(finished \/ mux.aborted \/ "peer" \in blame)
=============================================================================
