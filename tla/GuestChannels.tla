--------------------------- MODULE GuestChannels ---------------------------
(***************************************************************************)
(* The incoming channels of an invocation that a guest makes through       *)
(* `wrpc:rpc` (crates/wasmtime/src/rpc/mod.rs).  `invoke` returns before   *)
(* the invocation is transmitted, so that a guest indexes, reads and drops *)
(* channels of a transport that does not exist yet: `PendingChannels`      *)
(* keeps what the transport would, and `IncomingRoot::set` brings the      *)
(* transport to the state it would be in.                                  *)
(*                                                                         *)
(* Beside it runs `direct`, the transport as it would be if it had existed *)
(* from the start, with the same guest.  No data is on its way before the  *)
(* transmission, so a transport is its subscriptions: which paths are      *)
(* subscribed to, the handles within elements, the indices passed, and the *)
(* paths whose receiver was taken (take_rx, retain, release).              *)
(*                                                                         *)
(* A channel is an identity that is used once: a weak reference to it must *)
(* not come back to life.                                                  *)
(***************************************************************************)
EXTENDS Patterns

LOCAL INSTANCE SequencesExt

CONSTANTS
    MaxChannels,    \* bound: channels the guest asks for
    PruneMin        \* 64: pending channels below which nothing is pruned again

VARIABLES
    sent,       \* the transmission: "no", "yes" or "failed"
    chan,       \* the channels returned: [path, open, taken, slot, rd]
    returned,   \* `Pattern::returned`: declared paths without wildcards
    pend,       \* `PendingChannels`: [channels, next, elements, declared, pruneAt]
    real,       \* the transport, once there is one
    direct,     \* the transport of the guest that came after the transmission
    got         \* by channel, what that guest got: a "handle", a "reader" too, or "none"

vars == <<sent, chan, returned, pend, real, direct, got>>

Channel == 1..Len(chan)
Concrete(path) == Elements[path] = {}

\* The strong references to the slot of a channel: its own, and the future's
\* that waits for the transmission to take the reader.
Alive(c) == chan[c].open \/ chan[c].rd = "wait"

-----------------------------------------------------------------------------
(* The transport                                                           *)

NewTransport ==
    [subs |-> {<<>>} \cup (Declared \cap Node), taken |-> {<<>>},
     handles |-> [p \in Node |-> 0], next |-> [p \in Node |-> 0]]

\* `take_rx` finds a subscription ...
CanIndex(t, path) ==
    /\ \A e \in Elements[path] : e \in t.subs \/ Position(e) >= t.next[Container(e)]
    /\ ~(IsDeclared[path] /\ IsLeaf[path] /\ path \in t.subs \cap t.taken)

\* ... and with it the receiver, if the path is declared (`is_subscribed`).
Subscribed(t, path) == IsDeclared[path] /\ path \notin t.subs \cap t.taken

Retained(t, path) ==
    [t EXCEPT !.handles = [p \in Node |-> IF p \in Elements[path] THEN @[p] + 1 ELSE @[p]]]

Indexed(t, path) ==
    LET es == Elements[path]
    IN  Retained([t EXCEPT
            !.subs = @ \cup es \cup (IF IsDeclared[path] THEN {path} ELSE {}),
            !.taken = IF IsDeclared[path] THEN @ \cup {path} ELSE @,
            !.next = [p \in Node |->
                IF \E e \in es : Container(e) = p /\ Position(e) >= @[p]
                THEN Position(CHOOSE e \in es : Container(e) = p) + 1
                ELSE @[p]]], path)

\* Dropping a handle of `path`: the outermost element left without handles is
\* removed, with everything in it.
Released(t, path) ==
    LET es == Elements[path]
        stops == {e \in es : t.handles[e] <= 1}
        Within(p) == stops # {} /\ StartsWith(p, Outermost(stops))
    IN  [subs |-> {p \in t.subs : ~Within(p)},
         taken |-> {p \in t.taken : ~Within(p)},
         handles |-> [p \in Node |-> IF Within(p) THEN 0
                                     ELSE IF p \in es THEN t.handles[p] - 1 ELSE t.handles[p]],
         next |-> [p \in Node |-> IF Within(p) THEN 0 ELSE t.next[p]]]

-----------------------------------------------------------------------------
(* PendingChannels                                                         *)

NoPending ==
    [channels |-> <<>>, next |-> [p \in Node |-> 0], elements |-> [p \in Node |-> {}],
     declared |-> {}, pruneAt |-> 0]

\* `is_released`: a channel was returned within the element or one after it,
\* and none within it is alive.
IsReleased(pd, live, e) ==
    /\ Position(e) < pd.next[Container(e)]
    /\ pd.elements[e] \cap live = {}

\* `push` refuses a position within a released element, and a declared one
\* whose channel was returned.
Refused(pd, live, path) ==
    \/ \E e \in Elements[path] : IsReleased(pd, live, e)
    \/ IsDeclared[path] /\ path \in pd.declared

\* `prune`
Pruned(pd, live) ==
    LET Gone(path) == \E e \in Elements[path] : IsReleased(pd, live, e)
        kept == SelectSeq(pd.channels, LAMBDA c :
                    c.id \in live \/ (IsDeclared[c.path] /\ ~Gone(c.path)))
    IN  [pd EXCEPT
            !.elements = [p \in Node |-> @[p] \cap live],
            !.next = [p \in Node |-> IF Gone(p) THEN 0 ELSE @[p]],
            !.channels = kept,
            !.declared = {kept[i].path : i \in {j \in DOMAIN kept : IsDeclared[kept[j].path]}}]

PruneLater(pd) == [pd EXCEPT !.pruneAt = IF 2 * Len(pd.channels) > PruneMin THEN 2 * Len(pd.channels) ELSE PruneMin]

\* `push` of a position that is not refused: every element of it counts the
\* channel, and its container has passed it.
Pushed(pd, live, c, path) ==
    LET es == Elements[path]
        new == [pd EXCEPT
            !.declared = IF IsDeclared[path] THEN @ \cup {path} ELSE @,
            !.next = [p \in Node |->
                IF \E e \in es : Container(e) = p /\ Position(e) >= @[p]
                THEN Position(CHOOSE e \in es : Container(e) = p) + 1
                ELSE @[p]],
            !.elements = [p \in Node |-> IF p \in es THEN @[p] \cup {c} ELSE @[p]],
            !.channels = Append(@, [id |-> c, path |-> path])]
    IN  IF Len(new.channels) >= new.pruneAt THEN PruneLater(Pruned(new, live)) ELSE new

-----------------------------------------------------------------------------
(* IncomingRoot::set                                                       *)

\* The pending positions are indexed in the order they were returned.  What
\* `set` works with: the transport, what each position got, and the positions
\* of dropped channels whose handles are kept until the end.
Index1(w, c, live) ==
    [t |-> Indexed(w.t, c.path),
     slot |-> Append(w.slot, IF IsDeclared[c.path] /\ ~Subscribed(w.t, c.path) THEN "taken" ELSE "ok"),
     dropped |-> IF c.id \in live THEN w.dropped ELSE Append(w.dropped, c.path)]
IndexNext(w, c, live) ==
    IF CanIndex(w.t, c.path) THEN Index1(w, c, live) ELSE [w EXCEPT !.slot = Append(@, "err")]
IndexAll(cs, live) ==
    FoldLeft(LAMBDA w, c : IndexNext(w, c, live), [t |-> NewTransport, slot |-> <<>>, dropped |-> <<>>], cs)

\* The last elements passed, if they are released, are indexed and dropped at
\* once: containers before what they contain.
LastReleased(pd, live) ==
    SetToSortSeq({e \in UNION {Elements[p] : p \in Node} :
                     pd.next[Container(e)] = Position(e) + 1 /\ IsReleased(pd, live, e)},
                 LAMBDA e, f : Len(e) < Len(f))
Pass(t, e) == IF CanIndex(t, e) THEN Released(Indexed(t, e), e) ELSE t
PassAll(t, es) == FoldLeft(Pass, t, es)

ReleaseAll(t, paths) == FoldLeft(Released, t, paths)

Init ==
    /\ sent = "no" /\ chan = <<>> /\ returned = {} /\ pend = NoPending
    /\ real = NewTransport /\ direct = NewTransport /\ got = <<>>

\* The transmission succeeds: the root of the incoming direction is set.
Transmit ==
    /\ sent = "no" /\ sent' = "yes"
    /\ \E live \in {{c \in Channel : Alive(c)}} :
       \E w \in {IndexAll(pend.channels, live)} :
         /\ real' = ReleaseAll(PassAll(w.t, LastReleased(pend, live)), w.dropped)
         /\ chan' = [c \in Channel |->
                LET at == {i \in DOMAIN pend.channels : pend.channels[i].id = c}
                IN  IF at # {} /\ c \in live
                    THEN [chan[c] EXCEPT !.slot = w.slot[CHOOSE i \in at : TRUE]] ELSE chan[c]]
    /\ pend' = NoPending
    /\ UNCHANGED <<returned, direct, got>>

TransmitFail ==
    /\ sent = "no" /\ sent' = "failed"
    /\ UNCHANGED <<chan, returned, pend, real, direct, got>>

-----------------------------------------------------------------------------
(* IncomingChannel                                                         *)

AlreadyReturned(path) == IsDeclared[path] /\ Concrete(path) /\ path \in returned

\* Whether a channel of `path` that is asked for now will have its data.
WouldIndex(t, path) == CanIndex(t, path) /\ (IsDeclared[path] => Subscribed(t, path))
Would(path) ==
    IF sent = "yes" THEN WouldIndex(real, path)
    ELSE ~Refused(pend, {c \in Channel : Alive(c)}, path)

\* `index`: in the transport, or as a pending channel, whose error comes when
\* its data is taken.
IndexChannel(path) ==
    LET c == Len(chan) + 1
        slot == IF sent = "yes" THEN "ok" ELSE IF Would(path) THEN "none" ELSE "err"
    IN  /\ Len(chan) < MaxChannels
        /\ ~AlreadyReturned(path)
        /\ sent = "yes" => Would(path)
        /\ chan' = Append(chan, [path |-> path, open |-> TRUE, taken |-> FALSE, slot |-> slot, rd |-> "none"])
        /\ returned' = IF IsDeclared[path] /\ Concrete(path) THEN returned \cup {path} ELSE returned
        /\ real' = IF sent = "yes" THEN Indexed(real, path) ELSE real
        /\ pend' = IF slot = "none" THEN Pushed(pend, {d \in Channel : Alive(d)} \cup {c}, c, path) ELSE pend
        /\ direct' = IF WouldIndex(direct, path) THEN Indexed(direct, path) ELSE direct
        /\ got' = Append(got, IF WouldIndex(direct, path) THEN "handle" ELSE "none")
        /\ UNCHANGED sent

\* The handle in the slot of `c` goes with the last reference to the slot.
HasHandle(c) == chan[c].slot \in {"ok", "taken"}
DirectDrop(c) == direct' = IF got[c] = "none" THEN direct ELSE Released(direct, chan[c].path)

\* `drop` of a channel
Drop(c) ==
    /\ chan[c].open
    /\ chan' = [chan EXCEPT ![c].open = FALSE]
    /\ real' = IF HasHandle(c) /\ chan[c].rd # "wait" THEN Released(real, chan[c].path) ELSE real
    /\ DirectDrop(c)
    /\ UNCHANGED <<sent, returned, pend, got>>

\* `take_data`: the reader of the handle, an error, or a future that waits
\* for the transmission.
TakeData(c) ==
    /\ chan[c].open /\ ~chan[c].taken /\ IsDeclared[chan[c].path]
    /\ LET rd == CASE chan[c].slot = "none" -> "wait" [] chan[c].slot = "ok" -> "ready" [] OTHER -> "err"
       IN  /\ chan' = [chan EXCEPT ![c].taken = TRUE, ![c].rd = rd]
           /\ real' = IF rd = "ready" THEN Retained(real, chan[c].path) ELSE real
    /\ direct' = IF got[c] = "none" THEN direct ELSE Retained(direct, chan[c].path)
    /\ got' = [got EXCEPT ![c] = IF @ = "none" THEN @ ELSE "reader"]
    /\ UNCHANGED <<sent, returned, pend>>

\* The future resolves, and lets go of the slot.
Resolve(c) ==
    /\ chan[c].rd = "wait" /\ sent # "no"
    /\ LET path == chan[c].path
           kept == IF chan[c].slot = "ok" THEN Retained(real, path) ELSE real
       IN  /\ chan' = [chan EXCEPT ![c].rd = IF chan[c].slot = "ok" THEN "ready" ELSE "err"]
           /\ real' = IF HasHandle(c) /\ ~chan[c].open THEN Released(kept, path) ELSE kept
           /\ IF sent = "failed" THEN DirectDrop(c) ELSE UNCHANGED direct
    /\ UNCHANGED <<sent, returned, pend, got>>

\* The reader is dropped, or the future that waits for it.
DropReader(c) ==
    /\ chan[c].rd \in {"wait", "ready"}
    /\ chan' = [chan EXCEPT ![c].rd = "gone"]
    /\ real' = IF chan[c].rd = "ready" \/ (HasHandle(c) /\ ~chan[c].open)
               THEN Released(real, chan[c].path) ELSE real
    /\ DirectDrop(c)
    /\ UNCHANGED <<sent, returned, pend, got>>

Next ==
    \/ Transmit
    \/ TransmitFail
    \/ \E path \in Node \ {<<>>} : IndexChannel(path)
    \/ \E c \in Channel : Drop(c) \/ TakeData(c) \/ Resolve(c) \/ DropReader(c)

Spec == Init /\ [][Next]_vars

-----------------------------------------------------------------------------
(* Properties                                                              *)

\* What the peer and the guest can tell of a transport.
View(t) ==
    [subs |-> t.subs, taken |-> t.taken, next |-> t.next, held |-> {p \in Node : t.handles[p] > 0}]

\* A guest cannot tell whether the invocation was transmitted yet: every path
\* can be indexed now exactly if it could be in a transport that was there from
\* the start, every channel in use has its data exactly if it had there, and
\* the transport set later is in the same state, for whatever was indexed,
\* taken, dropped and pruned before.
Mirrored ==
    /\ \A path \in Node \ {<<>>} : AlreadyReturned(path) \/ (Would(path) <=> WouldIndex(direct, path))
    /\ \A c \in Channel :
         Alive(c) \/ chan[c].rd = "ready" => (chan[c].slot \in {"err", "taken"} <=> got[c] = "none")
    /\ sent = "yes" => View(real) = View(direct)
=============================================================================
