---------------------------- MODULE IncomingProofs ---------------------------
(***************************************************************************)
(* Incoming, for every declaration, peer and application: its types; the   *)
(* elements, whose handle counts are exact, whose permits are held exactly *)
(* while they are unclaimed, and of which at most MAX_UNCLAIMED_ELEMENTS   *)
(* therefore are unclaimed; released elements, which stay released; the    *)
(* wait for an element to be indexed, which sleeps through nothing; and    *)
(* the data: an end of stream is the true one, and success means that all  *)
(* was read.                                                               *)
(*                                                                         *)
(* None of the facts about elements is inductive alone: that a permit is   *)
(* not needed any more is decided by the count of an element, `release`    *)
(* and `skip` remove what is nested in an element because its count says   *)
(* nobody is within it, and the bound on the semaphore bounds the elements *)
(* only if every unclaimed one holds a permit.                             *)
(***************************************************************************)
EXTENDS Incoming, PatternFacts

-----------------------------------------------------------------------------
(* Types                                                                   *)

\* What ingress knows about the frame it is delivering: there is a chunk left,
\* and the slot it reserved is still there.
Sending ==
    /\ io.pc \in {"data", "send", "push"} => io.rem >= 1
    /\ io.pc = "push" => chan[io.path] < MaxChunks

TypeInv == TypeOK /\ Sending

LEMMA InitType == Init => TypeInv
<1> SUFFICES ASSUME Init PROVE TypeInv
    OBVIOUS
<1> USE NodeRoot, BoundAssumption, HandleAssumption
<1>1. SubsTypeOK
    BY DEF Init, SubsTypeOK
<1>2. HandleTypeOK
    BY DEF Init, HandleTypeOK, Free
<1>3. TaskTypeOK /\ Sending
    <2>1. io = Idle /\ task = "running" /\ err = "none" /\ failed = FALSE /\ done = "none" /\ frames = 0
        BY DEF Init
    <2>2. Idle \in [pc : Awaiting \cup {"push", "ended", "closing", "done"}, path : Node,
                    rem : 0..MaxFrameChunks, res : {"none", "ok"} \cup ErrorKind]
        BY DEF Idle, Awaiting
    <2>3. Sending
        BY <2>1 DEF Sending, Idle
    <2>4. failed \in BOOLEAN
        BY <2>1
    <2>5. /\ task \in {"running", "draining", "lingering", "finished", "aborted"}
          /\ err \in {"none"} \cup ErrorKind /\ done \in {"none", "ok", "err"}
          /\ frames \in 0..MaxFrames
        BY <2>1
    <2> QED BY <2>1, <2>2, <2>3, <2>4, <2>5 DEF TaskTypeOK
<1>4. QED
    BY <1>1, <1>2, <1>3 DEF Init, TypeInv, TypeOK

-----------------------------------------------------------------------------
\* `Remove` keeps the shape of the subscriptions, if the root is not in an
\* element.
LEMMA RemoveType ==
    ASSUME SubsTypeOK, NEW es \in SUBSET Node, NEW counts \in [Node -> Nat],
           \A e \in es : Len(e) > 0, Remove(es, counts)
    PROVE  SubsTypeOK' /\ pending' \in BOOLEAN
<1> DEFINE removed == {p \in subs : \E e \in es : StartsWith(p, e)}
<1>1. <<>> \notin removed
    BY NodeSeq DEF StartsWith
<1> QED
    BY <1>1 DEF Remove, SubsTypeOK, Notify

\* The elements `skip` removes are not the root.
LEMMA SkippedFacts ==
    ASSUME SubsTypeOK, NEW path \in Node, NEW f \in Skipped(path)
    PROVE  f \in subs /\ f \in Node /\ IsElement(f) /\ Len(f) > 0 /\ handles[f] = 0
<1>1. PICK e \in Elements[path] : Len(f) = Len(e) /\ Container(f) = Container(e)
    BY DEF Skipped
<1>2. f \in subs /\ f \in Node /\ handles[f] = 0
    BY DEF Skipped, SubsTypeOK
<1>3. IsElement(f)
    BY <1>1, <1>2, ElementFacts, ElementSibling
<1> QED
    BY <1>2, <1>3, ElementSelf

LEMMA IndexSkipType ==
    ASSUME TypeInv, NEW h \in Handle, NEW g \in Handle, NEW path \in AppPath,
           IndexSkip(h, g, path)
    PROVE  TypeInv'
<1> USE DEF TypeInv, TypeOK
<1>1. path \in Node
    BY AppPathAssumption
<1>2. Skipped(path) \in SUBSET Node /\ \A e \in Skipped(path) : Len(e) > 0
    BY <1>1, SkippedFacts
<1>3. SubsTypeOK' /\ pending' \in BOOLEAN
    BY <1>2, RemoveType DEF IndexSkip, SubsTypeOK
<1>4. HandleTypeOK'
    BY <1>1, <1>3 DEF IndexSkip, HandleTypeOK, Free
<1>5. (TaskTypeOK /\ Sending)'
    BY DEF IndexSkip, TaskTypeOK, taskVars, Sending
<1> QED
    BY <1>3, <1>4, <1>5 DEF IndexSkip, history

\* The end of a critical section: checked receivers are dropped.
LEMMA DropCheckedType ==
    ASSUME TypeInv, DropChecked, UNCHANGED io
    PROVE  chan' \in [Node -> 0..MaxChunks] /\ Sending'
<1> USE BoundAssumption DEF TypeInv, TypeOK, TaskTypeOK
<1>1. chan' \in [Node -> 0..MaxChunks]
    BY DEF DropChecked
<1>2. \A p \in Node : chan'[p] <= chan[p]
    BY DEF DropChecked
<1> QED
    BY <1>1, <1>2 DEF Sending

LEMMA FailType ==
    ASSUME TaskTypeOK, NEW found \in BOOLEAN, FailUnprocessed(found),
           UNCHANGED <<io, task, done, frames>>
    PROVE  TaskTypeOK'
BY DEF TaskTypeOK, FailUnprocessed, ErrorKind

\* Raising `next` keeps it a natural number.
LEMMA AdvanceType ==
    ASSUME SubsTypeOK, NEW path \in Node
    PROVE  Advance(Elements[path]) \in [Node -> Nat]
<1>1. ASSUME NEW p \in Node, \E e \in Elements[path] : Container(e) = p
      PROVE  Position(CHOOSE e \in Elements[path] : Container(e) = p) \in Nat
    BY <1>1, ElementFacts
<1> QED
    BY <1>1 DEF Advance, SubsTypeOK

LEMMA IndexTakeType ==
    ASSUME TypeInv, NEW h \in Handle, NEW g \in Handle, IndexTake(h, g)
    PROVE  TypeInv'
<1> USE DEF TypeInv, TypeOK
<1> DEFINE path == handle[g].path
           es == Elements[path]
<1>1. path \in Node /\ pending \in BOOLEAN
    BY DEF HandleTypeOK
<1>2. es \subseteq Node
    BY <1>1, ElementFacts
<1>3. chan' \in [Node -> 0..MaxChunks] /\ Sending'
    BY DropCheckedType DEF IndexTake
<1>4. TaskTypeOK'
    BY <1>1, FailType DEF IndexTake
<1>5. next' \in [Node -> Nat]
    BY <1>1, AdvanceType DEF IndexTake
<1>6. SubsTypeOK'
    <2>1. /\ subs' \subseteq Node /\ <<>> \in subs' /\ permit' \subseteq subs'
          /\ handles' \in [Node -> Nat]
          /\ unclaimed' \in {"open", "closed"} /\ indexed' \in BOOLEAN /\ closed' \in BOOLEAN
        BY <1>1, <1>2 DEF IndexTake, SubsTypeOK, Claim, Notify
    <2>2. tx' \in [Node -> {"none", "open", "closed"}]
        BY DEF IndexTake, SubsTypeOK, SubscribedTx
    <2>3. rx' \in [Node -> {"none", "sub", "taken", "checked", "gone"}]
        BY <1>1 DEF IndexTake, SubsTypeOK, SubscribedRx, Settled
    <2> QED BY <1>5, <2>1, <2>2, <2>3 DEF SubsTypeOK
<1>7. HandleTypeOK'
    <2> DEFINE taken == IsDeclared[path] /\ (path \notin subs \/ rx[path] = "sub")
    <2>1. taken \in BOOLEAN
        BY <1>1 DEF IsDeclared
    <2>2. handle' = [handle EXCEPT ![h].st = "live", ![g].st = "live", ![g].rx = taken]
        BY DEF IndexTake
    <2>3. h # g /\ lock' = Nobody /\ pending' = FALSE
        BY DEF IndexTake
    <2> HIDE DEF taken
    <2>4. handle' = [x \in Handle |-> IF x = g THEN [handle[g] EXCEPT !.st = "live", !.rx = taken]
                                     ELSE IF x = h THEN [handle[h] EXCEPT !.st = "live"]
                                     ELSE handle[x]]
        BY <2>2, <2>3 DEF HandleTypeOK
    <2> QED BY <2>1, <2>3, <2>4 DEF HandleTypeOK
<1> QED
    BY <1>3, <1>4, <1>6, <1>7 DEF IndexTake, history

LEMMA IndexNotFoundType ==
    ASSUME TypeInv, NEW h \in Handle, NEW g \in Handle, IndexNotFound(h, g)
    PROVE  TypeInv'
<1> USE DEF TypeInv, TypeOK
<1>1. pending \in BOOLEAN
    BY DEF HandleTypeOK
<1>2. chan' \in [Node -> 0..MaxChunks] /\ Sending'
    BY DropCheckedType DEF IndexNotFound
<1>3. TaskTypeOK'
    BY <1>1, FailType DEF IndexNotFound
<1>4. SubsTypeOK'
    BY DEF IndexNotFound, SubsTypeOK, Settled
<1>5. HandleTypeOK'
    BY NodeRoot DEF IndexNotFound, HandleTypeOK, Free
<1> QED
    BY <1>2, <1>3, <1>4, <1>5 DEF IndexNotFound, history

LEMMA TakeReaderType ==
    ASSUME TypeInv, NEW h \in Handle, NEW g \in Handle, TakeReader(h, g)
    PROVE  TypeInv'
<1> USE DEF TypeInv, TypeOK
<1>1. SubsTypeOK'
    BY DEF TakeReader, SubsTypeOK, Retain
<1>2. HandleTypeOK'
    <2>1. /\ handle' = [handle EXCEPT ![g] = handle[h], ![h].rx = FALSE, ![h].chunk = FALSE]
          /\ g # h
        BY DEF TakeReader
    <2>2. handle' = [x \in Handle |-> IF x = g THEN handle[h]
                                     ELSE IF x = h THEN [handle[h] EXCEPT !.rx = FALSE, !.chunk = FALSE]
                                     ELSE handle[x]]
        BY <2>1 DEF HandleTypeOK
    <2>3. UNCHANGED lockVars
        BY DEF TakeReader
    <2> QED BY <2>2, <2>3 DEF HandleTypeOK, lockVars
<1>3. TaskTypeOK' /\ Sending'
    BY DEF TakeReader, taskVars, TaskTypeOK, Sending
<1> QED
    BY <1>1, <1>2, <1>3 DEF TakeReader, history

LEMMA ReadType ==
    ASSUME TypeInv, NEW h \in Handle, ReadChunk(h) \/ ReadRest(h) \/ ReadEnd(h)
    PROVE  TypeInv'
<1> USE BoundAssumption DEF TypeInv, TypeOK
<1>1. CASE ReadChunk(h)
    <2>1. SubsTypeOK' /\ TaskTypeOK'
        BY <1>1 DEF ReadChunk, subsVars, taskVars, SubsTypeOK, TaskTypeOK
    <2>2. HandleTypeOK'
        BY <1>1 DEF ReadChunk, HandleTypeOK, lockVars
    <2>3. chan' \in [Node -> 0..MaxChunks] /\ Sending'
        BY <1>1 DEF ReadChunk, HandleTypeOK, TaskTypeOK, taskVars, Sending
    <2> QED BY <1>1, <2>1, <2>2, <2>3 DEF ReadChunk, history
<1>2. CASE ReadRest(h)
    <2>1. SubsTypeOK' /\ TaskTypeOK' /\ Sending'
        BY <1>2 DEF ReadRest, subsVars, taskVars, SubsTypeOK, TaskTypeOK, Sending
    <2>2. HandleTypeOK'
        BY <1>2 DEF ReadRest, HandleTypeOK, lockVars
    <2> QED BY <1>2, <2>1, <2>2 DEF ReadRest, HandleTypeOK
<1>3. CASE ReadEnd(h)
    <2>1. SubsTypeOK'
        BY <1>3 DEF ReadEnd, SubsTypeOK, HandleTypeOK
    <2>2. TaskTypeOK' /\ Sending'
        BY <1>3 DEF ReadEnd, taskVars, TaskTypeOK, Sending
    <2>3. HandleTypeOK'
        BY <1>3 DEF ReadEnd, HandleTypeOK, lockVars
    <2> QED BY <1>3, <2>1, <2>2, <2>3 DEF ReadEnd, history
<1> QED BY <1>1, <1>2, <1>3

LEMMA DropCloseType ==
    ASSUME TypeInv, NEW h \in Handle, DropClose(h)
    PROVE  TypeInv'
<1> USE BoundAssumption DEF TypeInv, TypeOK
<1>1. handle[h].path \in Node /\ handle[h].rx \in BOOLEAN /\ handle[h].chunk \in BOOLEAN
    BY DEF HandleTypeOK
<1>2. TaskTypeOK'
    BY <1>1, FailType DEF DropClose
<1>3. SubsTypeOK'
    BY <1>1 DEF DropClose, SubsTypeOK
<1>4. HandleTypeOK'
    BY <1>1, NodeRoot DEF DropClose, HandleTypeOK, Free, lockVars
<1>5. chan' \in [Node -> 0..MaxChunks] /\ Sending'
    BY <1>1 DEF DropClose, TaskTypeOK, Sending
<1> QED
    BY <1>2, <1>3, <1>4, <1>5 DEF DropClose, history

LEMMA DropReleaseType ==
    ASSUME TypeInv, NEW h \in Handle, DropRelease(h)
    PROVE  TypeInv'
<1> USE DEF TypeInv, TypeOK
<1> DEFINE es == Elements[handle[h].path]
           stops == {e \in es : e \notin subs \/ handles[e] <= 1}
           gone == IF stops # {} /\ Outermost(stops) \in subs THEN {Outermost(stops)} ELSE {}
           counts == [p \in Node |->
                        IF p \in es /\ \A e \in stops : Len(p) < Len(e)
                        THEN handles[p] - 1 ELSE handles[p]]
<1>1. handle[h].path \in Node
    BY DEF HandleTypeOK
<1>2. \A e \in es : e \in Node /\ Len(e) \in Nat /\ Len(e) > 0
    BY <1>1, ElementFacts, NodeSeq
<1>3. gone \in SUBSET Node /\ \A e \in gone : Len(e) > 0
    <2>1. stops # {} => Outermost(stops) \in es
        BY <1>1, OutermostElement
    <2> QED BY <1>2, <2>1
<1>4. counts \in [Node -> Nat]
    <2> SUFFICES ASSUME NEW p \in Node, p \in es, \A e \in stops : Len(p) < Len(e)
                 PROVE  handles[p] - 1 \in Nat
        BY DEF SubsTypeOK
    <2>1. p \notin stops
        BY <1>2
    <2>2. handles[p] \in Nat /\ ~(handles[p] <= 1)
        BY <2>1 DEF SubsTypeOK
    <2> QED BY <2>2
<1>5. Remove(gone, counts)
    BY DEF DropRelease
<1>6. SubsTypeOK' /\ pending' \in BOOLEAN
    BY <1>3, <1>4, <1>5, RemoveType
<1>7. HandleTypeOK'
    BY <1>6 DEF DropRelease, HandleTypeOK
<1>8. TaskTypeOK' /\ Sending'
    BY DEF DropRelease, taskVars, TaskTypeOK, Sending
<1> QED
    BY <1>6, <1>7, <1>8 DEF DropRelease, history

LEMMA DropFinishType ==
    ASSUME TypeInv, NEW h \in Handle, DropFinish(h)
    PROVE  TypeInv'
<1> USE DEF TypeInv, TypeOK
<1>1. pending \in BOOLEAN
    BY DEF HandleTypeOK
<1>2. chan' \in [Node -> 0..MaxChunks] /\ Sending'
    BY DropCheckedType DEF DropFinish
<1>3. TaskTypeOK'
    BY <1>1, FailType DEF DropFinish
<1>4. SubsTypeOK'
    BY DEF DropFinish, SubsTypeOK, Settled
<1>5. HandleTypeOK'
    BY NodeRoot DEF DropFinish, HandleTypeOK, Free
<1> QED
    BY <1>2, <1>3, <1>4, <1>5 DEF DropFinish, history
-----------------------------------------------------------------------------
\* Steps of the `io` future: what it may become.
IoRecord == [pc : Awaiting \cup {"push", "ended", "closing", "done"}, path : Node,
             rem : 0..MaxFrameChunks, res : {"none", "ok"} \cup ErrorKind]

LEMMA IdleIo == Idle \in IoRecord
BY NodeRoot, BoundAssumption DEF Idle, IoRecord, Awaiting

LEMMA ReturnType ==
    ASSUME TypeInv, NEW res \in {"ok"} \cup ErrorKind, Return(res),
           UNCHANGED <<subsVars, lockVars, chan, handle, task, err, done, history>>,
           failed' \in BOOLEAN, frames' \in 0..MaxFrames
    PROVE  TypeInv'
<1> USE DEF TypeInv, TypeOK
<1>1. io' \in IoRecord /\ io'.pc = "ended"
    BY IdleIo DEF Return, IoRecord
<1>2. TaskTypeOK' /\ Sending'
    BY <1>1 DEF TaskTypeOK, Sending, IoRecord
<1>3. SubsTypeOK'
    BY DEF SubsTypeOK, subsVars
<1>4. HandleTypeOK'
    BY DEF HandleTypeOK, lockVars
<1> QED
    BY <1>2, <1>3, <1>4 DEF history

\* The unsubscribed elements around a path, outermost first.
LEMMA MissingFacts ==
    ASSUME NEW path \in Node, NEW missing, missing \subseteq Elements[path], missing # {}
    PROVE  /\ Outermost(missing) \in missing /\ Outermost(missing) \in Node
           /\ IsElement(Outermost(missing))
BY OutermostElement, ElementFacts

LEMMA RouteType ==
    ASSUME TypeInv, NEW path \in Node, NEW n \in 0..MaxFrameChunks, NEW granted \in BOOLEAN,
           Route(path, n, granted), IngressUnchanged,
           indexed' \in BOOLEAN, UNCHANGED failed, frames' \in 0..MaxFrames
    PROVE  TypeInv'
<1> USE DEF TypeInv, TypeOK
<1> DEFINE found == path \in subs /\ tx[path] # "none"
           missing == IF found THEN {} ELSE Elements[path] \ subs
           first == Outermost(missing)
           blocked == missing # {} /\ (~granted \/ missing # {first})
           opened == IF granted /\ missing # {} THEN {first} ELSE {}
           sub == IF blocked THEN opened ELSE opened \cup {path}
<1>0. failed' \in BOOLEAN /\ frames' \in 0..MaxFrames
    BY DEF TaskTypeOK
<1>1. HandleTypeOK' /\ chan' = chan /\ UNCHANGED <<task, err, done, history>>
    BY DEF IngressUnchanged, HandleTypeOK, lockVars
<1>2. opened \subseteq Node /\ sub \subseteq Node /\ opened \subseteq sub
    BY MissingFacts
<1>3. CASE /\ \E res \in ErrorKind : Return(res)
           /\ UNCHANGED <<subs, tx, rx, handles, permit, next, unclaimed, closed>>
    <2>1. PICK res \in ErrorKind : Return(res)
        BY <1>3
    <2>2. io' \in IoRecord /\ io'.pc = "ended"
        BY <2>1, IdleIo DEF Return, IoRecord
    <2>3. TaskTypeOK' /\ Sending'
        BY <1>0, <1>1, <2>2 DEF TaskTypeOK, Sending, IoRecord
    <2>4. SubsTypeOK'
        BY <1>3 DEF SubsTypeOK
    <2> QED BY <1>1, <2>3, <2>4 DEF history
<1>4. CASE /\ io' = [pc |-> IF blocked THEN "wait" ELSE IF n = 0 THEN "header" ELSE "data",
                      path |-> IF ~blocked /\ n = 0 THEN <<>> ELSE path,
                      rem |-> n, res |-> "none"]
           /\ subs' = subs \cup sub
           /\ tx' = IF ~blocked /\ n = 0 THEN [SubscribedTx(sub) EXCEPT ![path] = "closed"]
                                         ELSE SubscribedTx(sub)
           /\ rx' = SubscribedRx(sub)
           /\ permit' = permit \cup opened
           /\ UNCHANGED <<handles, next, unclaimed, closed>>
    <2> HIDE DEF blocked, sub, opened
    <2>1. io' \in IoRecord /\ io'.pc # "push" /\ (io'.pc \in {"data", "send"} => io'.rem >= 1)
        BY <1>4, NodeRoot, BoundAssumption DEF IoRecord, Awaiting
    <2>2. TaskTypeOK' /\ Sending'
        BY <1>0, <1>1, <2>1 DEF TaskTypeOK, Sending, IoRecord
    <2>3. tx' \in [Node -> {"none", "open", "closed"}]
        BY <1>4 DEF SubscribedTx, SubsTypeOK
    <2>4. rx' \in [Node -> {"none", "sub", "taken", "checked", "gone"}]
        BY <1>4 DEF SubscribedRx, SubsTypeOK
    <2>5. SubsTypeOK'
        BY <1>2, <1>4, <2>3, <2>4 DEF SubsTypeOK
    <2> QED BY <1>1, <2>2, <2>5 DEF history
<1> QED BY <1>3, <1>4 DEF Route, ErrorKind

LEMMA IngressType ==
    ASSUME TypeInv, PeerStep \/ IngressStep \/ Abort
    PROVE  TypeInv'
<1> USE BoundAssumption DEF TypeInv, TypeOK
<1>0. failed \in BOOLEAN /\ frames \in 0..MaxFrames /\ indexed \in BOOLEAN
    BY DEF TaskTypeOK, SubsTypeOK
<1>1. ASSUME NEW path \in WirePath, NEW n \in 0..MaxFrameChunks, IngressFrame(path, n)
      PROVE  TypeInv'
    <2>1. path \in Node /\ frames' \in 0..MaxFrames /\ UNCHANGED <<indexed, failed>>
        BY <1>0, <1>1 DEF IngressFrame
    <2> QED BY <1>0, <1>1, <2>1, RouteType DEF IngressFrame
<1>2. ASSUME NEW path \in WirePath, IngressUnknown(path)
      PROVE  TypeInv'
    <2>1. frames' \in 0..MaxFrames /\ failed' \in BOOLEAN
        BY <1>0, <1>2 DEF IngressUnknown
    <2> QED BY <1>2, <2>1, ReturnType DEF IngressUnknown, IngressUnchanged, ErrorKind
<1>3. CASE IngressPermit
    <2>1. io.path \in Node /\ io.rem \in 0..MaxFrameChunks
        BY DEF TaskTypeOK
    <2> QED BY <1>0, <1>3, <2>1, RouteType DEF IngressPermit
<1>4. CASE IngressIndexed
    <2>1. io.path \in Node /\ io.rem \in 0..MaxFrameChunks
        BY DEF TaskTypeOK
    <2> QED BY <1>0, <1>4, <2>1, RouteType DEF IngressIndexed
<1>5. CASE IngressClosed \/ IngressEnd \/ IngressBroken \/ IngressFailed
    <2>1. failed' \in BOOLEAN /\ frames' \in 0..MaxFrames
        BY <1>0, <1>5 DEF IngressClosed, IngressEnd, IngressBroken, IngressFailed
    <2>2. \E res \in {"ok"} \cup ErrorKind : Return(res)
        BY <1>5 DEF IngressClosed, IngressEnd, IngressBroken, IngressFailed, ErrorKind
    <2> QED BY <1>5, <2>1, <2>2, ReturnType
            DEF IngressClosed, IngressEnd, IngressBroken, IngressFailed, IngressUnchanged
<1>6. CASE IngressData
    <2>1. io' \in IoRecord /\ io'.pc = "send" /\ io'.rem = io.rem
        BY <1>6 DEF IngressData, TaskTypeOK, IoRecord, Awaiting
    <2>2. TaskTypeOK' /\ Sending'
        BY <1>6, <2>1 DEF IngressData, IngressUnchanged, TaskTypeOK, Sending, IoRecord
    <2>3. SubsTypeOK' /\ HandleTypeOK'
        BY <1>6 DEF IngressData, IngressUnchanged, SubsTypeOK, HandleTypeOK, subsVars, lockVars
    <2> QED BY <1>6, <2>2, <2>3 DEF IngressData, IngressUnchanged, history
<1>7. CASE IngressReserve
    <2>1. CASE Return("broken_pipe")
        BY <1>0, <1>7, <2>1, ReturnType DEF IngressReserve, IngressUnchanged, ErrorKind
    <2>2. CASE /\ HasRoom(io.path) /\ io' = [io EXCEPT !.pc = "push"]
        <3>1. io' \in IoRecord /\ io'.rem = io.rem /\ io'.path = io.path
            BY <2>2 DEF TaskTypeOK, IoRecord
        <3>2. TaskTypeOK'
            BY <1>7, <3>1 DEF IngressReserve, IngressUnchanged, TaskTypeOK, IoRecord
        <3>3. Sending'
            BY <1>7, <2>2, <3>1 DEF IngressReserve, IngressUnchanged, Sending, HasRoom
        <3>4. SubsTypeOK' /\ HandleTypeOK'
            BY <1>7 DEF IngressReserve, IngressUnchanged, SubsTypeOK, HandleTypeOK, subsVars, lockVars
        <3> QED BY <1>7, <3>2, <3>3, <3>4 DEF IngressReserve, IngressUnchanged, history
    <2> QED BY <1>7, <2>1, <2>2 DEF IngressReserve
<1>8. CASE IngressPush
    <2>1. io.path \in Node /\ io.rem \in 1..MaxFrameChunks /\ chan[io.path] < MaxChunks
        BY <1>8 DEF IngressPush, TaskTypeOK, Sending
    <2>2. io' \in IoRecord /\ io'.pc # "push" /\ (io'.pc \in {"data", "send"} => io'.rem >= 1)
        <3>1. CASE io.rem = 1
            BY <1>8, <3>1, IdleIo DEF IngressPush, Idle
        <3>2. CASE io.rem # 1
            <4>1. io' = [io EXCEPT !.pc = "data", !.rem = io.rem - 1]
                BY <1>8, <3>2 DEF IngressPush
            <4>2. io \in IoRecord /\ io.rem - 1 \in 1..MaxFrameChunks
                BY <2>1, <3>2 DEF TaskTypeOK, IoRecord
            <4>3. io' = [pc |-> "data", path |-> io.path, rem |-> io.rem - 1, res |-> io.res]
                BY <4>1, <4>2 DEF IoRecord
            <4> QED BY <4>2, <4>3 DEF IoRecord, Awaiting
        <3> QED BY <3>1, <3>2
    <2>3. TaskTypeOK' /\ Sending'
        BY <1>8, <2>2 DEF IngressPush, TaskTypeOK, Sending, IoRecord
    <2>4. chan' \in [Node -> 0..MaxChunks]
        BY <1>8, <2>1 DEF IngressPush
    <2>5. unread' \in [Node -> Int] /\ raced' \subseteq Node /\ drained' \subseteq Node
        BY <1>8, <2>1 DEF IngressPush
    <2>6. SubsTypeOK' /\ HandleTypeOK'
        BY <1>8 DEF IngressPush, SubsTypeOK, HandleTypeOK, subsVars, lockVars
    <2> QED BY <2>3, <2>4, <2>5, <2>6
<1>9. CASE SetErr
    <2>1. io' \in IoRecord /\ io'.pc = "closing"
        BY <1>9 DEF SetErr, TaskTypeOK, IoRecord
    <2>2. err' \in {"none"} \cup ErrorKind
        BY <1>9 DEF SetErr, TaskTypeOK, ErrorKind
    <2>3. TaskTypeOK' /\ Sending'
        BY <1>9, <2>1, <2>2 DEF SetErr, TaskTypeOK, Sending, IoRecord
    <2>4. SubsTypeOK' /\ HandleTypeOK'
        BY <1>9 DEF SetErr, SubsTypeOK, HandleTypeOK, subsVars, lockVars
    <2> QED BY <1>9, <2>3, <2>4 DEF SetErr, history
<1>10. CASE CloseTx
    <2>1. io' \in IoRecord /\ io'.pc = "done"
        BY <1>10 DEF CloseTx, TaskTypeOK, IoRecord
    <2>2. TaskTypeOK' /\ Sending'
        BY <1>10, <2>1 DEF CloseTx, TaskTypeOK, Sending, IoRecord
    <2>3. SubsTypeOK'
        BY <1>10 DEF CloseTx, CloseSenders, SubsTypeOK
    <2>4. HandleTypeOK'
        BY <1>10 DEF CloseTx, HandleTypeOK, lockVars
    <2> QED BY <1>10, <2>2, <2>3, <2>4 DEF CloseTx, history
<1>11. CASE CloseRx
    <2>1. TaskTypeOK'
        BY <1>11 DEF CloseRx, TaskTypeOK
    <2>2. chan' \in [Node -> 0..MaxChunks] /\ io' = io
        BY <1>11 DEF CloseRx, CloseReceivers
    <2>3. Sending'
        BY <1>11, <2>2 DEF CloseRx, CloseReceivers, Sending, TaskTypeOK, Awaiting
    <2>4. SubsTypeOK'
        BY <1>11 DEF CloseRx, CloseReceivers, SubsTypeOK
    <2>5. HandleTypeOK'
        BY <1>11 DEF CloseRx, HandleTypeOK, lockVars
    <2> QED BY <1>11, <2>1, <2>2, <2>3, <2>4, <2>5 DEF CloseRx, history
<1>12. CASE Abort
    <2>1. TaskTypeOK' /\ Sending'
        BY <1>12 DEF Abort, TaskTypeOK, Sending
    <2>2. SubsTypeOK' /\ HandleTypeOK'
        BY <1>12 DEF Abort, SubsTypeOK, HandleTypeOK, subsVars, lockVars
    <2> QED BY <1>12, <2>1, <2>2 DEF Abort, history
<1> QED
    BY <1>1, <1>2, <1>3, <1>4, <1>5, <1>6, <1>7, <1>8, <1>9, <1>10, <1>11, <1>12
    DEF PeerStep, IngressStep

LEMMA NextType == TypeInv /\ [Next]_vars => TypeInv'
<1> SUFFICES ASSUME TypeInv, [Next]_vars
             PROVE  TypeInv'
    OBVIOUS
<1>1. ASSUME NEW h \in Handle, HandleStep(h)
      PROVE  TypeInv'
    BY <1>1, IndexSkipType, IndexTakeType, IndexNotFoundType, TakeReaderType, ReadType,
       DropCloseType, DropReleaseType, DropFinishType
    DEF HandleStep, ReadEof, ReadError
<1>2. CASE PeerStep \/ IngressStep \/ Abort
    BY <1>2, IngressType
<1>3. CASE UNCHANGED vars
    <2> USE <1>3 DEF vars, TypeInv, TypeOK
    <2>1. SubsTypeOK'
        BY DEF subsVars, SubsTypeOK
    <2>2. HandleTypeOK'
        BY DEF lockVars, HandleTypeOK
    <2>3. TaskTypeOK' /\ Sending'
        BY DEF taskVars, TaskTypeOK, Sending
    <2> QED BY <2>1, <2>2, <2>3 DEF history
<1> QED BY <1>1, <1>2, <1>3 DEF Next

\* Every behaviour keeps the shape of the state: in particular no channel
\* exceeds its capacity, though `tx.send` reserves and pushes in two steps
\* while handles read, close and drop the channel in between.
THEOREM TypeCorrect == Spec => []TypeOK
<1>1. Init => TypeInv
    BY InitType
<1>2. TypeInv /\ [Next]_vars => TypeInv'
    BY NextType
<1>3. TypeInv => TypeOK
    BY DEF TypeInv
<1> QED BY <1>1, <1>2, <1>3, PTL DEF Spec

-----------------------------------------------------------------------------
(* Elements                                                                *)

PermitBound == IsFiniteSet(permit) /\ Cardinality(permit) <= MaxUnclaimed

ElementInv == TypeInv /\ HandlesCounted /\ PermitIffUnclaimed /\ PermitBound

\* The handles counted for an element are finitely many, and what is counted
\* for an element is counted for the elements around it.
LEMMA CountedFinite ==
    ASSUME NEW e
    PROVE  IsFiniteSet(Counted(e))
<1>1. Counted(e) \subseteq Handle
    BY DEF Counted
<1> QED BY <1>1, HandleAssumption, FS_Subset

LEMMA CountedNested ==
    ASSUME HandleTypeOK, NEW e \in Node, NEW f \in Node, IsElement(f), StartsWith(e, f)
    PROVE  Counted(e) \subseteq Counted(f)
<1> SUFFICES ASSUME NEW h \in Handle, e \in Elements[handle[h].path]
             PROVE  f \in Elements[handle[h].path]
    BY DEF Counted
<1>1. handle[h].path \in Node
    BY DEF HandleTypeOK
<1> QED BY <1>1, ElementTrans

\* A count of zero means no handle, and a count of one a single handle.
LEMMA CountedZero ==
    ASSUME HandlesCounted, NEW e \in Node, IsElement(e)
    PROVE  /\ handles[e] = 0 <=> Counted(e) = {}
           /\ handles[e] \in Nat
<1>1. handles[e] = Cardinality(Counted(e))
    BY DEF HandlesCounted
<1> QED BY <1>1, CountedFinite, FS_EmptySet, FS_CardinalityType

LEMMA CountedOne ==
    ASSUME HandlesCounted, NEW e \in Node, IsElement(e), handles[e] <= 1, NEW h \in Counted(e)
    PROVE  Counted(e) = {h}
<1>1. handles[e] = Cardinality(Counted(e)) /\ handles[e] \in Nat /\ handles[e] # 0
    BY CountedZero DEF HandlesCounted
<1> DEFINE S == Counted(e)
<1> HIDE DEF S
<1>2. IsFiniteSet(S) /\ h \in S /\ Cardinality(S) = 1
    BY <1>1, CountedFinite DEF S
<1>3. Cardinality(S \ {h}) = 0 /\ IsFiniteSet(S \ {h})
    BY <1>2, FS_RemoveElement
<1>4. S \ {h} = {}
    BY <1>3, FS_EmptySet
<1> QED BY <1>2, <1>4 DEF S

\* A smaller set of permits is within the bound.
LEMMA FewerPermits ==
    ASSUME PermitBound, permit' \subseteq permit
    PROVE  PermitBound'
<1>1. IsFiniteSet(permit') /\ Cardinality(permit') <= Cardinality(permit)
    BY FS_Subset DEF PermitBound
<1> QED
    BY <1>1, FS_CardinalityType, BoundAssumption DEF PermitBound

\* Steps that leave the elements and the handles within them alone.
LEMMA SameElements ==
    ASSUME ElementInv, UNCHANGED <<subs, handles, permit>>, \A e \in Node : Counted(e)' = Counted(e)
    PROVE  (HandlesCounted /\ PermitIffUnclaimed /\ PermitBound)'
<1>1. HandlesCounted'
    BY DEF ElementInv, HandlesCounted
<1>2. (PermitIffUnclaimed /\ PermitBound)'
    BY DEF ElementInv, PermitIffUnclaimed, Unclaimed, PermitBound
<1> QED BY <1>1, <1>2

-----------------------------------------------------------------------------
\* `index` removes only elements nobody is within.
LEMMA IndexSkipElements ==
    ASSUME ElementInv, NEW h \in Handle, NEW g \in Handle, NEW path \in AppPath,
           IndexSkip(h, g, path)
    PROVE  (HandlesCounted /\ PermitIffUnclaimed /\ PermitBound)'
<1> USE DEF ElementInv, TypeInv, TypeOK
<1> DEFINE removed == {p \in subs : \E f \in Skipped(path) : StartsWith(p, f)}
<1>1. /\ subs' = subs \ removed /\ permit' = permit \ removed
      /\ handles' = [p \in Node |-> IF p \in removed THEN 0 ELSE handles[p]]
    BY DEF IndexSkip, Remove
<1>2. path \in Node
    BY AppPathAssumption
<1>3. \A e \in Node : Counted(e)' = Counted(e)
    <2>1. handle' = [x \in Handle |-> IF x = g THEN [Free EXCEPT !.st = "new", !.path = path]
                                      ELSE IF x = h THEN [handle[h] EXCEPT !.st = "indexing"]
                                      ELSE handle[x]]
        BY DEF IndexSkip, HandleTypeOK
    <2>2. handle[h].st = "live" /\ handle[g].st = "free"
        BY DEF IndexSkip
    <2>3. \A x \in Handle : /\ handle'[x].st \in {"live", "indexing", "dropping"}
                               <=> handle[x].st \in {"live", "indexing", "dropping"}
                            /\ x # g => handle'[x].path = handle[x].path
        BY <2>1, <2>2 DEF Free, HandleTypeOK
    <2> QED BY <2>2, <2>3 DEF Counted
<1>4. ASSUME NEW e \in Node, IsElement(e), e \in removed
      PROVE  Counted(e) = {}
    <2>1. PICK f \in Skipped(path) : StartsWith(e, f)
        BY <1>4
    <2>2. f \in Node /\ IsElement(f) /\ handles[f] = 0
        BY <1>2, SkippedFacts
    <2>3. Counted(f) = {}
        BY <2>2, CountedZero
    <2> QED BY <2>1, <2>2, <2>3, CountedNested
<1> HIDE DEF removed
<1>5. HandlesCounted'
    <2> SUFFICES ASSUME NEW e \in Node, IsElement(e)
                 PROVE  handles'[e] = Cardinality(Counted(e)) /\ (Counted(e) # {} => e \in subs')
        BY <1>3 DEF HandlesCounted
    <2>1. CASE e \in removed
        BY <1>1, <1>4, <2>1, FS_EmptySet
    <2>2. CASE e \notin removed
        BY <1>1, <2>2 DEF HandlesCounted
    <2> QED BY <2>1, <2>2
<1>6. PermitIffUnclaimed'
    BY <1>1 DEF PermitIffUnclaimed, Unclaimed, SubsTypeOK
<1>7. PermitBound'
    BY <1>1, FewerPermits
<1> QED BY <1>5, <1>6, <1>7

LEMMA IndexTakeElements ==
    ASSUME ElementInv, NEW h \in Handle, NEW g \in Handle, IndexTake(h, g)
    PROVE  (HandlesCounted /\ PermitIffUnclaimed /\ PermitBound)'
<1> USE DEF ElementInv, TypeInv, TypeOK
<1> DEFINE path == handle[g].path
           es == Elements[path]
           new == IF IsDeclared[path] THEN es \cup {path} ELSE es
           taken == IsDeclared[path] /\ (path \notin subs \/ rx[path] = "sub")
<1>1. /\ subs' = subs \cup new /\ permit' = permit \ es
      /\ handles' = [p \in Node |-> IF p \in es THEN handles[p] + 1 ELSE handles[p]]
    BY DEF IndexTake, Claim
<1>2. path \in Node
    BY DEF HandleTypeOK
<1>3. \A e \in Node : Counted(e)' = IF e \in es THEN Counted(e) \cup {g} ELSE Counted(e)
    <2>1. /\ handle' = [handle EXCEPT ![h].st = "live", ![g].st = "live", ![g].rx = taken]
          /\ handle[h].st = "indexing" /\ handle[g].st = "new"
        BY DEF IndexTake
    <2> HIDE DEF taken
    <2>2. handle' = [x \in Handle |-> IF x = g THEN [handle[g] EXCEPT !.st = "live", !.rx = taken]
                                      ELSE IF x = h THEN [handle[h] EXCEPT !.st = "live"]
                                      ELSE handle[x]]
        BY <2>1 DEF HandleTypeOK
    <2>3. \A x \in Handle : /\ handle'[x].st \in {"live", "indexing", "dropping"}
                               <=> (x = g \/ handle[x].st \in {"live", "indexing", "dropping"})
                            /\ handle'[x].path = handle[x].path
        BY <2>1, <2>2 DEF HandleTypeOK
    <2> QED BY <2>1, <2>3 DEF Counted
<1>4. \A e \in Node : g \notin Counted(e)
    BY DEF Counted, IndexTake
<1>5. \A e \in es : e \in Node /\ IsElement(e) /\ e \in subs'
    BY <1>1, <1>2, ElementFacts
<1>6. IsElement(path) => path \in es
    BY <1>2, ElementSelf
<1> HIDE DEF es
<1>7. HandlesCounted'
    <2> SUFFICES ASSUME NEW e \in Node, IsElement(e)
                 PROVE  handles'[e] = Cardinality(Counted(e)') /\ (Counted(e)' # {} => e \in subs')
        BY DEF HandlesCounted
    <2> DEFINE S == Counted(e)
    <2>1. IsFiniteSet(S) /\ g \notin S /\ handles[e] = Cardinality(S) /\ (S # {} => e \in subs)
        BY <1>4, CountedFinite DEF HandlesCounted
    <2>2. Counted(e)' = IF e \in es THEN S \cup {g} ELSE S
        BY <1>3
    <2> HIDE DEF S
    <2>3. CASE e \in es
        <3>1. Cardinality(S \cup {g}) = Cardinality(S) + 1
            BY <2>1, FS_AddElement
        <3> QED BY <1>1, <1>5, <2>1, <2>2, <2>3, <3>1
    <2>4. CASE e \notin es
        BY <1>1, <2>1, <2>2, <2>4
    <2> QED BY <2>3, <2>4
<1>8. PermitIffUnclaimed'
    <2>1. ASSUME NEW e \in es PROVE handles'[e] # 0
        BY <1>1, <1>5, CountedZero
    <2> SUFFICES ASSUME NEW e
                 PROVE  e \in permit' <=> (e \in subs' /\ IsElement(e) /\ handles'[e] = 0)
        BY DEF PermitIffUnclaimed, Unclaimed
    <2>2. CASE e \in es
        BY <1>1, <2>1, <2>2
    <2>3. CASE e \notin es
        <3>1. e \in subs' /\ IsElement(e) => e \in subs
            BY <1>1, <1>6, <2>3
        <3>2. e \in permit' <=> e \in permit
            BY <1>1, <2>3
        <3>3. e \in subs => e \in subs' /\ handles'[e] = handles[e]
            BY <1>1, <2>3 DEF SubsTypeOK
        <3> QED BY <3>1, <3>2, <3>3 DEF PermitIffUnclaimed, Unclaimed
    <2> QED BY <2>2, <2>3
<1>9. PermitBound'
    BY <1>1, FewerPermits
<1> QED BY <1>7, <1>8, <1>9

LEMMA TakeReaderElements ==
    ASSUME ElementInv, NEW h \in Handle, NEW g \in Handle, TakeReader(h, g)
    PROVE  (HandlesCounted /\ PermitIffUnclaimed /\ PermitBound)'
<1> USE DEF ElementInv, TypeInv, TypeOK
<1> DEFINE es == Elements[handle[h].path]
<1>1. /\ subs' = subs /\ permit' = permit
      /\ handles' = [p \in Node |-> IF p \in es \cap subs THEN handles[p] + 1 ELSE handles[p]]
    BY DEF TakeReader, Retain
<1>2. handle[h].path \in Node
    BY DEF HandleTypeOK
<1>3. \A e \in Node : Counted(e)' = IF e \in es THEN Counted(e) \cup {g} ELSE Counted(e)
    <2>1. /\ handle' = [handle EXCEPT ![g] = handle[h], ![h].rx = FALSE, ![h].chunk = FALSE]
          /\ handle[h].st = "live" /\ handle[g].st = "free"
        BY DEF TakeReader
    <2>2. handle' = [x \in Handle |-> IF x = g THEN handle[h]
                                     ELSE IF x = h THEN [handle[h] EXCEPT !.rx = FALSE, !.chunk = FALSE]
                                     ELSE handle[x]]
        BY <2>1 DEF HandleTypeOK
    <2>3. \A x \in Handle : /\ handle'[x].st = IF x = g THEN "live" ELSE handle[x].st
                            /\ handle'[x].path = IF x = g THEN handle[h].path ELSE handle[x].path
        BY <2>1, <2>2 DEF HandleTypeOK
    <2>4. ASSUME NEW e \in Node, NEW x \in Handle
          PROVE  x \in Counted(e)' <=> x \in Counted(e) \/ (e \in es /\ x = g)
        <3>1. CASE x = g
            BY <2>1, <2>3, <3>1 DEF Counted
        <3>2. CASE x # g
            BY <2>3, <3>2 DEF Counted
        <3> QED BY <3>1, <3>2
    <2>5. \A e \in Node : Counted(e) \subseteq Handle /\ Counted(e)' \subseteq Handle
        BY DEF Counted
    <2> QED BY <2>4, <2>5
<1>4. \A e \in Node : g \notin Counted(e) /\ (e \in es => h \in Counted(e))
    BY DEF Counted, TakeReader
<1>5. \A e \in es : e \in Node /\ IsElement(e) /\ e \in subs
    BY <1>2, <1>4, ElementFacts DEF HandlesCounted
<1> HIDE DEF es
<1>6. HandlesCounted'
    <2> SUFFICES ASSUME NEW e \in Node, IsElement(e)
                 PROVE  handles'[e] = Cardinality(Counted(e)') /\ (Counted(e)' # {} => e \in subs')
        BY DEF HandlesCounted
    <2> DEFINE S == Counted(e)
    <2>1. IsFiniteSet(S) /\ g \notin S /\ handles[e] = Cardinality(S) /\ (S # {} => e \in subs)
        BY <1>4, CountedFinite DEF HandlesCounted
    <2>2. Counted(e)' = IF e \in es THEN S \cup {g} ELSE S
        BY <1>3
    <2> HIDE DEF S
    <2>3. CASE e \in es
        <3>1. Cardinality(S \cup {g}) = Cardinality(S) + 1
            BY <2>1, FS_AddElement
        <3> QED BY <1>1, <1>5, <2>1, <2>2, <2>3, <3>1
    <2>4. CASE e \notin es
        BY <1>1, <2>1, <2>2, <2>4
    <2> QED BY <2>3, <2>4
<1>7. PermitIffUnclaimed'
    <2>1. ASSUME NEW e \in es PROVE handles[e] # 0 /\ handles'[e] # 0
        <3>1. Counted(e) # {} /\ e \in Node /\ IsElement(e)
            BY <1>4, <1>5
        <3>2. handles[e] \in Nat /\ handles[e] # 0
            BY <3>1, CountedZero
        <3> QED BY <1>1, <1>5, <3>2
    <2> SUFFICES ASSUME NEW e \in subs
                 PROVE  handles'[e] = 0 <=> handles[e] = 0
        BY <1>1 DEF PermitIffUnclaimed, Unclaimed
    <2> QED BY <1>1, <2>1 DEF SubsTypeOK
<1>8. PermitBound'
    BY <1>1, FewerPermits
<1> QED BY <1>6, <1>7, <1>8

LEMMA DropCloseElements ==
    ASSUME ElementInv, NEW h \in Handle, DropClose(h)
    PROVE  (HandlesCounted /\ PermitIffUnclaimed /\ PermitBound)'
<1> USE DEF ElementInv, TypeInv, TypeOK
<1>1. ASSUME NEW e \in Node, NEW x \in Handle
      PROVE  x \in Counted(e)' <=> x \in Counted(e)
    <2>1. handle' = [handle EXCEPT ![h] = IF handle[h].path = <<>> THEN Free
                                     ELSE [Free EXCEPT !.st = "dropping", !.path = handle[h].path]]
        BY DEF DropClose
    <2>2. CASE x # h
        BY <2>1, <2>2 DEF Counted, HandleTypeOK
    <2>3. CASE x = h /\ handle[h].path = <<>>
        BY <2>1, <2>3, NodeRoot DEF Counted, HandleTypeOK, Free
    <2>4. CASE x = h /\ handle[h].path # <<>>
        <3>1. handle'[x].st = "dropping" /\ handle'[x].path = handle[x].path
            BY <2>1, <2>4 DEF HandleTypeOK, Free
        <3>2. handle[x].st = "live"
            BY <2>4 DEF DropClose
        <3> QED BY <3>1, <3>2 DEF Counted
    <2> QED BY <2>2, <2>3, <2>4
<1>2. \A e \in Node : Counted(e) \subseteq Handle /\ Counted(e)' \subseteq Handle
    BY DEF Counted
<1>3. \A e \in Node : Counted(e)' = Counted(e)
    BY <1>1, <1>2
<1> QED BY <1>3, SameElements DEF DropClose

\* `release` finds every element of the path with the dropped handle counted
\* in it: those whose count it does not lower are within the one it removes,
\* and nobody else is within that.
LEMMA DropReleaseElements ==
    ASSUME ElementInv, NEW h \in Handle, DropRelease(h)
    PROVE  (HandlesCounted /\ PermitIffUnclaimed /\ PermitBound)'
<1> USE DEF ElementInv, TypeInv, TypeOK
<1> DEFINE path == handle[h].path
           es == Elements[path]
           stops == {e \in es : e \notin subs \/ handles[e] <= 1}
           stop == Outermost(stops)
           gone == IF stops # {} /\ stop \in subs THEN {stop} ELSE {}
           counts == [p \in Node |->
                        IF p \in es /\ \A e \in stops : Len(p) < Len(e)
                        THEN handles[p] - 1 ELSE handles[p]]
           removed == {p \in subs : \E f \in gone : StartsWith(p, f)}
<1>1. /\ subs' = subs \ removed /\ permit' = permit \ removed
      /\ handles' = [p \in Node |-> IF p \in removed THEN 0 ELSE counts[p]]
    <2>1. Remove(gone, counts)
        BY DEF DropRelease
    <2> HIDE DEF gone, counts
    <2> QED BY <2>1 DEF Remove
<1>2. path \in Node
    BY DEF HandleTypeOK
<1>3. \A e \in Node : /\ Counted(e)' = Counted(e) \ {h}
                      /\ h \in Counted(e) <=> e \in es
    <2>1. /\ handle' = [handle EXCEPT ![h].st = "releasing"]
          /\ handle[h].st = "dropping"
        BY DEF DropRelease
    <2> QED BY <2>1 DEF Counted, HandleTypeOK
<1>4. \A e \in es : /\ e \in Node /\ IsElement(e) /\ e \in subs
                    /\ Len(e) \in Nat /\ handles[e] \in Nat /\ handles[e] # 0
    <2> TAKE e \in es
    <2>1. e \in Node /\ IsElement(e) /\ Len(e) \in Nat
        BY <1>2, ElementFacts, NodeSeq
    <2>2. h \in Counted(e)
        BY <1>3, <2>1
    <2>3. e \in subs
        BY <2>1, <2>2 DEF HandlesCounted
    <2> QED BY <2>1, <2>2, <2>3, CountedZero
<1>5. stops # {} => /\ gone = {stop} /\ stop \in es /\ stop \in Node /\ IsElement(stop)
                    /\ handles[stop] <= 1 /\ \A f \in stops : Len(stop) <= Len(f)
    <2>1. stops # {} => stop \in stops /\ \A f \in stops : Len(stop) <= Len(f)
        BY <1>2, OutermostElement
    <2> QED BY <1>4, <2>1
<1>6. ASSUME NEW e \in Node, IsElement(e), e \in removed
      PROVE  Counted(e) \subseteq {h}
    <2>1. stops # {} /\ StartsWith(e, stop)
        BY <1>5, <1>6
    <2>2. h \in Counted(stop)
        BY <1>3, <1>5, <2>1
    <2>3. Counted(stop) = {h}
        BY <1>5, <2>1, <2>2, CountedOne
    <2> QED BY <1>5, <2>1, <2>3, CountedNested
<1>7. ASSUME NEW e \in Node, e \notin removed
      PROVE  /\ e \in es => counts[e] = handles[e] - 1 /\ handles[e] > 1
             /\ e \notin es => counts[e] = handles[e]
    <2>1. ASSUME e \in es
          PROVE  \A f \in stops : Len(e) < Len(f)
        <3> SUFFICES ASSUME NEW f \in stops, ~(Len(e) < Len(f))
                     PROVE  FALSE
            OBVIOUS
        <3>1. Len(stop) <= Len(e) /\ stop \in es /\ gone = {stop}
            BY <1>4, <1>5, <2>1
        <3>2. StartsWith(e, stop)
            BY <1>2, <2>1, <3>1, ElementChain
        <3> QED BY <1>4, <1>7, <2>1, <3>1, <3>2
    <2>2. ASSUME e \in es
          PROVE  handles[e] > 1
        <3>1. e \notin stops
            BY <1>4, <2>1, <2>2
        <3> QED BY <1>4, <2>2, <3>1
    <2> QED BY <2>1, <2>2
<1> HIDE DEF removed, counts, es, stops
<1>8. HandlesCounted'
    <2> SUFFICES ASSUME NEW e \in Node, IsElement(e)
                 PROVE  handles'[e] = Cardinality(Counted(e)') /\ (Counted(e)' # {} => e \in subs')
        BY DEF HandlesCounted
    <2> DEFINE S == Counted(e)
    <2>1. IsFiniteSet(S) /\ handles[e] = Cardinality(S) /\ (S # {} => e \in subs)
        BY CountedFinite DEF HandlesCounted
    <2>2. Counted(e)' = S \ {h} /\ (h \in S <=> e \in es)
        BY <1>3
    <2>3. e \in removed => S \ {h} = {}
        BY <1>6
    <2> HIDE DEF S
    <2>4. CASE e \in removed
        BY <1>1, <2>2, <2>3, <2>4, FS_EmptySet
    <2>5. CASE e \notin removed
        <3>1. handles'[e] = IF h \in S THEN handles[e] - 1 ELSE handles[e]
            BY <1>1, <1>7, <2>2, <2>5
        <3>2. Cardinality(S \ {h}) = IF h \in S THEN Cardinality(S) - 1 ELSE Cardinality(S)
            BY <2>1, FS_RemoveElement
        <3>3. S \ {h} # {} => e \in subs'
            BY <1>1, <2>1, <2>5
        <3> QED BY <2>1, <2>2, <3>1, <3>2, <3>3
    <2> QED BY <2>4, <2>5
<1>9. PermitIffUnclaimed'
    <2> SUFFICES ASSUME NEW e
                 PROVE  e \in permit' <=> (e \in subs' /\ IsElement(e) /\ handles'[e] = 0)
        BY DEF PermitIffUnclaimed, Unclaimed
    <2>1. CASE e \in removed \/ e \notin subs
        BY <1>1, <2>1 DEF SubsTypeOK
    <2>2. CASE e \in subs /\ e \notin removed
        <3>1. e \in Node /\ handles'[e] = counts[e] /\ handles[e] \in Nat
            BY <1>1, <2>2 DEF SubsTypeOK
        <3>2. handles'[e] = 0 <=> handles[e] = 0
            BY <1>7, <2>2, <3>1
        <3> QED BY <1>1, <2>2, <3>2 DEF PermitIffUnclaimed, Unclaimed
    <2> QED BY <2>1, <2>2
<1>10. PermitBound'
    BY <1>1, FewerPermits
<1> QED BY <1>8, <1>9, <1>10

\* Routing a frame subscribes to at most one new element, with a permit.
LEMMA RouteElements ==
    ASSUME ElementInv, NEW path \in Node, NEW n, NEW granted \in BOOLEAN,
           granted => Cardinality(permit) < MaxUnclaimed,
           Route(path, n, granted), UNCHANGED handle
    PROVE  (HandlesCounted /\ PermitIffUnclaimed /\ PermitBound)'
<1> USE DEF ElementInv, TypeInv, TypeOK
<1> DEFINE found == path \in subs /\ tx[path] # "none"
           missing == IF found THEN {} ELSE Elements[path] \ subs
           first == Outermost(missing)
           blocked == missing # {} /\ (~granted \/ missing # {first})
           opened == IF granted /\ missing # {} THEN {first} ELSE {}
           sub == IF blocked THEN opened ELSE opened \cup {path}
<1>1. \A e \in Node : Counted(e)' = Counted(e)
    BY DEF Counted
<1>2. CASE UNCHANGED <<subs, handles, permit>>
    BY <1>1, <1>2, SameElements
<1>3. CASE subs' = subs \cup sub /\ permit' = permit \cup opened /\ handles' = handles
    <2>1. missing # {} => first \in Node /\ first \notin subs /\ IsElement(first)
        BY MissingFacts
    <2>2. IsElement(path) /\ path \notin subs => path \in missing
        BY ElementSelf
    <2>3. IsElement(path) /\ path \in sub /\ path \notin subs => path \in opened
        BY <2>2
    <2>4. opened # {} => opened = {first} /\ granted /\ missing # {}
        OBVIOUS
    <2>5. opened \subseteq sub /\ (\A e \in sub : e \in opened \/ e = path)
        OBVIOUS
    <2> HIDE DEF missing, opened, sub, blocked, first
    <2>6. HandlesCounted'
        BY <1>1, <1>3 DEF HandlesCounted
    <2>7. \A e \in opened : IsElement(e) /\ e \notin subs /\ handles[e] = 0
        BY <2>1, <2>4, CountedZero DEF HandlesCounted
    <2>8. PermitIffUnclaimed'
        BY <1>3, <2>3, <2>5, <2>7 DEF PermitIffUnclaimed, Unclaimed
    <2>9. PermitBound'
        <3>1. CASE opened = {}
            BY <1>3, <3>1 DEF PermitBound
        <3>2. CASE opened # {}
            <4>1. permit' = permit \cup {first} /\ Cardinality(permit) < MaxUnclaimed
                BY <1>3, <2>4, <3>2
            <4>0. IsFiniteSet(permit) /\ Cardinality(permit) \in Nat
                BY FS_CardinalityType DEF PermitBound
            <4>2. IsFiniteSet(permit') /\ Cardinality(permit') <= Cardinality(permit) + 1
                <5>1. /\ IsFiniteSet(permit \cup {first})
                      /\ Cardinality(permit \cup {first}) =
                            IF first \in permit THEN Cardinality(permit) ELSE Cardinality(permit) + 1
                    BY <4>0, FS_AddElement
                <5> QED BY <4>0, <4>1, <5>1
            <4>3. Cardinality(permit) \in Nat /\ Cardinality(permit') \in Nat
                BY <4>2, FS_CardinalityType DEF PermitBound
            <4> QED BY <4>1, <4>2, <4>3, BoundAssumption DEF PermitBound
        <3> QED BY <3>1, <3>2
    <2> QED BY <2>6, <2>8, <2>9
<1> QED BY <1>2, <1>3 DEF Route

LEMMA NextElements == ElementInv /\ [Next]_vars => ElementInv'
<1> SUFFICES ASSUME ElementInv, [Next]_vars
             PROVE  (HandlesCounted /\ PermitIffUnclaimed /\ PermitBound)'
    BY NextType DEF ElementInv
<1> USE DEF ElementInv, TypeInv, TypeOK
<1>1. ASSUME NEW h \in Handle, NEW g \in Handle, IndexNotFound(h, g)
      PROVE  (HandlesCounted /\ PermitIffUnclaimed /\ PermitBound)'
    <2>1. handle' = [x \in Handle |-> IF x = g THEN Free
                                      ELSE IF x = h THEN [handle[h] EXCEPT !.st = "live"]
                                      ELSE handle[x]]
        BY <1>1 DEF IndexNotFound, HandleTypeOK
    <2>2. handle[h].st = "indexing" /\ handle[g].st = "new"
        BY <1>1 DEF IndexNotFound
    <2>3. \A x \in Handle : /\ handle'[x].st \in {"live", "indexing", "dropping"}
                               <=> handle[x].st \in {"live", "indexing", "dropping"}
                            /\ x # g => handle'[x].path = handle[x].path
        BY <2>1, <2>2 DEF Free, HandleTypeOK
    <2>4. \A e \in Node : Counted(e)' = Counted(e)
        BY <2>2, <2>3 DEF Counted
    <2> QED BY <1>1, <2>4, SameElements DEF IndexNotFound
<1>2. ASSUME NEW h \in Handle, ReadChunk(h) \/ ReadRest(h) \/ ReadEnd(h) \/ DropFinish(h)
      PROVE  (HandlesCounted /\ PermitIffUnclaimed /\ PermitBound)'
    <2>1. UNCHANGED <<subs, handles, permit>>
        BY <1>2 DEF ReadChunk, ReadRest, ReadEnd, DropFinish, subsVars
    <2>2. \A e \in Node : Counted(e)' = Counted(e)
        <3>1. CASE ReadChunk(h) \/ ReadRest(h) \/ ReadEnd(h)
            <4>1. \A x \in Handle : handle'[x].st = handle[x].st /\ handle'[x].path = handle[x].path
                BY <3>1 DEF ReadChunk, ReadRest, ReadEnd, HandleTypeOK
            <4> QED BY <4>1 DEF Counted
        <3>2. CASE DropFinish(h)
            <4>1. handle' = [handle EXCEPT ![h] = Free] /\ handle[h].st = "releasing"
                BY <3>2 DEF DropFinish
            <4> QED BY <4>1 DEF Counted, HandleTypeOK, Free
        <3> QED BY <1>2, <3>1, <3>2
    <2> QED BY <2>1, <2>2, SameElements
<1>3. ASSUME NEW h \in Handle, HandleStep(h)
      PROVE  (HandlesCounted /\ PermitIffUnclaimed /\ PermitBound)'
    BY <1>1, <1>2, <1>3, IndexSkipElements, IndexTakeElements, TakeReaderElements,
       DropCloseElements, DropReleaseElements
    DEF HandleStep, ReadEof, ReadError
<1>4. CASE UNCHANGED <<subs, handles, permit, handle>>
    <2>1. \A e \in Node : Counted(e)' = Counted(e)
        BY <1>4 DEF Counted
    <2> QED BY <1>4, <2>1, SameElements
<1>5. ASSUME NEW path \in WirePath, NEW n \in 0..MaxFrameChunks, IngressFrame(path, n)
      PROVE  (HandlesCounted /\ PermitIffUnclaimed /\ PermitBound)'
    <2>1. path \in Node /\ Route(path, n, FALSE) /\ UNCHANGED handle
        BY <1>5 DEF IngressFrame, IngressUnchanged
    <2> QED BY <2>1, RouteElements
<1>6. CASE IngressIndexed
    <2>1. Route(io.path, io.rem, FALSE) /\ UNCHANGED handle /\ io.path \in Node
        BY <1>6 DEF IngressIndexed, IngressUnchanged, TaskTypeOK
    <2> QED BY <2>1, RouteElements
<1>7. CASE IngressPermit
    <2>1. /\ Route(io.path, io.rem, TRUE) /\ UNCHANGED handle /\ io.path \in Node
          /\ Cardinality(permit) < MaxUnclaimed
        BY <1>7 DEF IngressPermit, IngressUnchanged, TaskTypeOK, PermitAvailable
    <2> QED BY <2>1, RouteElements
<1>8. CASE PeerStep
    BY <1>4, <1>5, <1>8
    DEF PeerStep, IngressUnknown, IngressData, IngressEnd, IngressBroken, IngressUnchanged, subsVars
<1>9. CASE IngressStep
    BY <1>4, <1>6, <1>7, <1>9
    DEF IngressStep, IngressClosed, IngressReserve, IngressPush, IngressFailed,
        SetErr, CloseTx, CloseRx, IngressUnchanged, subsVars
<1>10. CASE Abort
    BY <1>4, <1>10 DEF Abort, subsVars
<1>11. CASE UNCHANGED vars
    BY <1>4, <1>11 DEF vars, subsVars
<1> QED BY <1>3, <1>8, <1>9, <1>10, <1>11 DEF Next

LEMMA InitElements == Init => ElementInv
<1> SUFFICES ASSUME Init PROVE ElementInv
    OBVIOUS
<1> USE NodeRoot, HandleAssumption, BoundAssumption
<1>1. TypeInv
    BY InitType
<1>2. \A e \in Node : Counted(e) = {}
    <2>1. \A h \in Handle : handle[h].path = <<>>
        BY DEF Init, Free
    <2> QED BY <2>1 DEF Counted
<1>3. HandlesCounted
    BY <1>2, FS_EmptySet DEF Init, HandlesCounted
<1>4. PermitIffUnclaimed
    <2>1. subs = {<<>>} \cup (Declared \cap Node) /\ permit = {}
        BY DEF Init
    <2>2. ~IsElement(<<>>)
        BY ElementSelf
    <2>3. \A e \in subs : ~IsElement(e)
        BY <2>1, <2>2, ConcreteOutside, ElementSelf
    <2> QED BY <2>1, <2>3 DEF PermitIffUnclaimed, Unclaimed
<1>5. PermitBound
    BY FS_EmptySet DEF Init, PermitBound
<1> QED BY <1>1, <1>3, <1>4, <1>5 DEF ElementInv

\* The inductive invariant holds in every reachable state.
THEOREM ElementsHold == Spec => []ElementInv
<1>1. Init => ElementInv
    BY InitElements
<1>2. ElementInv /\ [Next]_vars => ElementInv'
    BY NextElements
<1> QED BY <1>1, <1>2, PTL DEF Spec

\* `Subscription::handles` of an element is the number of handles within it,
\* and no element is removed from under a handle, however `index`,
\* `take_reader`, `drop` and ingress interleave.
THEOREM HandlesAreCounted == Spec => []HandlesCounted
<1>1. ElementInv => HandlesCounted
    BY DEF ElementInv
<1> QED BY <1>1, ElementsHold, PTL

\* A permit of the semaphore is held by exactly the elements nobody indexed:
\* none leaks when an element is indexed, skipped or released.
THEOREM PermitsMatch == Spec => []PermitIffUnclaimed
<1>1. ElementInv => PermitIffUnclaimed
    BY DEF ElementInv
<1> QED BY <1>1, ElementsHold, PTL

\* At most MAX_UNCLAIMED_ELEMENTS elements are subscribed to before they are
\* indexed, for every declaration, nested ones too, and every peer.
THEOREM UnclaimedBounded == Spec => []UnclaimedBound
<1>1. ElementInv => UnclaimedBound
    BY DEF ElementInv, PermitIffUnclaimed, PermitBound, UnclaimedBound
<1> QED BY <1>1, ElementsHold, PTL

-----------------------------------------------------------------------------
(* What becomes of released elements, of waits, and of data                *)

\* The element `e` was passed: it, or one after it, was indexed.
Passed(e) == Position(e) < next[Container(e)]

\* The critical section that the mutex is held for.  `index` has its handle
\* to be returned in it, and there is only one.
Section ==
    /\ lock # Nobody => handle[lock].st \in {"indexing", "releasing"}
    /\ \A h \in Handle : handle[h].st \in {"indexing", "releasing"} => lock = h
    /\ \A g \in Handle : handle[g].st = "new" => lock # Nobody /\ handle[lock].st = "indexing"
    /\ \A g, h \in Handle : handle[g].st = "new" /\ handle[h].st = "new" => g = h

\* Subscriptions and `next` entries are only found within elements that are
\* subscribed to, and elements are indexed outside in.
Nested == \A p \in subs : Elements[p] \subseteq subs
Deep == \A c \in Node : next[c] > 0 => \A e \in Elements[c] : e \in subs /\ Passed(e)
Claimed == \A e \in Node : IsElement(e) /\ handles[e] > 0 => Passed(e)

\* A handle with a receiver is alive, and so is its subscription.
Kept ==
    \A h \in Handle : handle[h].rx =>
        /\ handle[h].path \in subs /\ rx[handle[h].path] = "taken"
        /\ handle[h].st \in {"live", "indexing"}

\* Where the receiver of a subscription can be.  It leaves the subscription
\* when the path is indexed, or when everything is closed.
Held ==
    /\ \A p \in Node : rx[p] # "none" => IsDeclared[p]
    /\ \A p \in subs :
        /\ rx[p] # "checked" /\ (IsDeclared[p] => rx[p] # "none")
        /\ rx[p] \in {"taken", "gone"} => unclaimed = "closed" \/ \A e \in Elements[p] : Passed(e)
Closing == unclaimed = "closed" => AllDropped

\* `index` is about to pass `e`, which it skipped: it will not fail.
Skipping(e) ==
    \E g \in Handle :
        /\ handle[g].st = "new" /\ CanTake(handle[g].path)
        /\ \E f \in Elements[handle[g].path] :
            Len(e) = Len(f) /\ Container(e) = Container(f) /\ Position(e) < Position(f)

\* A receiver that was dropped with its subscription was within an element
\* that is not subscribed to any more and was passed.
Lost ==
    \A p \in Node : p \notin subs /\ rx[p] \in {"checked", "gone"} =>
        \E e \in Elements[p] : e \notin subs /\ (Passed(e) \/ Skipping(e))

\* A path has one receiver.
Sole ==
    \A g, h \in Handle :
        handle[g].rx /\ handle[h].rx /\ handle[g].path = handle[h].path => g = h

Around == Section /\ Nested /\ Deep /\ Claimed
Dropped == Kept /\ Held /\ Closing /\ Lost
ReleaseInv == ElementInv /\ Around /\ Dropped /\ Sole

-----------------------------------------------------------------------------
(* Elements of a path                                                      *)

LEMMA WithinElement ==
    ASSUME NEW p \in Node, NEW f \in Node, IsElement(f)
    PROVE  StartsWith(p, f) <=> f \in Elements[p]
<1>1. ASSUME f \in Elements[p] PROVE StartsWith(p, f)
    <2>1. Len(f) \in 1..Len(p) /\ f = SubSeq(p, 1, Len(f))
        BY <1>1, ElementFacts
    <2> QED BY <2>1, NodeSeq DEF StartsWith
<1> QED BY <1>1, ElementOfPath

LEMMA ElementsOfElement ==
    ASSUME NEW p \in Node, NEW e \in Elements[p]
    PROVE  Elements[e] \subseteq Elements[p] /\ e \in Elements[e]
<1>1. e \in Node /\ IsElement(e)
    BY ElementFacts
<1>2. \A f \in Elements[e] : f \in Node /\ IsElement(f) /\ StartsWith(e, f)
    BY <1>1, ElementFacts, WithinElement
<1> QED BY <1>1, <1>2, ElementTrans, ElementSelf

\* Elements of a path are distinguished by their length.
LEMMA ElementByLength ==
    ASSUME NEW p \in Node, NEW e \in Elements[p], NEW f \in Elements[p]
    PROVE  /\ Len(e) = Len(f) => e = f
           /\ Len(e) \in Nat /\ Len(f) \in Nat
           /\ Len(e) <= Len(f) => e \in Elements[f]
<1>1. /\ Len(e) = Len(f) => e = f
      /\ e \in Node /\ f \in Node /\ IsElement(e)
    BY ElementFacts
<1>2. Len(e) \in Nat /\ Len(f) \in Nat
    BY <1>1, NodeSeq
<1>3. Len(e) <= Len(f) => StartsWith(f, e)
    BY ElementChain
<1> QED BY <1>1, <1>2, <1>3, ElementOfPath

\* What an element is in lies in the other elements around it.
LEMMA ElementsOfContainer ==
    ASSUME NEW e \in Node, IsElement(e)
    PROVE  /\ Container(e) \in Node /\ Len(Container(e)) = Len(e) - 1
           /\ Elements[Container(e)] = Elements[e] \ {e}
<1>1. e \in Seq(Index) /\ Len(e) \in Nat /\ Len(e) > 0
    BY NodeSeq, ElementSelf
<1>2. Container(e) \in Node /\ Len(Container(e)) = Len(e) - 1
    <2>1. Len(e) - 1 \in 0..Len(e)
        BY <1>1
    <2> QED BY <2>1, NodePrefix DEF Container
<1> DEFINE c == Container(e)
<1>3. ASSUME NEW f \in Elements[c]
      PROVE  f \in Elements[e] /\ f # e
    <2>1. f \in Node /\ IsElement(f) /\ Len(f) \in 1..Len(c) /\ f = SubSeq(c, 1, Len(f))
        BY <1>2, ElementFacts
    <2>2. f = SubSeq(e, 1, Len(f)) /\ Len(f) \in 1..Len(e) /\ Len(f) # Len(e)
        BY <1>1, <1>2, <2>1 DEF Container
    <2> QED BY <2>1, <2>2 DEF Elements
<1>4. ASSUME NEW f \in Elements[e], f # e
      PROVE  f \in Elements[c]
    <2>1. f \in Node /\ IsElement(f) /\ Len(f) \in 1..Len(e) /\ f = SubSeq(e, 1, Len(f))
        BY ElementFacts
    <2>2. Len(f) # Len(e)
        BY <1>1, <1>4, <2>1
    <2>3. f = SubSeq(c, 1, Len(f)) /\ Len(f) \in 1..Len(c)
        BY <1>1, <1>2, <2>1, <2>2 DEF Container
    <2> QED BY <1>2, <2>1, <2>3 DEF Elements
<1> QED BY <1>2, <1>3, <1>4

\* What `index` advances: past the elements of the path, and nothing else.
LEMMA AdvanceFacts ==
    ASSUME SubsTypeOK, NEW path \in Node, next' = Advance(Elements[path])
    PROVE  /\ \A e \in Elements[path] : Passed(e)'
           /\ \A c \in Node : /\ next'[c] >= next[c]
                              /\ next'[c] # next[c] => \E e \in Elements[path] : Container(e) = c
<1> DEFINE es == Elements[path]
<1>1. \A e, f \in es : Container(e) = Container(f) => e = f
    <2> TAKE e, f \in es
    <2> HAVE Container(e) = Container(f)
    <2>1. Len(Container(e)) = Len(e) - 1 /\ Len(Container(f)) = Len(f) - 1
        BY ElementFacts, ElementsOfContainer
    <2> QED BY <2>1, ElementByLength
<1>2. \A e \in es : Container(e) \in Node /\ Position(e) \in Nat
    BY ElementFacts
<1>3. next \in [Node -> Nat]
    BY DEF SubsTypeOK
<1> HIDE DEF es
<1>4. ASSUME NEW e \in es
      PROVE  next'[Container(e)] = IF Position(e) >= next[Container(e)]
                                   THEN Position(e) + 1 ELSE next[Container(e)]
    <2>1. (CHOOSE f \in es : Container(f) = Container(e)) = e
        BY <1>1
    <2>2. next' = Advance(es)
        BY DEF es
    <2>3. (\E f \in es : Container(f) = Container(e) /\ Position(f) >= next[Container(e)])
            <=> Position(e) >= next[Container(e)]
        BY <1>1
    <2> QED BY <1>2, <2>1, <2>2, <2>3 DEF Advance
<1>5. ASSUME NEW c \in Node, ~ \E e \in es : Container(e) = c
      PROVE  next'[c] = next[c]
    <2>1. next' = Advance(es)
        BY DEF es
    <2> QED BY <1>5, <2>1 DEF Advance
<1>6. \A e \in es : next'[Container(e)] > Position(e) /\ next'[Container(e)] >= next[Container(e)]
    BY <1>2, <1>3, <1>4
<1>7. \A c \in Node : next'[c] >= next[c]
    BY <1>3, <1>5, <1>6
<1>8. \A e \in es : Position(e) < next'[Container(e)]
    BY <1>2, <1>3, <1>4
<1> QED BY <1>5, <1>7, <1>8 DEF es, Passed

-----------------------------------------------------------------------------
(* Removing elements                                                       *)

\* `p` lies within one of the elements `es`.
Within(es, p) == Elements[p] \cap es # {}

LEMMA RemoveFacts ==
    ASSUME SubsTypeOK, NEW es \in SUBSET Node, \A e \in es : IsElement(e), NEW counts,
           Remove(es, counts)
    PROVE  /\ subs' = {p \in subs : ~Within(es, p)}
           /\ \A p \in Node :
                /\ next'[p] = IF Within(es, p) THEN 0 ELSE next[p]
                /\ rx'[p] = IF p \in subs /\ Within(es, p) /\ rx[p] = "sub" THEN "checked" ELSE rx[p]
                /\ handles'[p] = IF p \in subs /\ Within(es, p) THEN 0 ELSE counts[p]
           /\ UNCHANGED <<unclaimed, closed>>
<1>1. \A p \in Node : (\E e \in es : StartsWith(p, e)) <=> Within(es, p)
    BY WithinElement DEF Within
<1> DEFINE removed == {p \in subs : \E e \in es : StartsWith(p, e)}
<1>2. \A p \in Node : p \in removed <=> p \in subs /\ Within(es, p)
    BY <1>1
<1>3. /\ subs' = subs \ removed
      /\ rx' = [p \in Node |-> IF p \in removed /\ rx[p] = "sub" THEN "checked" ELSE rx[p]]
      /\ handles' = [p \in Node |-> IF p \in removed THEN 0 ELSE counts[p]]
      /\ next' = [p \in Node |-> IF \E e \in es : StartsWith(p, e) THEN 0 ELSE next[p]]
      /\ UNCHANGED <<unclaimed, closed>>
    BY DEF Remove
<1>4. subs \subseteq Node
    BY DEF SubsTypeOK
<1> HIDE DEF removed
<1> QED BY <1>1, <1>2, <1>3, <1>4

\* What is around a path outside of the removed elements is outside of them.
LEMMA OutsideFacts ==
    ASSUME NEW es, NEW p \in Node, ~Within(es, p), NEW e \in Elements[p]
    PROVE  e \in Node /\ ~Within(es, e) /\ Container(e) \in Node /\ ~Within(es, Container(e))
<1>1. e \in Node /\ IsElement(e) /\ Container(e) \in Node
    BY ElementFacts
<1>2. Elements[e] \subseteq Elements[p]
    BY ElementsOfElement
<1>3. Elements[Container(e)] \subseteq Elements[e]
    BY <1>1, ElementsOfContainer
<1> QED BY <1>1, <1>2, <1>3 DEF Within

LEMMA RemoveAround ==
    ASSUME ReleaseInv, NEW es \in SUBSET Node, \A e \in es : IsElement(e), NEW counts,
           Remove(es, counts)
    PROVE  (Nested /\ Deep)'
<1> USE DEF ReleaseInv, Around, ElementInv, TypeInv, TypeOK
<1>1. /\ subs' = {p \in subs : ~Within(es, p)}
      /\ \A p \in Node : next'[p] = IF Within(es, p) THEN 0 ELSE next[p]
    BY RemoveFacts
<1>2. subs \subseteq Node
    BY DEF SubsTypeOK
<1>3. Nested'
    BY <1>1, <1>2, OutsideFacts DEF Nested
<1>4. Deep'
    <2> SUFFICES ASSUME NEW c \in Node, next'[c] > 0, NEW e \in Elements[c]
                 PROVE  e \in subs' /\ Passed(e)'
        BY DEF Deep
    <2>1. ~Within(es, c) /\ next[c] > 0
        BY <1>1
    <2>2. e \in subs /\ Passed(e)
        BY <2>1 DEF Deep
    <2>3. e \in Node /\ ~Within(es, e) /\ Container(e) \in Node /\ ~Within(es, Container(e))
        BY <2>1, OutsideFacts
    <2> QED BY <1>1, <2>2, <2>3 DEF Passed
<1> QED BY <1>3, <1>4

\* Elements outside of the removed ones are passed as before.
LEMMA RemovePassed ==
    ASSUME SubsTypeOK, NEW es \in SUBSET Node, \A e \in es : IsElement(e), NEW counts,
           Remove(es, counts), NEW p \in Node, ~Within(es, p), NEW e \in Elements[p]
    PROVE  Passed(e)' <=> Passed(e)
<1>1. Container(e) \in Node /\ ~Within(es, Container(e))
    BY OutsideFacts
<1>2. next'[Container(e)] = next[Container(e)]
    BY <1>1, RemoveFacts
<1> QED BY <1>2 DEF Passed

-----------------------------------------------------------------------------
(* The critical section                                                    *)

LEMMA SectionStep ==
    ASSUME HandleTypeOK, Section, [Next]_vars
    PROVE  Section'
<1> USE HandleAssumption DEF HandleTypeOK
<1>1. ASSUME NEW h \in Handle, NEW g \in Handle, NEW path \in AppPath, IndexSkip(h, g, path)
      PROVE  Section'
    BY <1>1 DEF IndexSkip, Section, Free
<1>2. ASSUME NEW h \in Handle, NEW g \in Handle, IndexTake(h, g)
      PROVE  Section'
    <2>1. /\ lock = h /\ lock' = Nobody /\ handle[h].st = "indexing" /\ handle[g].st = "new"
          /\ \A x \in Handle : handle'[x].st = IF x \in {g, h} THEN "live" ELSE handle[x].st
        BY <1>2 DEF IndexTake
    <2> QED BY <2>1 DEF Section
<1>3. ASSUME NEW h \in Handle, NEW g \in Handle, IndexNotFound(h, g)
      PROVE  Section'
    BY <1>3 DEF IndexNotFound, Section, Free
<1>4. ASSUME NEW h \in Handle, NEW g \in Handle, TakeReader(h, g)
      PROVE  Section'
    <2>1. /\ UNCHANGED lock /\ handle[h].st = "live" /\ handle[g].st = "free"
          /\ \A x \in Handle : handle'[x].st = IF x = g THEN "live" ELSE handle[x].st
        BY <1>4 DEF TakeReader, lockVars
    <2> QED BY <2>1 DEF Section
<1>5. ASSUME NEW h \in Handle, ReadChunk(h) \/ ReadRest(h) \/ ReadEnd(h)
      PROVE  Section'
    <2>1. UNCHANGED lock /\ \A x \in Handle : handle'[x].st = handle[x].st
        BY <1>5 DEF ReadChunk, ReadRest, ReadEnd, lockVars
    <2> QED BY <2>1 DEF Section
<1>6. ASSUME NEW h \in Handle, DropClose(h)
      PROVE  Section'
    <2>1. /\ UNCHANGED lock /\ handle[h].st = "live" /\ handle'[h].st \in {"free", "dropping"}
          /\ \A x \in Handle : x # h => handle'[x].st = handle[x].st
        BY <1>6 DEF DropClose, lockVars, Free
    <2> QED BY <2>1 DEF Section
<1>7. ASSUME NEW h \in Handle, DropRelease(h)
      PROVE  Section'
    <2>1. /\ lock = Nobody /\ lock' = h /\ handle'[h].st = "releasing"
          /\ \A x \in Handle : x # h => handle'[x].st = handle[x].st
        BY <1>7 DEF DropRelease
    <2> QED BY <2>1 DEF Section
<1>8. ASSUME NEW h \in Handle, DropFinish(h)
      PROVE  Section'
    <2>1. /\ lock = h /\ lock' = Nobody /\ handle[h].st = "releasing" /\ handle'[h].st = "free"
          /\ \A x \in Handle : x # h => handle'[x].st = handle[x].st
        BY <1>8 DEF DropFinish, Free
    <2> QED BY <2>1 DEF Section
<1>9. ASSUME NEW h \in Handle, HandleStep(h)
      PROVE  Section'
    BY <1>1, <1>2, <1>3, <1>4, <1>5, <1>6, <1>7, <1>8, <1>9 DEF HandleStep, ReadEof, ReadError
<1>10. CASE UNCHANGED <<lock, handle>>
    BY <1>10 DEF Section
<1>11. CASE PeerStep
    BY <1>10, <1>11
    DEF PeerStep, IngressFrame, IngressUnknown, IngressData, IngressEnd, IngressBroken,
        IngressUnchanged, lockVars
<1>12. CASE IngressStep \/ Abort
    BY <1>10, <1>12
    DEF IngressStep, IngressPermit, IngressIndexed, IngressClosed, IngressReserve, IngressPush,
        IngressFailed, SetErr, CloseTx, CloseRx, Abort, IngressUnchanged, lockVars
<1>13. CASE UNCHANGED vars
    BY <1>10, <1>13 DEF vars, lockVars
<1> QED BY <1>9, <1>11, <1>12, <1>13 DEF Next

-----------------------------------------------------------------------------
(* Released elements: `index`                                              *)

LEMMA RemoveClaimed ==
    ASSUME ReleaseInv, NEW es \in SUBSET Node, \A e \in es : IsElement(e),
           NEW counts \in [Node -> Nat], \A p \in Node : counts[p] <= handles[p],
           Remove(es, counts)
    PROVE  Claimed'
<1> USE DEF ReleaseInv, Around, ElementInv, TypeInv, TypeOK
<1> SUFFICES ASSUME NEW e \in Node, IsElement(e), handles'[e] > 0
             PROVE  Passed(e)'
    BY DEF Claimed
<1>1. handles[e] \in Nat /\ counts[e] \in Nat /\ handles[e] >= counts[e]
    BY DEF SubsTypeOK
<1>2. ~(e \in subs /\ Within(es, e)) /\ handles[e] > 0
    <2>1. handles'[e] = IF e \in subs /\ Within(es, e) THEN 0 ELSE counts[e]
        BY RemoveFacts
    <2> QED BY <1>1, <2>1
<1>3. e \in subs
    BY <1>2, CountedZero DEF HandlesCounted
<1>4. e \in Elements[e] /\ Passed(e)
    BY <1>2, ElementSelf DEF Claimed
<1> QED BY <1>2, <1>3, <1>4, RemovePassed

\* A handle with a receiver is counted for the elements around it.
LEMMA OwnerCounted ==
    ASSUME ReleaseInv, NEW x \in Handle, handle[x].rx, NEW e \in Elements[handle[x].path]
    PROVE  x \in Counted(e) /\ handles[e] > 0 /\ Passed(e) /\ e \in subs
<1> USE DEF ReleaseInv, Around, Dropped, ElementInv, TypeInv, TypeOK
<1>1. x \in Counted(e)
    BY DEF Counted, Kept
<1>2. e \in Node /\ IsElement(e)
    BY ElementFacts DEF HandleTypeOK
<1>3. handles[e] \in Nat /\ handles[e] # 0
    BY <1>1, <1>2, CountedZero
<1>4. e \in subs
    BY <1>1, <1>2 DEF HandlesCounted
<1> QED BY <1>1, <1>2, <1>3, <1>4 DEF Claimed

\* `skip` removes nothing around the path being indexed.
LEMMA SkippedAside ==
    ASSUME SubsTypeOK, NEW path \in Node
    PROVE  ~Within(Skipped(path), path)
<1> SUFFICES ASSUME NEW f \in Skipped(path), f \in Elements[path]
             PROVE  FALSE
    BY DEF Within
<1>1. PICK e \in Elements[path] : Len(f) = Len(e) /\ Position(f) < Position(e)
    BY DEF Skipped
<1>2. f = e /\ Position(e) \in Nat
    BY <1>1, ElementByLength, ElementFacts
<1> QED BY <1>1, <1>2

\* `take_rx` does not fail after `skip` removed something: what it skipped to
\* was not passed, nor was anything in it.
LEMMA SkipCanTake ==
    ASSUME ReleaseInv, NEW h \in Handle, NEW g \in Handle, NEW path \in AppPath,
           IndexSkip(h, g, path), NEW f \in Skipped(path)
    PROVE  CanTake(path)'
<1> USE DEF ReleaseInv, Around, Dropped, ElementInv, TypeInv, TypeOK
<1> DEFINE es == Skipped(path)
<1>1. path \in Node
    BY AppPathAssumption
<1>2. \A e \in es : e \in subs /\ e \in Node /\ IsElement(e)
    BY <1>1, SkippedFacts
<1>3. Remove(es, handles) /\ unclaimed = "open"
    BY DEF IndexSkip, Closing, AllDropped, SubsTypeOK
<1> HIDE DEF es
<1>4. ~Within(es, path)
    BY <1>1, SkippedAside DEF es
<1>5. PICK k \in Elements[path] :
        /\ Len(f) = Len(k) /\ Container(f) = Container(k)
        /\ next[Container(k)] <= Position(f) /\ Position(f) < Position(k)
    BY DEF Skipped
<1>6. /\ f \in subs /\ f \in Node /\ IsElement(f)
      /\ k \in Node /\ IsElement(k) /\ Container(k) \in Node /\ Position(k) \in Nat
      /\ next[Container(k)] \in Nat /\ Position(f) \in Nat
    <2>1. f \in subs /\ f \in Node /\ IsElement(f)
        BY <1>2 DEF es
    <2>2. f \in Elements[f]
        BY <2>1, ElementSelf
    <2> QED BY <1>1, <2>1, <2>2, ElementFacts DEF SubsTypeOK
<1>7. ~Passed(k)
    BY <1>5, <1>6 DEF Passed
<1>8. \A e \in Elements[path] : e \in subs \/ Position(e) >= next[Container(e)]
    <2> TAKE e \in Elements[path]
    <2>1. /\ Len(e) \in Nat /\ Len(k) \in Nat
          /\ Len(e) = Len(k) => e = k
          /\ Len(e) <= Len(k) => e \in Elements[k]
          /\ Len(k) <= Len(e) => k \in Elements[e]
        BY <1>1, ElementByLength
    <2>2. /\ e \in Node /\ IsElement(e) /\ Container(e) \in Node /\ Position(e) \in Nat
          /\ next[Container(e)] \in Nat
        BY <1>1, ElementFacts DEF SubsTypeOK
    <2>3. CASE e = k
        BY <1>5, <1>6, <2>3
    <2>4. CASE e # k /\ Len(e) <= Len(k)
        <3>1. e \in Elements[Container(k)]
            BY <1>6, <2>1, <2>4, ElementsOfContainer
        <3>2. e \in Elements[f]
            BY <1>5, <1>6, <3>1, ElementsOfContainer
        <3> QED BY <1>6, <3>2 DEF Nested
    <2>5. CASE e # k /\ Len(k) <= Len(e)
        <3>1. k \in Elements[Container(e)]
            BY <2>1, <2>2, <2>5, ElementsOfContainer
        <3>2. ~(next[Container(e)] > 0)
            BY <1>7, <2>2, <3>1 DEF Deep
        <3> QED BY <2>2, <3>2
    <2> QED BY <2>1, <2>3, <2>4, <2>5
<1>9. IsDeclared[path] /\ path \in subs => rx[path] = "sub"
    BY <1>3, <1>7 DEF Held, SubsTypeOK
<1>10. rx'[path] = rx[path] /\ (path \in subs' => path \in subs)
    BY <1>1, <1>2, <1>3, <1>4, RemoveFacts
<1>11. ASSUME NEW e \in Elements[path]
       PROVE  (e \in subs => e \in subs') /\ next'[Container(e)] = next[Container(e)]
    <2>1. e \in Node /\ ~Within(es, e) /\ Container(e) \in Node /\ ~Within(es, Container(e))
        BY <1>1, <1>4, OutsideFacts
    <2>2. subs' = {p \in subs : ~Within(es, p)}
        BY <1>2, <1>3, RemoveFacts
    <2>3. \A p \in Node : next'[p] = IF Within(es, p) THEN 0 ELSE next[p]
        BY <1>2, <1>3, RemoveFacts
    <2> QED BY <2>1, <2>2, <2>3
<1> QED BY <1>8, <1>9, <1>10, <1>11 DEF CanTake

LEMMA IndexSkipRelease ==
    ASSUME ReleaseInv, NEW h \in Handle, NEW g \in Handle, NEW path \in AppPath,
           IndexSkip(h, g, path)
    PROVE  (Nested /\ Deep /\ Claimed /\ Dropped)'
<1> USE DEF ReleaseInv, Around, Dropped, ElementInv, TypeInv, TypeOK
<1> DEFINE es == Skipped(path)
<1>1. path \in Node
    BY AppPathAssumption
<1>2. es \in SUBSET Node /\ \A e \in es : IsElement(e) /\ handles[e] = 0 /\ e \in Node
    BY <1>1, SkippedFacts
<1>3. /\ Remove(es, handles) /\ lock = Nobody /\ handle[h].st = "live" /\ handle[g].st = "free"
      /\ h # g
    BY DEF IndexSkip
<1>4. /\ handle'[g].st = "new" /\ handle'[g].path = path /\ handle'[g].rx = FALSE
      /\ \A x \in Handle : x # g => /\ handle'[x].rx = handle[x].rx
                                    /\ handle'[x].path = handle[x].path
                                    /\ handle'[x].st = IF x = h THEN "indexing" ELSE handle[x].st
    BY <1>3 DEF IndexSkip, HandleTypeOK, Free
<1>5. /\ subs' = {p \in subs : ~Within(es, p)}
      /\ \A p \in Node :
            rx'[p] = IF p \in subs /\ Within(es, p) /\ rx[p] = "sub" THEN "checked" ELSE rx[p]
      /\ UNCHANGED unclaimed
    BY <1>2, <1>3, RemoveFacts
<1>6. unclaimed # "closed"
    BY <1>3 DEF Closing, AllDropped
<1>7. (Nested /\ Deep)'
    BY <1>2, <1>3, RemoveAround
<1>8. Claimed'
    <2>1. handles \in [Node -> Nat] /\ \A p \in Node : handles[p] <= handles[p]
        BY DEF SubsTypeOK
    <2> QED BY <1>2, <1>3, <2>1, RemoveClaimed
<1>9. \A p \in Node : ~Within(es, p) => \A e \in Elements[p] : Passed(e)' <=> Passed(e)
    BY <1>2, <1>3, RemovePassed
<1>10. \A f \in es : Skipping(f)' /\ f \notin subs'
    <2> TAKE f \in es
    <2>1. CanTake(path)'
        BY SkipCanTake
    <2>2. \E e \in Elements[path] : Len(f) = Len(e) /\ Container(f) = Container(e) /\ Position(f) < Position(e)
        BY DEF Skipped
    <2>3. f \in Elements[f]
        BY <1>2, ElementSelf
    <2> QED BY <1>4, <1>5, <2>1, <2>2, <2>3 DEF Skipping, Within
<1> HIDE DEF es
<1>11. Kept'
    <2> SUFFICES ASSUME NEW x \in Handle, handle'[x].rx
                 PROVE  /\ handle'[x].path \in subs' /\ rx'[handle'[x].path] = "taken"
                        /\ handle'[x].st \in {"live", "indexing"}
        BY DEF Kept
    <2>1. x # g /\ handle[x].rx /\ handle'[x].path = handle[x].path /\ handle'[x].st \in {"live", "indexing"}
        BY <1>4 DEF Kept
    <2>2. ~Within(es, handle[x].path)
        <3> SUFFICES ASSUME NEW f \in es, f \in Elements[handle[x].path]
                     PROVE  FALSE
            BY DEF Within
        <3> QED BY <1>2, <2>1, OwnerCounted
    <2>3. handle[x].path \in subs /\ rx[handle[x].path] = "taken" /\ handle[x].path \in Node
        BY <2>1 DEF Kept, HandleTypeOK
    <2> QED BY <1>5, <2>1, <2>2, <2>3
<1>12. Held'
    <2>1. \A p \in Node : rx'[p] # "none" => IsDeclared[p]
        BY <1>5 DEF Held
    <2>2. ASSUME NEW p \in subs'
          PROVE  /\ rx'[p] # "checked" /\ (IsDeclared[p] => rx'[p] # "none")
                 /\ rx'[p] \in {"taken", "gone"} => \A e \in Elements[p] : Passed(e)'
        <3>1. p \in subs /\ p \in Node /\ ~Within(es, p) /\ rx'[p] = rx[p]
            BY <1>5 DEF SubsTypeOK
        <3> QED BY <1>6, <1>9, <3>1 DEF Held
    <2> QED BY <2>1, <2>2 DEF Held
<1>13. Closing'
    BY <1>5, <1>6 DEF Closing
<1>14. Lost'
    <2> SUFFICES ASSUME NEW p \in Node, p \notin subs', rx'[p] \in {"checked", "gone"}
                 PROVE  \E e \in Elements[p] : e \notin subs' /\ (Passed(e)' \/ Skipping(e)')
        BY DEF Lost
    <2>1. CASE Within(es, p)
        BY <1>10, <2>1 DEF Within
    <2>2. CASE ~Within(es, p)
        <3>1. p \notin subs /\ rx[p] \in {"checked", "gone"}
            BY <1>5, <2>2
        <3>2. PICK e \in Elements[p] : e \notin subs /\ (Passed(e) \/ Skipping(e))
            BY <3>1 DEF Lost
        <3>3. ~Skipping(e)
            BY <1>3 DEF Skipping, Section
        <3> QED BY <1>5, <1>9, <2>2, <3>2, <3>3
    <2> QED BY <2>1, <2>2
<1> QED BY <1>7, <1>8, <1>11, <1>12, <1>13, <1>14

\* Nothing that was dropped is subscribed to again by `index`: an element it
\* is within was passed, which `take_rx` refuses, or is being skipped.
LEMMA TakeFresh ==
    ASSUME ReleaseInv, NEW h \in Handle, NEW g \in Handle, IndexTake(h, g),
           NEW p \in Node, p \notin subs, rx[p] \in {"checked", "gone"}
    PROVE  /\ p \notin Elements[handle[g].path] /\ p # handle[g].path
           /\ \E e \in Elements[p] : /\ e \notin subs /\ e \notin Elements[handle[g].path]
                                     /\ e # handle[g].path
                                     /\ Passed(e)'
<1> USE DEF ReleaseInv, Around, Dropped, ElementInv, TypeInv, TypeOK
<1> DEFINE path == handle[g].path
<1>1. /\ path \in Node /\ handle[g].st = "new" /\ CanTake(path)
      /\ next' = Advance(Elements[path])
    BY DEF IndexTake, HandleTypeOK
<1>2. PICK e \in Elements[p] : e \notin subs /\ (Passed(e) \/ Skipping(e))
    BY DEF Lost
<1>3. e \in Node /\ IsElement(e) /\ Container(e) \in Node /\ Position(e) \in Nat
    BY <1>2, ElementFacts
<1>4. ASSUME e \in Elements[path] PROVE FALSE
    <2>1. Position(e) >= next[Container(e)]
        BY <1>1, <1>2, <1>4 DEF CanTake
    <2>2. ~Passed(e)
        BY <1>3, <2>1 DEF Passed, SubsTypeOK
    <2>3. PICK x \in Handle :
            /\ handle[x].st = "new"
            /\ \E f \in Elements[handle[x].path] : Len(e) = Len(f) /\ Position(e) < Position(f)
        BY <1>2, <2>2 DEF Skipping
    <2>4. x = g
        BY <1>1, <2>3 DEF Section
    <2>5. PICK f \in Elements[path] : Len(e) = Len(f) /\ Position(e) < Position(f)
        BY <2>3, <2>4
    <2>6. e = f
        BY <1>1, <1>4, <2>5, ElementByLength
    <2> QED BY <1>3, <2>5, <2>6
<1>5. p \notin Elements[path]
    <2>1. p \in Elements[path] => e \in Elements[path]
        BY <1>1, <1>2, ElementsOfElement
    <2> QED BY <1>4, <2>1
<1>6. p # path
    BY <1>2, <1>4
<1>7. e # path
    BY <1>1, <1>3, <1>4, ElementSelf
<1>8. Passed(e)'
    <2>1. CASE Passed(e)
        <3>1. next'[Container(e)] >= next[Container(e)]
            BY <1>1, <1>3, AdvanceFacts
        <3>2. next'[Container(e)] \in Nat /\ next[Container(e)] \in Nat
            BY <1>1, <1>3, AdvanceType DEF SubsTypeOK
        <3> QED BY <1>3, <2>1, <3>1, <3>2 DEF Passed
    <2>2. CASE Skipping(e)
        <3>1. PICK x \in Handle :
                /\ handle[x].st = "new"
                /\ \E f \in Elements[handle[x].path] :
                      Len(e) = Len(f) /\ Container(e) = Container(f) /\ Position(e) < Position(f)
            BY <2>2 DEF Skipping
        <3>2. x = g
            BY <1>1, <3>1 DEF Section
        <3>3. PICK f \in Elements[path] : Container(e) = Container(f) /\ Position(e) < Position(f)
            BY <3>1, <3>2
        <3>4. Position(f) < next'[Container(f)]
            BY <1>1, <3>3, AdvanceFacts DEF Passed
        <3>5. next'[Container(e)] \in Nat /\ Position(f) \in Nat
            BY <1>1, <1>3, <3>3, AdvanceType, ElementFacts
        <3> QED BY <1>3, <3>3, <3>4, <3>5 DEF Passed
    <2> QED BY <1>2, <2>1, <2>2
<1> QED BY <1>2, <1>4, <1>5, <1>6, <1>7, <1>8

LEMMA IndexTakeRelease ==
    ASSUME ReleaseInv, NEW h \in Handle, NEW g \in Handle, IndexTake(h, g)
    PROVE  /\ (Nested /\ Deep /\ Claimed /\ Dropped)'
           /\ \A p \in Node : rx[p] \in {"checked", "gone"} => rx'[p] = "gone"
<1> USE DEF ReleaseInv, Around, Dropped, ElementInv, TypeInv, TypeOK
<1> DEFINE path == handle[g].path
           es == Elements[path]
           new == IF IsDeclared[path] THEN es \cup {path} ELSE es
           taken == IsDeclared[path] /\ (path \notin subs \/ rx[path] = "sub")
<1>1. /\ path \in Node /\ handle[g].st = "new" /\ handle[h].st = "indexing" /\ lock = h
      /\ CanTake(path) /\ next' = Advance(es) /\ subs' = subs \cup new
      /\ handles' = [p \in Node |-> IF p \in es THEN handles[p] + 1 ELSE handles[p]]
      /\ UNCHANGED unclaimed
    BY DEF IndexTake, HandleTypeOK
<1>2. /\ handle'[g].st = "live" /\ handle'[g].path = path /\ (handle'[g].rx <=> taken)
      /\ \A x \in Handle : x # g => /\ handle'[x].rx = handle[x].rx
                                    /\ handle'[x].path = handle[x].path
                                    /\ handle'[x].st = IF x = h THEN "live" ELSE handle[x].st
    BY <1>1 DEF IndexTake, HandleTypeOK
<1>3. es \subseteq Node /\ new \subseteq Node /\ es \subseteq new
    BY <1>1, ElementFacts
<1>4. \A p \in Node : rx'[p] = IF taken /\ p = path THEN "taken"
                               ELSE IF p \in new /\ p \notin subs /\ IsDeclared[p] THEN "sub"
                               ELSE IF rx[p] = "checked" THEN "gone" ELSE rx[p]
    BY <1>1 DEF IndexTake, SubscribedRx, Settled
<1>5. \A p \in new : Elements[p] \subseteq es
    BY <1>1, ElementsOfElement
<1>6. /\ \A e \in es : Passed(e)'
      /\ \A c \in Node : next'[c] >= next[c] /\ (next'[c] # next[c] => \E e \in es : Container(e) = c)
    BY <1>1, AdvanceFacts
<1>7. \A e \in Node : IsElement(e) /\ Passed(e) => Passed(e)'
    <2> TAKE e \in Node
    <2> HAVE IsElement(e) /\ Passed(e)
    <2>1. Container(e) \in Node /\ Position(e) \in Nat
        BY ElementSelf, ElementFacts
    <2>2. next'[Container(e)] \in Nat /\ next[Container(e)] \in Nat
        BY <1>1, <2>1, AdvanceType DEF SubsTypeOK
    <2> QED BY <1>6, <2>1, <2>2 DEF Passed
<1>8. \A p \in Node : p \notin subs /\ rx[p] \in {"checked", "gone"} =>
        /\ p \notin es /\ p # path
        /\ \E e \in Elements[p] : e \notin subs /\ e \notin es /\ e # path /\ Passed(e)'
    BY TakeFresh
<1>9. /\ next \in [Node -> Nat] /\ subs \subseteq Node /\ handles \in [Node -> Nat]
      /\ rx \in [Node -> {"none", "sub", "taken", "checked", "gone"}]
    BY DEF SubsTypeOK
<1>10. unclaimed # "closed"
    BY <1>1 DEF Closing, AllDropped
<1>11. \A p \in new : p \in es \/ p = path
    OBVIOUS
<1>12. taken => path \in new /\ IsDeclared[path]
    OBVIOUS
<1>13. taken => path \notin subs \/ rx[path] = "sub"
    OBVIOUS
<1>14. IsDeclared[path] => path \in new
    OBVIOUS
<1> HIDE DEF new, taken, es
<1>15. Nested'
    BY <1>1, <1>3, <1>5, <1>9 DEF Nested
<1>16. Deep'
    <2> SUFFICES ASSUME NEW c \in Node, next'[c] > 0, NEW e \in Elements[c]
                 PROVE  e \in subs' /\ Passed(e)'
        BY DEF Deep
    <2>0. e \in Node /\ IsElement(e)
        BY ElementFacts
    <2>1. CASE next'[c] = next[c]
        BY <1>1, <1>7, <2>0, <2>1 DEF Deep
    <2>2. CASE next'[c] # next[c]
        <3>1. PICK f \in es : Container(f) = c
            BY <1>6, <2>2
        <3>2. f \in Node /\ IsElement(f)
            BY <1>1, <3>1, ElementFacts DEF es
        <3>3. e \in Elements[f]
            BY <3>1, <3>2, ElementsOfContainer
        <3>4. e \in es
            BY <1>3, <1>5, <3>1, <3>3
        <3> QED BY <1>1, <1>3, <1>6, <3>4
    <2> QED BY <2>1, <2>2
<1>17. Claimed'
    <2> SUFFICES ASSUME NEW e \in Node, IsElement(e), handles'[e] > 0
                 PROVE  Passed(e)'
        BY DEF Claimed
    <2>1. CASE e \in es
        BY <1>6, <2>1
    <2>2. CASE e \notin es
        BY <1>1, <1>7, <2>2 DEF Claimed
    <2> QED BY <2>1, <2>2
<1>18. Kept'
    <2> SUFFICES ASSUME NEW x \in Handle, handle'[x].rx
                 PROVE  /\ handle'[x].path \in subs' /\ rx'[handle'[x].path] = "taken"
                        /\ handle'[x].st \in {"live", "indexing"}
        BY DEF Kept
    <2>1. CASE x = g
        BY <1>1, <1>2, <1>4, <1>12, <2>1
    <2>2. CASE x # g
        <3>1. handle[x].rx /\ handle'[x].path = handle[x].path /\ handle'[x].st \in {"live", "indexing"}
            BY <1>2, <2>2 DEF Kept
        <3>2. handle[x].path \in subs /\ rx[handle[x].path] = "taken" /\ handle[x].path \in Node
            BY <1>9, <3>1 DEF Kept
        <3>3. rx'[handle[x].path] = "taken"
            BY <1>4, <1>13, <3>2
        <3> QED BY <1>1, <3>1, <3>2, <3>3
    <2> QED BY <2>1, <2>2
<1>19. Held'
    <2>1. \A p \in Node : rx'[p] # "none" => IsDeclared[p]
        BY <1>4, <1>12 DEF Held
    <2>2. ASSUME NEW p \in subs'
          PROVE  /\ rx'[p] # "checked" /\ (IsDeclared[p] => rx'[p] # "none")
                 /\ rx'[p] \in {"taken", "gone"} => \A e \in Elements[p] : Passed(e)'
        <3>1. p \in Node
            BY <1>1, <1>3, <1>9
        <3>2. CASE p \in new
            BY <1>4, <1>5, <1>6, <3>1, <3>2 DEF Held
        <3>3. CASE p \notin new /\ p \in subs
            <4>1. rx'[p] = rx[p]
                BY <1>4, <1>12, <3>1, <3>3 DEF Held
            <4>2. \A e \in Elements[p] : Passed(e) => Passed(e)'
                BY <1>7, <3>1, ElementFacts
            <4> QED BY <1>10, <3>3, <4>1, <4>2 DEF Held
        <3> QED BY <1>1, <3>2, <3>3
    <2> QED BY <2>1, <2>2 DEF Held
<1>20. Closing'
    BY <1>1, <1>10 DEF Closing
<1>21. Lost'
    <2> SUFFICES ASSUME NEW p \in Node, p \notin subs', rx'[p] \in {"checked", "gone"}
                 PROVE  \E e \in Elements[p] : e \notin subs' /\ Passed(e)'
        BY DEF Lost
    <2>1. p \notin subs /\ p \notin new
        BY <1>1
    <2>2. rx[p] \in {"checked", "gone"}
        BY <1>4, <1>12, <2>1
    <2> QED BY <1>1, <1>8, <1>11, <2>1, <2>2
<1>22. \A p \in Node : rx[p] \in {"checked", "gone"} => rx'[p] = "gone"
    <2> TAKE p \in Node
    <2> HAVE rx[p] \in {"checked", "gone"}
    <2>1. CASE p \in subs
        BY <1>4, <1>13, <2>1 DEF Held
    <2>2. CASE p \notin subs
        BY <1>4, <1>8, <1>11, <1>12, <2>2
    <2> QED BY <2>1, <2>2
<1> QED BY <1>15, <1>16, <1>17, <1>18, <1>19, <1>20, <1>21, <1>22

-----------------------------------------------------------------------------
(* Released elements: dropping and routing                                 *)

\* `release` lowers counts and removes at most one element, within which
\* there is no other handle than the one being dropped.
LEMMA ReleaseFacts ==
    ASSUME ReleaseInv, NEW h \in Handle, DropRelease(h)
    PROVE  \E es \in SUBSET Node, counts \in [Node -> Nat] :
             /\ Remove(es, counts) /\ \A p \in Node : counts[p] <= handles[p]
             /\ \A f \in es : es = {f} /\ IsElement(f) /\ Counted(f) = {h} /\ handles[f] > 0
<1> USE DEF ReleaseInv, ElementInv, TypeInv, TypeOK
<1> DEFINE path == handle[h].path
           els == Elements[path]
           stops == {e \in els : e \notin subs \/ handles[e] <= 1}
           es == IF stops # {} /\ Outermost(stops) \in subs THEN {Outermost(stops)} ELSE {}
           counts == [p \in Node |->
                        IF p \in els /\ \A e \in stops : Len(p) < Len(e)
                        THEN handles[p] - 1 ELSE handles[p]]
<1>1. path \in Node /\ handle[h].st = "dropping"
    BY DEF HandleTypeOK, DropRelease
<1>2. \A e \in els : e \in Node /\ IsElement(e) /\ h \in Counted(e) /\ Len(e) \in Nat
    BY <1>1, ElementFacts, NodeSeq DEF Counted
<1>3. \A p \in Node : handles[p] \in Nat
    BY DEF SubsTypeOK
<1>4. \A e \in els : handles[e] > 0 /\ e \in subs
    BY <1>2, <1>3, CountedZero DEF HandlesCounted
<1>5. Remove(es, counts)
    BY DEF DropRelease
<1>6. counts \in [Node -> Nat] /\ \A p \in Node : counts[p] <= handles[p]
    <2>1. \A p \in els : handles[p] - 1 \in Nat
        BY <1>2, <1>3, <1>4
    <2>2. counts \in [Node -> Nat]
        BY <1>3, <2>1
    <2>3. \A p \in Node : counts[p] <= handles[p]
        BY <1>3
    <2> QED BY <2>2, <2>3
<1>7. stops # {} => Outermost(stops) \in stops
    BY <1>1, OutermostElement
<1>8. \A f \in es : es = {f} /\ f \in els /\ handles[f] <= 1
    BY <1>4, <1>7
<1>9. \A f \in es : es = {f} /\ IsElement(f) /\ Counted(f) = {h} /\ handles[f] > 0 /\ f \in Node
    BY <1>2, <1>4, <1>8, CountedOne
<1> HIDE DEF es, counts
<1>10. es \in SUBSET Node
    BY <1>9
<1> QED BY <1>5, <1>6, <1>9, <1>10

LEMMA DropReleaseRelease ==
    ASSUME ReleaseInv, NEW h \in Handle, DropRelease(h)
    PROVE  /\ (Nested /\ Deep /\ Claimed /\ Dropped)'
           /\ \A p \in Node : rx'[p] # rx[p] => rx[p] = "sub" /\ rx'[p] = "checked"
<1> USE DEF ReleaseInv, Around, Dropped, ElementInv, TypeInv, TypeOK
<1>1. PICK es \in SUBSET Node, counts \in [Node -> Nat] :
        /\ Remove(es, counts) /\ \A p \in Node : counts[p] <= handles[p]
        /\ \A f \in es : es = {f} /\ IsElement(f) /\ Counted(f) = {h} /\ handles[f] > 0
    BY ReleaseFacts
<1>2. /\ subs' = {p \in subs : ~Within(es, p)}
      /\ \A p \in Node :
            rx'[p] = IF p \in subs /\ Within(es, p) /\ rx[p] = "sub" THEN "checked" ELSE rx[p]
      /\ \A p \in Node : next'[p] = IF Within(es, p) THEN 0 ELSE next[p]
      /\ UNCHANGED unclaimed
    BY <1>1, RemoveFacts
<1>3. /\ lock = Nobody /\ handle[h].st = "dropping"
      /\ \A x \in Handle : /\ handle'[x].rx = handle[x].rx /\ handle'[x].path = handle[x].path
                           /\ handle'[x].st = IF x = h THEN "releasing" ELSE handle[x].st
    BY DEF DropRelease, HandleTypeOK
<1>4. unclaimed # "closed"
    BY <1>3 DEF Closing, AllDropped
<1>5. (Nested /\ Deep)'
    BY <1>1, RemoveAround
<1>6. Claimed'
    BY <1>1, RemoveClaimed
<1>7. \A p \in Node : ~Within(es, p) => \A e \in Elements[p] : Passed(e)' <=> Passed(e)
    BY <1>1, RemovePassed
<1>8. \A f \in es : f \notin subs' /\ Passed(f)'
    <2> TAKE f \in es
    <2>1. f \in Node /\ IsElement(f) /\ es = {f} /\ handles[f] > 0
        BY <1>1
    <2>2. f \in Elements[f] /\ Container(f) \in Node /\ Elements[Container(f)] = Elements[f] \ {f}
        BY <2>1, ElementSelf, ElementsOfContainer
    <2>3. Passed(f)
        BY <2>1 DEF Claimed
    <2>4. Within(es, f) /\ ~Within(es, Container(f))
        BY <2>1, <2>2 DEF Within
    <2> QED BY <1>2, <2>2, <2>3, <2>4 DEF Passed
<1>9. Kept'
    <2> SUFFICES ASSUME NEW x \in Handle, handle'[x].rx
                 PROVE  /\ handle'[x].path \in subs' /\ rx'[handle'[x].path] = "taken"
                        /\ handle'[x].st \in {"live", "indexing"}
        BY DEF Kept
    <2>1. handle[x].rx /\ x # h /\ handle'[x].path = handle[x].path /\ handle'[x].st \in {"live", "indexing"}
        BY <1>3 DEF Kept
    <2>2. ~Within(es, handle[x].path)
        <3> SUFFICES ASSUME NEW f \in es, f \in Elements[handle[x].path]
                     PROVE  FALSE
            BY DEF Within
        <3>1. x \in Counted(f)
            BY <2>1, OwnerCounted
        <3> QED BY <1>1, <2>1, <3>1
    <2>3. handle[x].path \in subs /\ rx[handle[x].path] = "taken" /\ handle[x].path \in Node
        BY <2>1 DEF Kept, HandleTypeOK
    <2> QED BY <1>2, <2>1, <2>2, <2>3
<1>10. Held'
    <2>1. \A p \in Node : rx'[p] # "none" => IsDeclared[p]
        BY <1>2 DEF Held
    <2>2. ASSUME NEW p \in subs'
          PROVE  /\ rx'[p] # "checked" /\ (IsDeclared[p] => rx'[p] # "none")
                 /\ rx'[p] \in {"taken", "gone"} => \A e \in Elements[p] : Passed(e)'
        <3>1. p \in subs /\ p \in Node /\ ~Within(es, p) /\ rx'[p] = rx[p]
            BY <1>2 DEF SubsTypeOK
        <3> QED BY <1>4, <1>7, <3>1 DEF Held
    <2> QED BY <2>1, <2>2 DEF Held
<1>11. Closing'
    BY <1>2, <1>4 DEF Closing
<1>12. Lost'
    <2> SUFFICES ASSUME NEW p \in Node, p \notin subs', rx'[p] \in {"checked", "gone"}
                 PROVE  \E e \in Elements[p] : e \notin subs' /\ Passed(e)'
        BY DEF Lost
    <2>1. CASE Within(es, p)
        BY <1>8, <2>1 DEF Within
    <2>2. CASE ~Within(es, p)
        <3>1. p \notin subs /\ rx[p] \in {"checked", "gone"}
            BY <1>2, <2>2
        <3>2. PICK e \in Elements[p] : e \notin subs /\ (Passed(e) \/ Skipping(e))
            BY <3>1 DEF Lost
        <3>3. ~Skipping(e)
            BY <1>3 DEF Skipping, Section
        <3> QED BY <1>2, <1>7, <2>2, <3>2, <3>3
    <2> QED BY <2>1, <2>2
<1> QED BY <1>2, <1>5, <1>6, <1>9, <1>10, <1>11, <1>12

\* Routing a frame subscribes to the outermost element around its path that
\* was not subscribed to, or to the path: to nothing that was passed.
LEMMA RouteFacts ==
    ASSUME ReleaseInv, NEW path \in Node, NEW n, NEW granted \in BOOLEAN, Route(path, n, granted)
    PROVE  \E sub \in SUBSET Node :
             /\ subs' = subs \cup sub /\ UNCHANGED <<handles, next, unclaimed>>
             /\ \A p \in Node : rx'[p] = IF p \in sub /\ p \notin subs /\ IsDeclared[p] THEN "sub" ELSE rx[p]
             /\ \A p \in sub : Elements[p] \subseteq subs'
             /\ \A p \in sub : p \notin subs => \A e \in Elements[p] : e \notin subs => ~Passed(e)
<1> USE DEF ReleaseInv, ElementInv, TypeInv, TypeOK
<1> DEFINE found == path \in subs /\ tx[path] # "none"
           missing == IF found THEN {} ELSE Elements[path] \ subs
           first == Outermost(missing)
           released == missing # {} /\ Position(first) < next[Container(first)]
           blocked == missing # {} /\ (~granted \/ missing # {first})
           opened == IF granted /\ missing # {} THEN {first} ELSE {}
           sub == IF blocked THEN opened ELSE opened \cup {path}
<1>0. rx \in [Node -> {"none", "sub", "taken", "checked", "gone"}]
    BY DEF SubsTypeOK
<1>1. CASE UNCHANGED <<subs, tx, rx, handles, permit, next, unclaimed, closed>>
    <2>1. {} \in SUBSET Node
        OBVIOUS
    <2> QED BY <1>1, <2>1
<1>2. CASE /\ ~released /\ subs' = subs \cup sub /\ rx' = SubscribedRx(sub)
           /\ UNCHANGED <<handles, next, unclaimed>>
    <2>1. missing # {} => /\ first \in missing /\ first \in Node /\ IsElement(first)
                          /\ first \in Elements[path]
        BY MissingFacts
    <2>2. sub \in SUBSET Node
        BY <2>1
    <2>3. \A p \in Node : rx'[p] = IF p \in sub /\ p \notin subs /\ IsDeclared[p] THEN "sub" ELSE rx[p]
        BY <1>2 DEF SubscribedRx
    <2>4. ASSUME missing # {}
          PROVE  \A e \in Elements[first] : e \in subs \/ e = first
        <3> SUFFICES ASSUME NEW e \in Elements[first], e \notin subs
                     PROVE  e = first
            OBVIOUS
        <3>1. e \in Elements[path] /\ first \in Elements[path]
            BY <2>1, <2>4, ElementsOfElement
        <3>2. e \in missing
            BY <2>1, <2>4, <3>1
        <3>3. Len(first) <= Len(e)
            BY <3>2, OutermostElement
        <3>4. Len(e) <= Len(first) /\ Len(e) \in Nat /\ Len(first) \in Nat
            <4>1. first \in Node /\ Len(e) \in Nat /\ Len(first) \in Nat
                BY <2>1, <2>4, <3>1, ElementByLength
            <4>2. Len(e) \in 1..Len(first)
                BY <4>1, ElementFacts
            <4> QED BY <4>1, <4>2
        <3> QED BY <3>1, <3>3, <3>4, ElementByLength
    <2>5. found => Elements[path] \subseteq subs
        BY DEF Around, Nested
    <2>6. ~blocked => Elements[path] \subseteq subs \cup opened
        BY <2>5
    <2>7. missing # {} => ~Passed(first)
        BY <1>2 DEF Passed
    <2>8. \A p \in sub : Elements[p] \subseteq subs'
        BY <1>2, <2>4, <2>6
    <2>9. ASSUME NEW p \in sub, p \notin subs, NEW e \in Elements[p], e \notin subs
          PROVE  ~Passed(e)
        <3>1. CASE p \in opened
            BY <2>4, <2>7, <2>9, <3>1
        <3>2. CASE p \notin opened
            <4>1. p = path /\ ~blocked
                BY <2>9, <3>2
            <4>2. e \in opened
                BY <2>6, <2>9, <4>1
            <4> QED BY <2>7, <4>2
        <3> QED BY <3>1, <3>2
    <2> HIDE DEF sub, released
    <2> QED BY <1>2, <2>2, <2>3, <2>8, <2>9
<1> QED BY <1>1, <1>2 DEF Route

LEMMA RouteRelease ==
    ASSUME ReleaseInv, NEW path \in Node, NEW n, NEW granted \in BOOLEAN, Route(path, n, granted),
           lock = Nobody, UNCHANGED handle
    PROVE  /\ (Nested /\ Deep /\ Claimed /\ Dropped)'
           /\ \A p \in Node : rx'[p] # rx[p] => rx[p] \notin {"checked", "gone"}
<1> USE DEF ReleaseInv, Around, Dropped, ElementInv, TypeInv, TypeOK
<1>1. PICK sub \in SUBSET Node :
        /\ subs' = subs \cup sub /\ UNCHANGED <<handles, next, unclaimed>>
        /\ \A p \in Node : rx'[p] = IF p \in sub /\ p \notin subs /\ IsDeclared[p] THEN "sub" ELSE rx[p]
        /\ \A p \in sub : Elements[p] \subseteq subs'
        /\ \A p \in sub : p \notin subs => \A e \in Elements[p] : e \notin subs => ~Passed(e)
    BY RouteFacts
<1>2. \A e : ~Skipping(e)
    BY DEF Skipping, Section
<1>3. \A e : Passed(e)' <=> Passed(e)
    BY <1>1 DEF Passed
<1>4. subs \subseteq Node /\ \A p \in Node : rx[p] \in {"none", "sub", "taken", "checked", "gone"}
    BY DEF SubsTypeOK
<1>5. \A p \in Node : p \notin subs /\ rx[p] \in {"checked", "gone"} =>
        \E e \in Elements[p] : e \notin subs /\ Passed(e)
    BY <1>2 DEF Lost
<1>6. Nested'
    BY <1>1 DEF Nested
<1>7. Deep' /\ Claimed'
    BY <1>1, <1>3 DEF Deep, Claimed
<1>8. Kept'
    BY <1>1, <1>4 DEF Kept
<1>9. Held'
    <2>1. \A p \in Node : rx'[p] # "none" => IsDeclared[p]
        BY <1>1 DEF Held
    <2>2. ASSUME NEW p \in subs'
          PROVE  /\ rx'[p] # "checked" /\ (IsDeclared[p] => rx'[p] # "none")
                 /\ rx'[p] \in {"taken", "gone"} => unclaimed' = "closed" \/ \A e \in Elements[p] : Passed(e)'
        <3>1. CASE p \in subs
            BY <1>1, <1>3, <1>4, <3>1 DEF Held
        <3>2. CASE p \notin subs
            <4>1. p \in sub /\ p \in Node
                BY <1>1, <3>2
            <4>2. CASE IsDeclared[p]
                BY <1>1, <3>2, <4>1, <4>2
            <4>3. CASE ~IsDeclared[p]
                BY <1>1, <4>1, <4>3 DEF Held
            <4> QED BY <4>2, <4>3
        <3> QED BY <3>1, <3>2
    <2> QED BY <2>1, <2>2 DEF Held
<1>10. Closing'
    BY <1>1 DEF Closing, AllDropped
<1>11. ASSUME NEW p \in Node, p \notin subs, p \in sub
       PROVE  rx[p] \notin {"checked", "gone"}
    BY <1>1, <1>5, <1>11
<1>12. Lost'
    <2> SUFFICES ASSUME NEW p \in Node, p \notin subs', rx'[p] \in {"checked", "gone"}
                 PROVE  \E e \in Elements[p] : e \notin subs' /\ Passed(e)'
        BY DEF Lost
    <2>1. p \notin subs /\ rx[p] \in {"checked", "gone"}
        BY <1>1
    <2>2. PICK e \in Elements[p] : e \notin subs /\ Passed(e)
        BY <1>5, <2>1
    <2>3. e \in Elements[e]
        BY <2>2, ElementsOfElement
    <2>4. e \notin sub
        BY <1>1, <2>2, <2>3
    <2> QED BY <1>1, <1>3, <2>2, <2>4
<1>13. \A p \in Node : rx'[p] # rx[p] => rx[p] \notin {"checked", "gone"}
    BY <1>1, <1>11
<1> QED BY <1>6, <1>7, <1>8, <1>9, <1>10, <1>12, <1>13

-----------------------------------------------------------------------------
(* Released elements: the other steps                                      *)

\* Steps that leave subscriptions and receivers alone.
LEMMA QuietRelease ==
    ASSUME ReleaseInv, UNCHANGED <<subs, rx, handles, next, unclaimed>>,
           \A x \in Handle : /\ handle'[x].st = handle[x].st /\ handle'[x].path = handle[x].path
                             /\ handle'[x].rx = handle[x].rx
    PROVE  (Nested /\ Deep /\ Claimed /\ Dropped)'
<1> USE DEF ReleaseInv, Around, Dropped
<1>1. \A e : Passed(e)' <=> Passed(e)
    BY DEF Passed
<1>2. \A e : Skipping(e)' <=> Skipping(e)
    BY DEF Skipping, CanTake
<1>3. (Nested /\ Deep /\ Claimed)'
    BY <1>1 DEF Nested, Deep, Claimed
<1>4. (Kept /\ Held /\ Closing)'
    BY <1>1 DEF Kept, Held, Closing, AllDropped
<1>5. Lost'
    BY <1>1, <1>2 DEF Lost
<1> QED BY <1>3, <1>4, <1>5

\* The end of a critical section that does not index anything.
LEMMA SettleRelease ==
    ASSUME ReleaseInv, NEW h \in Handle,
           (\E g \in Handle : IndexNotFound(h, g)) \/ DropFinish(h)
    PROVE  /\ (Nested /\ Deep /\ Claimed /\ Dropped)'
           /\ \A p \in Node : rx'[p] # rx[p] => rx[p] = "checked" /\ rx'[p] = "gone"
<1> USE DEF ReleaseInv, Around, Dropped, ElementInv, TypeInv, TypeOK
<1>1. /\ UNCHANGED <<subs, handles, next, unclaimed>> /\ rx' = Settled(rx)
      /\ handle[h].st \in {"indexing", "releasing"} /\ lock = h
    BY DEF IndexNotFound, DropFinish
<1>2. \A x \in Handle : handle'[x].rx =>
        /\ handle[x].rx /\ handle'[x].path = handle[x].path /\ handle'[x].st \in {"live", "indexing"}
    <2>1. ASSUME NEW g \in Handle, IndexNotFound(h, g)
          PROVE  \A x \in Handle : /\ handle'[x].rx = IF x = g THEN FALSE ELSE handle[x].rx
                                   /\ x # g => handle'[x].path = handle[x].path
                                   /\ handle'[x].st = IF x = g THEN "free" ELSE
                                                      IF x = h THEN "live" ELSE handle[x].st
        BY <2>1 DEF IndexNotFound, HandleTypeOK, Free
    <2>2. ASSUME DropFinish(h)
          PROVE  \A x \in Handle : /\ handle'[x].rx = IF x = h THEN FALSE ELSE handle[x].rx
                                   /\ x # h => handle'[x] = handle[x]
        BY <2>2 DEF DropFinish, HandleTypeOK, Free
    <2>3. CASE \E g \in Handle : IndexNotFound(h, g)
        BY <2>1, <2>3 DEF Kept
    <2>4. CASE DropFinish(h)
        BY <2>2, <2>4 DEF Kept
    <2> QED BY <2>3, <2>4
<1>3. \A e : ~Skipping(e)
    <2> SUFFICES ASSUME NEW x \in Handle, handle[x].st = "new"
                 PROVE  ~CanTake(handle[x].path)
        BY DEF Skipping
    <2>1. ~DropFinish(h)
        BY DEF Section, DropFinish
    <2>2. PICK g \in Handle : IndexNotFound(h, g)
        BY <2>1
    <2>3. x = g
        BY <2>2 DEF Section, IndexNotFound
    <2> QED BY <2>2, <2>3 DEF IndexNotFound
<1>4. \A e : Passed(e)' <=> Passed(e)
    BY <1>1 DEF Passed
<1>5. (Nested /\ Deep /\ Claimed)'
    BY <1>1, <1>4 DEF Nested, Deep, Claimed
<1>6. \A p \in Node : rx'[p] = IF rx[p] = "checked" THEN "gone" ELSE rx[p]
    BY <1>1 DEF Settled
<1>7. subs \subseteq Node
    BY DEF SubsTypeOK
<1>8. Kept'
    <2> SUFFICES ASSUME NEW x \in Handle, handle'[x].rx
                 PROVE  /\ handle'[x].path \in subs' /\ rx'[handle'[x].path] = "taken"
                        /\ handle'[x].st \in {"live", "indexing"}
        BY DEF Kept
    <2>1. handle[x].path \in subs /\ rx[handle[x].path] = "taken"
        BY <1>2 DEF Kept
    <2> QED BY <1>1, <1>2, <1>6, <1>7, <2>1
<1>9. Held'
    BY <1>1, <1>4, <1>6, <1>7 DEF Held
<1>10. Closing'
    BY <1>1 DEF Closing, AllDropped
<1>11. Lost'
    BY <1>1, <1>3, <1>4, <1>6 DEF Lost
<1> QED BY <1>5, <1>6, <1>8, <1>9, <1>10, <1>11

\* `take_reader` retains the elements around the path, which are passed.
LEMMA TakeReaderRelease ==
    ASSUME ReleaseInv, NEW h \in Handle, NEW g \in Handle, TakeReader(h, g)
    PROVE  (Nested /\ Deep /\ Claimed /\ Dropped)' /\ UNCHANGED rx
<1> USE DEF ReleaseInv, Around, Dropped, ElementInv, TypeInv, TypeOK
<1>1. /\ UNCHANGED <<subs, rx, next, unclaimed>>
      /\ handles' = Retain(handle[h].path)
      /\ handle[h].st = "live" /\ handle[h].rx /\ handle[g].st = "free"
    BY DEF TakeReader
<1>2. \A x \in Handle :
        /\ handle'[x].st = IF x = g THEN "live" ELSE handle[x].st
        /\ handle'[x].path = IF x = g THEN handle[h].path ELSE handle[x].path
        /\ handle'[x].rx => x = g \/ handle[x].rx
    BY <1>1 DEF TakeReader, HandleTypeOK
<1>3. \A e : Passed(e)' <=> Passed(e)
    BY <1>1 DEF Passed
<1>4. \A e : Skipping(e) => Skipping(e)'
    BY <1>1, <1>2 DEF Skipping, CanTake
<1>5. Claimed'
    <2> SUFFICES ASSUME NEW e \in Node, IsElement(e), handles'[e] > 0
                 PROVE  Passed(e)
        BY <1>3 DEF Claimed
    <2>1. CASE e \in Elements[handle[h].path]
        BY <1>1, <2>1, OwnerCounted
    <2>2. CASE e \notin Elements[handle[h].path]
        BY <1>1, <2>2 DEF Retain, Claimed
    <2> QED BY <2>1, <2>2
<1>6. (Nested /\ Deep)'
    BY <1>1, <1>3 DEF Nested, Deep
<1>7. Kept'
    BY <1>1, <1>2 DEF Kept
<1>8. (Held /\ Closing)'
    BY <1>1, <1>3 DEF Held, Closing, AllDropped
<1>9. Lost'
    BY <1>1, <1>3, <1>4 DEF Lost
<1> QED BY <1>1, <1>5, <1>6, <1>7, <1>8, <1>9

\* A handle drops its receiver: when it found the end, or when it is dropped.
LEMMA EndRelease ==
    ASSUME ReleaseInv, NEW h \in Handle, ReadEnd(h) \/ DropClose(h)
    PROVE  /\ (Nested /\ Deep /\ Claimed /\ Dropped)'
           /\ \A p \in Node : rx'[p] # rx[p] => rx[p] = "taken" /\ rx'[p] = "gone"
<1> USE DEF ReleaseInv, Around, Dropped, ElementInv, TypeInv, TypeOK
<1> DEFINE path == handle[h].path
<1>1. /\ UNCHANGED <<subs, handles, next, unclaimed>> /\ handle[h].st = "live" /\ path \in Node
    BY DEF ReadEnd, DropClose, HandleTypeOK
<1>2. \A p \in Node : rx'[p] = IF handle[h].rx /\ p = path THEN "gone" ELSE rx[p]
    BY DEF ReadEnd, DropClose, SubsTypeOK, HandleTypeOK
<1>3. /\ handle'[h].rx = FALSE /\ handle'[h].st # "new"
      /\ \A x \in Handle : x # h => handle'[x] = handle[x]
    <2>1. CASE ReadEnd(h)
        BY <1>1, <2>1 DEF ReadEnd, HandleTypeOK
    <2>2. CASE DropClose(h)
        BY <2>2 DEF DropClose, HandleTypeOK, Free
    <2> QED BY <2>1, <2>2
<1>4. \A e : Passed(e)' <=> Passed(e)
    BY <1>1 DEF Passed
<1>5. handle[h].rx => path \in subs /\ rx[path] = "taken" /\ \A e \in Elements[path] : Passed(e)
    BY OwnerCounted DEF Kept
<1>6. \A p \in Node : rx[p] = "sub" => rx'[p] = "sub"
    BY <1>2, <1>5
<1>7. \A e : Skipping(e) => Skipping(e)'
    <2> SUFFICES ASSUME NEW e, NEW x \in Handle, handle[x].st = "new", CanTake(handle[x].path),
                        \E f \in Elements[handle[x].path] :
                            Len(e) = Len(f) /\ Container(e) = Container(f) /\ Position(e) < Position(f)
                 PROVE  Skipping(e)'
        BY DEF Skipping
    <2>1. handle'[x] = handle[x] /\ handle[x].path \in Node
        BY <1>1, <1>3 DEF HandleTypeOK
    <2>2. CanTake(handle[x].path)'
        BY <1>1, <1>6, <2>1 DEF CanTake
    <2> QED BY <2>1, <2>2 DEF Skipping
<1>8. (Nested /\ Deep /\ Claimed)'
    BY <1>1, <1>4 DEF Nested, Deep, Claimed
<1>9. Kept'
    <2> SUFFICES ASSUME NEW x \in Handle, handle'[x].rx
                 PROVE  /\ handle'[x].path \in subs' /\ rx'[handle'[x].path] = "taken"
                        /\ handle'[x].st \in {"live", "indexing"}
        BY DEF Kept
    <2>1. x # h /\ handle'[x] = handle[x] /\ handle[x].rx /\ handle[x].path \in Node
        BY <1>3 DEF HandleTypeOK
    <2> QED BY <1>1, <1>2, <2>1 DEF Kept, Sole
<1>10. Held'
    <2>1. \A p \in Node : rx'[p] # "none" => IsDeclared[p]
        BY <1>2, <1>5 DEF Held
    <2>2. ASSUME NEW p \in subs
          PROVE  /\ rx'[p] # "checked" /\ (IsDeclared[p] => rx'[p] # "none")
                 /\ rx'[p] \in {"taken", "gone"} => unclaimed = "closed" \/ \A e \in Elements[p] : Passed(e)
        <3>1. p \in Node
            BY DEF SubsTypeOK
        <3>2. CASE handle[h].rx /\ p = path
            BY <1>2, <1>5, <3>1, <3>2
        <3>3. CASE ~(handle[h].rx /\ p = path)
            BY <1>2, <3>1, <3>3 DEF Held
        <3> QED BY <3>2, <3>3
    <2> QED BY <1>1, <1>4, <2>1, <2>2 DEF Held
<1>11. Closing'
    BY <1>1 DEF Closing, AllDropped
<1>12. Lost'
    <2> SUFFICES ASSUME NEW p \in Node, p \notin subs, rx'[p] \in {"checked", "gone"}
                 PROVE  \E e \in Elements[p] : e \notin subs /\ (Passed(e) \/ Skipping(e))
        BY <1>1, <1>4, <1>7 DEF Lost
    <2>1. rx[p] \in {"checked", "gone"}
        BY <1>2, <1>5
    <2> QED BY <2>1 DEF Lost
<1>13. \A p \in Node : rx'[p] # rx[p] => rx[p] = "taken" /\ rx'[p] = "gone"
    BY <1>2, <1>5
<1> QED BY <1>8, <1>9, <1>10, <1>11, <1>12, <1>13

LEMMA CloseRxRelease ==
    ASSUME ReleaseInv, CloseRx
    PROVE  /\ (Nested /\ Deep /\ Claimed /\ Dropped)'
           /\ \A p \in Node : rx'[p] # rx[p] => rx[p] = "sub" /\ rx'[p] = "gone"
<1> USE DEF ReleaseInv, Around, Dropped, ElementInv, TypeInv, TypeOK
<1>1. /\ UNCHANGED <<subs, handles, next, handle>> /\ unclaimed' = "closed" /\ AllDropped
      /\ lock = Nobody
    BY DEF CloseRx, CloseReceivers
<1>2. \A p \in Node : rx'[p] = IF p \in subs /\ rx[p] = "sub" THEN "gone" ELSE rx[p]
    BY DEF CloseRx, CloseReceivers
<1>3. \A e : Passed(e)' <=> Passed(e)
    BY <1>1 DEF Passed
<1>4. \A e : ~Skipping(e)
    BY <1>1 DEF Skipping, Section
<1>5. (Nested /\ Deep /\ Claimed)'
    BY <1>1, <1>3 DEF Nested, Deep, Claimed
<1>6. Kept'
    BY <1>1 DEF Kept, AllDropped
<1>7. Held'
    BY <1>1, <1>2 DEF Held, SubsTypeOK
<1>8. Closing'
    BY <1>1 DEF Closing, AllDropped
<1>9. Lost'
    BY <1>1, <1>2, <1>3, <1>4 DEF Lost
<1> QED BY <1>2, <1>5, <1>6, <1>7, <1>8, <1>9

\* Receivers change hands, and are never handed out twice.
LEMMA SoleStep ==
    ASSUME ReleaseInv, [Next]_vars
    PROVE  Sole'
<1> USE DEF ReleaseInv, Around, Dropped, ElementInv, TypeInv, TypeOK
<1>1. ASSUME \A x \in Handle : handle'[x].rx => handle[x].rx /\ handle'[x].path = handle[x].path
      PROVE  Sole'
    BY <1>1 DEF Sole
<1>2. ASSUME NEW h \in Handle, NEW g \in Handle, NEW path \in AppPath, IndexSkip(h, g, path)
      PROVE  Sole'
    <2>1. \A x \in Handle : handle'[x].rx => handle[x].rx /\ handle'[x].path = handle[x].path
        BY <1>2 DEF IndexSkip, HandleTypeOK, Free
    <2> QED BY <1>1, <2>1
<1>3. ASSUME NEW h \in Handle, NEW g \in Handle, IndexTake(h, g)
      PROVE  Sole'
    <2> DEFINE path == handle[g].path
               taken == IsDeclared[path] /\ (path \notin subs \/ rx[path] = "sub")
    <2>1. /\ handle' = [handle EXCEPT ![h].st = "live", ![g].st = "live", ![g].rx = taken]
          /\ handle[h].st = "indexing" /\ handle[g].st = "new"
        BY <1>3 DEF IndexTake
    <2>2. \A x \in Handle : handle[x].rx /\ handle[x].path = path => ~taken
        BY DEF Kept
    <2> HIDE DEF taken
    <2>3. \A x \in Handle : /\ handle'[x].path = handle[x].path
                            /\ handle'[x].rx = IF x = g THEN taken ELSE handle[x].rx
        BY <2>1 DEF HandleTypeOK
    <2> QED BY <2>2, <2>3 DEF Sole
<1>4. ASSUME NEW h \in Handle, NEW g \in Handle, IndexNotFound(h, g)
      PROVE  Sole'
    <2>1. \A x \in Handle : handle'[x].rx => handle[x].rx /\ handle'[x].path = handle[x].path
        BY <1>4 DEF IndexNotFound, HandleTypeOK, Free
    <2> QED BY <1>1, <2>1
<1>5. ASSUME NEW h \in Handle, NEW g \in Handle, TakeReader(h, g)
      PROVE  Sole'
    <2>1. /\ handle' = [handle EXCEPT ![g] = handle[h], ![h].rx = FALSE, ![h].chunk = FALSE]
          /\ handle[h].st = "live" /\ handle[g].st = "free" /\ handle[h].rx
        BY <1>5 DEF TakeReader
    <2>2. \A x \in Handle : /\ handle'[x].path = IF x = g THEN handle[h].path ELSE handle[x].path
                            /\ handle'[x].rx = IF x = h THEN FALSE ELSE IF x = g THEN TRUE ELSE handle[x].rx
        BY <2>1 DEF HandleTypeOK
    <2>3. handle[h].rx /\ \A x \in Handle : handle[x].rx /\ handle[x].path = handle[h].path => x = h
        BY <2>1 DEF Sole
    <2> SUFFICES ASSUME NEW x \in Handle, NEW y \in Handle, handle'[x].rx, handle'[y].rx,
                        handle'[x].path = handle'[y].path
                 PROVE  x = y
        BY DEF Sole
    <2>4. x # h /\ y # h
        BY <2>2
    <2>5. CASE x # g /\ y # g
        BY <2>2, <2>4, <2>5 DEF Sole
    <2>6. CASE x = g \/ y = g
        BY <2>2, <2>3, <2>4, <2>6
    <2> QED BY <2>5, <2>6
<1>6. ASSUME NEW h \in Handle,
             ReadChunk(h) \/ ReadRest(h) \/ ReadEnd(h) \/ DropClose(h) \/ DropRelease(h) \/ DropFinish(h)
      PROVE  Sole'
    <2>1. CASE ReadChunk(h) \/ ReadRest(h)
        BY <1>1, <2>1 DEF ReadChunk, ReadRest, HandleTypeOK
    <2>2. CASE ReadEnd(h)
        BY <1>1, <2>2 DEF ReadEnd, HandleTypeOK
    <2>3. CASE DropClose(h)
        BY <1>1, <2>3 DEF DropClose, HandleTypeOK, Free
    <2>4. CASE DropRelease(h)
        BY <1>1, <2>4 DEF DropRelease, HandleTypeOK
    <2>5. CASE DropFinish(h)
        BY <1>1, <2>5 DEF DropFinish, HandleTypeOK, Free
    <2> QED BY <1>6, <2>1, <2>2, <2>3, <2>4, <2>5
<1>7. ASSUME NEW h \in Handle, HandleStep(h)
      PROVE  Sole'
    BY <1>2, <1>3, <1>4, <1>5, <1>6, <1>7 DEF HandleStep, ReadEof, ReadError
<1>8. CASE UNCHANGED handle
    BY <1>8 DEF Sole
<1>9. CASE PeerStep
    BY <1>8, <1>9
    DEF PeerStep, IngressFrame, IngressUnknown, IngressData, IngressEnd, IngressBroken, IngressUnchanged
<1>10. CASE IngressStep \/ Abort
    BY <1>8, <1>10
    DEF IngressStep, IngressPermit, IngressIndexed, IngressClosed, IngressReserve, IngressPush,
        IngressFailed, SetErr, CloseTx, CloseRx, Abort, IngressUnchanged
<1>11. CASE UNCHANGED vars
    BY <1>8, <1>11 DEF vars
<1> QED BY <1>7, <1>9, <1>10, <1>11 DEF Next

\* A dropped receiver is gone for good.
Gone == \A p \in Node : rx[p] \in {"checked", "gone"} => rx'[p] \in {rx[p], "gone"}

LEMMA NextRelease ==
    ASSUME ReleaseInv, [Next]_vars
    PROVE  ReleaseInv' /\ Gone
<1>1. ElementInv' /\ Section' /\ Sole'
    BY NextElements, SectionStep, SoleStep DEF ReleaseInv, Around, ElementInv, TypeInv, TypeOK
<1> DEFINE Rest == Nested /\ Deep /\ Claimed /\ Dropped
<1> SUFFICES Rest' /\ Gone
    BY <1>1 DEF ReleaseInv, Around
<1> USE DEF ReleaseInv, ElementInv, TypeInv, TypeOK
<1>2. ASSUME NEW h \in Handle, NEW g \in Handle, NEW path \in AppPath, IndexSkip(h, g, path)
      PROVE  Rest' /\ Gone
    <2>1. \A p \in Node : rx'[p] # rx[p] => rx[p] = "sub"
        BY <1>2 DEF IndexSkip, Remove
    <2> QED BY <1>2, <2>1, IndexSkipRelease DEF Gone
<1>3. ASSUME NEW h \in Handle, NEW g \in Handle, IndexTake(h, g)
      PROVE  Rest' /\ Gone
    BY <1>3, IndexTakeRelease DEF Gone
<1>4. ASSUME NEW h \in Handle, (\E g \in Handle : IndexNotFound(h, g)) \/ DropFinish(h)
      PROVE  Rest' /\ Gone
    BY <1>4, SettleRelease DEF Gone
<1>5. ASSUME NEW h \in Handle, NEW g \in Handle, TakeReader(h, g)
      PROVE  Rest' /\ Gone
    BY <1>5, TakeReaderRelease DEF Gone
<1>6. ASSUME NEW h \in Handle, ReadEnd(h) \/ DropClose(h)
      PROVE  Rest' /\ Gone
    BY <1>6, EndRelease DEF Gone
<1>7. ASSUME NEW h \in Handle, DropRelease(h)
      PROVE  Rest' /\ Gone
    BY <1>7, DropReleaseRelease DEF Gone
<1>8. ASSUME UNCHANGED <<subs, rx, handles, next, unclaimed>>,
             \A x \in Handle : /\ handle'[x].st = handle[x].st /\ handle'[x].path = handle[x].path
                               /\ handle'[x].rx = handle[x].rx
      PROVE  Rest' /\ Gone
    BY <1>8, QuietRelease DEF Gone
<1>9. ASSUME NEW h \in Handle, ReadChunk(h) \/ ReadRest(h)
      PROVE  Rest' /\ Gone
    BY <1>8, <1>9 DEF ReadChunk, ReadRest, HandleTypeOK, subsVars
<1>10. ASSUME NEW h \in Handle, HandleStep(h)
       PROVE  Rest' /\ Gone
    BY <1>2, <1>3, <1>4, <1>5, <1>6, <1>7, <1>9, <1>10 DEF HandleStep, ReadEof, ReadError
<1>11. ASSUME NEW path \in Node, NEW n, NEW granted \in BOOLEAN, Route(path, n, granted),
              lock = Nobody, UNCHANGED handle
       PROVE  Rest' /\ Gone
    BY <1>11, RouteRelease DEF Gone
<1>12. ASSUME NEW path \in WirePath, NEW n \in 0..MaxFrameChunks, IngressFrame(path, n)
       PROVE  Rest' /\ Gone
    BY <1>11, <1>12 DEF IngressFrame, IngressUnchanged
<1>13. CASE IngressPermit \/ IngressIndexed
    <2>1. io.path \in Node
        BY DEF TaskTypeOK
    <2> QED BY <1>11, <1>13, <2>1 DEF IngressPermit, IngressIndexed, IngressUnchanged
<1>14. CASE CloseRx
    BY <1>14, CloseRxRelease DEF Gone
<1>15. CASE UNCHANGED <<subs, rx, handles, next, unclaimed, handle>>
    BY <1>8, <1>15
<1>16. CASE PeerStep
    BY <1>12, <1>15, <1>16
    DEF PeerStep, IngressUnknown, IngressData, IngressEnd, IngressBroken, IngressUnchanged, subsVars
<1>17. CASE IngressStep
    BY <1>13, <1>14, <1>15, <1>17
    DEF IngressStep, IngressClosed, IngressReserve, IngressPush, IngressFailed, SetErr, CloseTx,
        IngressUnchanged, subsVars
<1>18. CASE Abort \/ UNCHANGED vars
    BY <1>15, <1>18 DEF Abort, vars, subsVars
<1> QED BY <1>10, <1>16, <1>17, <1>18 DEF Next

LEMMA InitRelease == Init => ReleaseInv
<1> SUFFICES ASSUME Init PROVE ReleaseInv
    OBVIOUS
<1>1. ElementInv
    BY InitElements
<1>2. /\ subs = {<<>>} \cup (Declared \cap Node) /\ unclaimed = "open" /\ lock = Nobody
      /\ handles = [p \in Node |-> 0] /\ next = [p \in Node |-> 0]
      /\ rx = [p \in Node |-> IF p = <<>> THEN "taken" ELSE IF p \in subs THEN "sub" ELSE "none"]
      /\ <<>> \in Node /\ First \in Handle /\ Nobody \notin Handle
    BY NodeRoot, HandleAssumption DEF Init
<1>3. \A h \in Handle :
        /\ handle[h].path = <<>> /\ (handle[h].rx <=> h = First)
        /\ handle[h].st = IF h = First THEN "live" ELSE "free"
    BY <1>2 DEF Init, Free
<1>4. \A p \in subs : Elements[p] = {} /\ IsDeclared[p] /\ p \in Node
    <2>1. IsDeclared[<<>>]
        BY <1>2 DEF IsDeclared, Matches
    <2>2. ASSUME NEW d \in Declared, d \in Node PROVE IsDeclared[d]
        <3>1. d \in Seq(Nat) /\ Len(d) \in Nat
            BY <2>2, NodeSeq
        <3>2. Matches(d, d)
            BY <3>1 DEF Matches
        <3> QED BY <2>2, <3>2 DEF IsDeclared
    <2> QED BY <1>2, <2>1, <2>2, NodeRoot, ConcreteOutside
<1>5. Section
    BY <1>2, <1>3 DEF Section
<1>6. Nested /\ Deep /\ Claimed
    BY <1>2, <1>4 DEF Nested, Deep, Claimed
<1>7. Kept /\ Sole
    BY <1>2, <1>3 DEF Kept, Sole
<1>8. Held /\ Closing /\ Lost
    BY <1>2, <1>4 DEF Held, Closing, Lost
<1> QED BY <1>1, <1>5, <1>6, <1>7, <1>8 DEF ReleaseInv, Around, Dropped

\* A path whose receiver was dropped is never subscribed to again, whatever
\* the peer sends and whatever is indexed: an element that was released or
\* skipped is refused and not buffered for nobody.
THEOREM ReleasesAreForever == Spec => ReleasedForever
<1>1. Init => ReleaseInv
    BY InitRelease
<1>2. ReleaseInv /\ [Next]_vars => ReleaseInv'
    BY NextRelease
<1>3. ReleaseInv /\ [Next]_vars =>
        [\A p \in Node : rx[p] \in {"checked", "gone"} => rx'[p] \in {rx[p], "gone"}]_vars
    BY NextRelease DEF Gone
<1> QED BY <1>1, <1>2, <1>3, PTL DEF Spec, ReleasedForever

-----------------------------------------------------------------------------
(* Wakeups                                                                 *)

\* NoLostWakeup, during critical sections too.
Awake ==
    Running /\ io.pc = "wait" =>
        \/ indexed \/ unclaimed = "closed" \/ PermitAvailable
        \/ LET missing == Elements[io.path] \ subs
           IN  missing # {} /\ Position(Outermost(missing)) >= next[Container(Outermost(missing))]

\* Whoever removes elements notifies ingress.
LEMMA RemoveAwake ==
    ASSUME SubsTypeOK, Awake, NEW es \in SUBSET Node, NEW counts, Remove(es, counts),
           UNCHANGED <<io, task>>
    PROVE  Awake'
<1>1. CASE es # {}
    BY <1>1 DEF Remove, Notify, Awake
<1>2. CASE es = {}
    <2>1. subs' = subs /\ permit' = permit /\ unclaimed' = unclaimed /\ (indexed => indexed')
        BY <1>2 DEF Remove, Notify
    <2>2. next' = next
        BY <1>2 DEF Remove, SubsTypeOK
    <2> QED BY <2>1, <2>2 DEF Awake, Running, PermitAvailable
<1> QED BY <1>1, <1>2

LEMMA IndexTakeAwake ==
    ASSUME ReleaseInv, Awake, NEW h \in Handle, NEW g \in Handle, IndexTake(h, g)
    PROVE  Awake'
<1> USE DEF ReleaseInv, ElementInv, TypeInv, TypeOK
<1> DEFINE path == handle[g].path
           es == Elements[path]
           new == IF IsDeclared[path] THEN es \cup {path} ELSE es
<1>1. /\ path \in Node /\ subs' = subs \cup new /\ next' = Advance(es) /\ permit' = permit \ es
      /\ indexed' = (indexed \/ es # {}) /\ UNCHANGED <<io, task, unclaimed>> /\ io.path \in Node
    BY DEF IndexTake, Claim, Notify, HandleTypeOK, TaskTypeOK
<1>2. CASE es # {}
    BY <1>1, <1>2 DEF Awake
<1>3. CASE es = {}
    <2>1. next' = next
        BY <1>1, <1>3 DEF Advance, SubsTypeOK
    <2>2. ~IsElement(path)
        BY <1>1, <1>3, ElementSelf
    <2>3. \A e \in Elements[io.path] : e \notin new
        BY <1>1, <1>3, <2>2, ElementFacts
    <2>4. Elements[io.path] \ subs' = Elements[io.path] \ subs
        BY <1>1, <2>3
    <2>5. permit' = permit
        BY <1>1, <1>3
    <2> HIDE DEF new, es
    <2> QED BY <1>1, <2>1, <2>4, <2>5 DEF Awake, Running, PermitAvailable
<1> QED BY <1>2, <1>3

\* A frame that has to wait does so for an element that can still be indexed.
LEMMA RouteAwake ==
    ASSUME ReleaseInv, NEW path \in Node, NEW n, NEW granted \in BOOLEAN, Route(path, n, granted)
    PROVE  Awake'
<1> USE DEF ReleaseInv, Around, ElementInv, TypeInv, TypeOK
<1> DEFINE found == path \in subs /\ tx[path] # "none"
           missing == IF found THEN {} ELSE Elements[path] \ subs
           first == Outermost(missing)
           released == missing # {} /\ Position(first) < next[Container(first)]
           blocked == missing # {} /\ (~granted \/ missing # {first})
           opened == IF granted /\ missing # {} THEN {first} ELSE {}
           sub == IF blocked THEN opened ELSE opened \cup {path}
<1>1. CASE \E res : Return(res)
    BY <1>1 DEF Return, Idle, Awake
<1>2. CASE /\ ~released
           /\ io' = [pc |-> IF blocked THEN "wait" ELSE IF n = 0 THEN "header" ELSE "data",
                     path |-> IF ~blocked /\ n = 0 THEN <<>> ELSE path,
                     rem |-> n, res |-> "none"]
           /\ subs' = subs \cup sub /\ UNCHANGED next
    <2>1. CASE ~blocked
        BY <1>2, <2>1 DEF Awake
    <2>2. CASE blocked
        <3> DEFINE left == Elements[path] \ subs'
        <3>1. io'.path = path
            BY <1>2, <2>2
        <3>2. missing # {} /\ ~found /\ missing = Elements[path] \ subs /\ sub = opened
            BY <2>2
        <3>3. first \in missing /\ first \in Elements[path]
            BY <3>2, MissingFacts
        <3>4. left = missing \ opened
            BY <1>2, <3>2
        <3>5. left # {}
            BY <2>2, <3>3, <3>4
        <3>6. /\ Outermost(left) \in left /\ Outermost(left) \in Elements[path]
              /\ Position(Outermost(left)) \in Nat /\ Container(Outermost(left)) \in Node
              /\ Outermost(left) \in Node /\ IsElement(Outermost(left))
            BY <3>4, <3>5, OutermostElement, ElementFacts
        <3>7. \A c \in Node : next[c] \in Nat
            BY DEF SubsTypeOK
        <3> DEFINE second == Outermost(left)
        <3>8. Position(second) >= next[Container(second)]
            <4>1. CASE opened = {}
                <5>1. left = missing
                    BY <3>4, <4>1
                <5>2. second = first
                    BY <5>1
                <5>3. ~(Position(first) < next[Container(first)])
                    BY <1>2, <3>2
                <5> HIDE DEF second, left, first
                <5> QED BY <3>6, <3>7, <5>2, <5>3 DEF second
            <4>2. CASE opened # {}
                <5>1. second # first /\ second \in missing
                    BY <3>4, <3>6, <4>2
                <5>2. Len(first) <= Len(second)
                    BY <3>2, <5>1, OutermostElement
                <5>3. first \in Elements[second]
                    BY <3>3, <3>6, <5>2, ElementByLength
                <5>4. first \in Elements[Container(second)]
                    BY <3>6, <5>1, <5>3, ElementsOfContainer
                <5>5. first \notin subs
                    BY <3>2, <3>3
                <5> HIDE DEF second, left, first
                <5>6. ~(next[Container(second)] > 0)
                    BY <3>6, <5>4, <5>5 DEF Deep, second
                <5> QED BY <3>6, <3>7, <5>6 DEF second
            <4> QED BY <4>1, <4>2
        <3> HIDE DEF left, second
        <3>9. left # {} /\ Position(Outermost(left)) >= next'[Container(Outermost(left))]
            BY <1>2, <3>5, <3>8 DEF second
        <3> QED BY <3>1, <3>9 DEF Awake, left
    <2> QED BY <2>1, <2>2
<1> QED BY <1>1, <1>2 DEF Route

LEMMA AwakeStep ==
    ASSUME ReleaseInv, Awake, [Next]_vars
    PROVE  Awake'
<1> USE DEF ReleaseInv, ElementInv, TypeInv, TypeOK
<1>1. ASSUME NEW h \in Handle, NEW g \in Handle, NEW path \in AppPath, IndexSkip(h, g, path)
      PROVE  Awake'
    <2>1. Skipped(path) \in SUBSET Node
        BY SkippedFacts, AppPathAssumption
    <2> QED BY <1>1, <2>1, RemoveAwake DEF IndexSkip, taskVars
<1>2. ASSUME NEW h \in Handle, DropRelease(h)
      PROVE  Awake'
    <2>1. PICK es \in SUBSET Node, counts \in [Node -> Nat] : Remove(es, counts)
        BY <1>2, ReleaseFacts
    <2> QED BY <1>2, <2>1, RemoveAwake DEF DropRelease, taskVars
<1>3. CASE UNCHANGED <<io, task, subs, next, permit, unclaimed, indexed>>
    BY <1>3 DEF Awake, Running, PermitAvailable
<1>4. ASSUME NEW h \in Handle, HandleStep(h)
      PROVE  Awake'
    BY <1>1, <1>2, <1>3, <1>4, IndexTakeAwake
    DEF HandleStep, IndexNotFound, TakeReader, ReadChunk, ReadRest, ReadEof, ReadError, ReadEnd,
        DropClose, DropFinish, subsVars, taskVars
<1>5. ASSUME NEW path \in WirePath, NEW n \in 0..MaxFrameChunks, IngressFrame(path, n)
      PROVE  Awake'
    BY <1>5, RouteAwake DEF IngressFrame
<1>6. CASE IngressPermit \/ IngressIndexed
    <2>1. io.path \in Node
        BY DEF TaskTypeOK
    <2> QED BY <1>6, <2>1, RouteAwake DEF IngressPermit, IngressIndexed
<1>7. CASE io'.pc # "wait"
    BY <1>7 DEF Awake
<1>8. CASE CloseRx
    BY <1>8 DEF CloseRx, CloseReceivers, Awake
<1>9. CASE Abort
    BY <1>9 DEF Abort, Awake, Running
<1>10. CASE PeerStep
    BY <1>5, <1>7, <1>10
    DEF PeerStep, IngressUnknown, IngressData, IngressEnd, IngressBroken, Return, Idle, TaskTypeOK
<1>11. CASE IngressStep
    <2>1. CASE IngressClosed \/ IngressFailed
        BY <1>7, <2>1 DEF IngressClosed, IngressFailed, Return, Idle
    <2>2. CASE IngressReserve
        BY <1>7, <2>2 DEF IngressReserve, Return, Idle, TaskTypeOK
    <2>3. CASE IngressPush
        BY <1>7, <2>3 DEF IngressPush, Idle, TaskTypeOK
    <2>4. CASE SetErr \/ CloseTx
        BY <1>7, <2>4 DEF SetErr, CloseTx, TaskTypeOK
    <2> QED BY <1>6, <1>8, <1>11, <2>1, <2>2, <2>3, <2>4 DEF IngressStep
<1>12. CASE UNCHANGED vars
    BY <1>3, <1>12 DEF vars, subsVars, taskVars
<1> QED BY <1>4, <1>9, <1>10, <1>11, <1>12 DEF Next

\* Ingress that waits for elements to be indexed is woken: either it holds a
\* notification or could take a permit, or what it waits for was not passed.
\* Notifications that arrive while it is not waiting are not lost, and those
\* it consumes for nothing leave it waiting for something that can happen.
THEOREM WakeupsAreKept == Spec => []NoLostWakeup
<1>1. Init => ReleaseInv /\ Awake
    BY InitRelease DEF Init, Idle, Awake
<1>2. ReleaseInv /\ Awake /\ [Next]_vars => (ReleaseInv /\ Awake)'
    BY NextRelease, AwakeStep
<1>3. ReleaseInv /\ Awake => NoLostWakeup
    BY DEF Awake, NoLostWakeup
<1> QED BY <1>1, <1>2, <1>3, PTL DEF Spec

-----------------------------------------------------------------------------
(* Data                                                                    *)

Loaded(h) == IF handle[h].chunk THEN 1 ELSE 0

\* A receiver is where it is said to be.
Owned ==
    /\ \A p \in Node : rx[p] = "taken" => \E h \in Handle : handle[h].rx /\ handle[h].path = p
    /\ \A p \in Node : rx[p] = "sub" => p \in subs
    /\ \A h \in Handle : handle[h].chunk => handle[h].rx

\* Receivers are checked and dropped within one critical section.
Checked == lock = Nobody => ~pending /\ \A p \in Node : rx[p] # "checked"

\* Unread data is in the channel or loaded by its reader.  Once the receiver
\* is dropped there is none, or somebody was told.
NoneUnread == \A p \in Node : rx[p] = "none" => unread[p] = 0 /\ chan[p] = 0
SubUnread == \A p \in Node : rx[p] = "sub" => unread[p] = IF unclaimed = "open" THEN chan[p] ELSE 0
OwnUnread ==
    \A h \in Handle : handle[h].rx => unread[handle[h].path] = chan[handle[h].path] + Loaded(h)
GoneUnread ==
    err = "none" /\ done # "err" =>
        \A p \in Node : rx[p] = "gone" \/ (rx[p] = "checked" /\ ~pending) => unread[p] = 0
Balance == NoneUnread /\ SubUnread /\ OwnUnread /\ GoneUnread

\* What ingress delivers was subscribed to.
Target == io.pc \in {"data", "send", "push"} => rx[io.path] # "none"

\* A declared path has a sender until ingress ended, or the peer closed it.
Senders == \A p \in subs : IsDeclared[p] /\ tx[p] = "none" => closed

\* The order of events at the end of ingress, and what each one means.
Ending ==
    /\ closed => io.pc = "done"
    /\ io.pc = "ended" => io.res # "none"
    /\ io.pc \in {"closing", "done"} => io.res = "ok" \/ err # "none"
    /\ Running => done = "none" /\ io.pc # "done"
    /\ task = "lingering" => io.res = "ok" /\ io.pc = "done" /\ done = "none"
    /\ task \in {"running", "lingering"} => unclaimed = "open"
    /\ task = "draining" => /\ AllDropped /\ unclaimed = "closed"
                            /\ err = "none" \/ (io.pc = "closing" /\ io.res # "ok")
    /\ done = "ok" => task = "finished"

Stock == Owned /\ Checked /\ Balance
DataInv == ReleaseInv /\ Stock /\ Target /\ Senders /\ Ending /\ OkMeansProcessed

\* Once all handles are dropped they do nothing, and own nothing.
LEMMA AllDroppedFacts ==
    ASSUME ReleaseInv, AllDropped
    PROVE  lock = Nobody /\ \A h \in Handle : ~handle[h].rx /\ ~HandleStep(h)
<1> USE DEF ReleaseInv, Around, Dropped, ElementInv, TypeInv, TypeOK
<1>1. lock = Nobody
    BY DEF Section, AllDropped, HandleTypeOK
<1>2. \A h \in Handle : ~handle[h].rx
    BY DEF Kept, AllDropped
<1>3. \A h \in Handle : handle[h].st = "free"
    BY DEF AllDropped
<1>4. ASSUME NEW h \in Handle, HandleStep(h)
      PROVE  FALSE
    <2>1. \A g \in Handle : ~IndexTake(h, g) /\ ~IndexNotFound(h, g) /\ ~TakeReader(h, g)
        BY <1>3 DEF IndexTake, IndexNotFound, TakeReader
    <2>2. \A g \in Handle, path \in AppPath : ~IndexSkip(h, g, path)
        BY <1>3 DEF IndexSkip
    <2>3. ~ReadChunk(h) /\ ~ReadRest(h) /\ ~ReadEnd(h)
        BY <1>3 DEF ReadChunk, ReadRest, ReadEnd
    <2>4. ~DropClose(h) /\ ~DropFinish(h)
        BY <1>3 DEF DropClose, DropFinish
    <2>5. ~DropRelease(h)
        BY <1>3 DEF DropRelease
    <2> QED BY <1>4, <2>1, <2>2, <2>3, <2>4, <2>5 DEF HandleStep, ReadEof, ReadError
<1> QED BY <1>1, <1>2, <1>4

\* With a handle at work the semaphore is open.
LEMMA HandleOpen ==
    ASSUME ReleaseInv, NEW h \in Handle, handle[h].st # "free"
    PROVE  unclaimed = "open"
BY DEF ReleaseInv, Dropped, Closing, AllDropped, ElementInv, TypeInv, TypeOK, SubsTypeOK

\* Steps that leave the receivers, their data and its readers alone.
LEMMA QuietStock ==
    ASSUME ReleaseInv, Stock, UNCHANGED <<subs, rx, unclaimed, lock, pending, chan, unread, handle>>,
           err' = "none" /\ done' # "err" => err = "none" /\ done # "err"
    PROVE  Stock'
<1>1. Owned' /\ Checked'
    BY DEF Stock, Owned, Checked
<1>2. Balance'
    BY DEF Stock, Balance, NoneUnread, SubUnread, OwnUnread, GoneUnread, Loaded
<1> QED BY <1>1, <1>2 DEF Stock

\* Removing elements: their receivers are checked, so that what is found in
\* them is remembered.
LEMMA RemoveStock ==
    ASSUME ReleaseInv, Stock, NEW es \in SUBSET Node, \A e \in es : IsElement(e), NEW counts,
           Remove(es, counts), lock = Nobody, lock' # Nobody, unclaimed = "open",
           UNCHANGED <<chan, unread, err, done>>,
           \A x \in Handle : /\ handle[x].rx => handle'[x].rx /\ handle'[x].path = handle[x].path
                             /\ handle'[x].rx => /\ handle[x].rx /\ handle'[x].path = handle[x].path
                                                 /\ handle'[x].chunk = handle[x].chunk
                             /\ handle'[x].chunk => handle[x].chunk
    PROVE  Stock'
<1> USE DEF ReleaseInv, ElementInv, TypeInv, TypeOK, Stock, Balance
<1>1. /\ subs' = {p \in subs : ~Within(es, p)} /\ UNCHANGED unclaimed
      /\ \A p \in Node :
            rx'[p] = IF p \in subs /\ Within(es, p) /\ rx[p] = "sub" THEN "checked" ELSE rx[p]
    BY RemoveFacts
<1>2. \A p \in Node : p \in subs /\ Within(es, p) /\ rx[p] = "sub" /\ chan[p] > 0 => pending'
    <2>1. \A p \in Node : (\E e \in es : StartsWith(p, e)) <=> Within(es, p)
        BY WithinElement DEF Within
    <2> QED BY <2>1 DEF Remove
<1>3. \A p \in Node : rx[p] # "checked" /\ chan[p] \in Nat /\ handle \in [Handle -> [st : {"free", "new", "live", "indexing", "dropping", "releasing"}, path : Node, rx : BOOLEAN, chunk : BOOLEAN]]
    BY BoundAssumption DEF Checked, HandleTypeOK
<1>4. Owned'
    <2>1. \A p \in Node : rx'[p] = "taken" => \E x \in Handle : handle'[x].rx /\ handle'[x].path = p
        BY <1>1 DEF Owned
    <2>2. \A p \in Node : rx'[p] = "sub" => p \in subs'
        BY <1>1 DEF Owned
    <2>3. \A x \in Handle : handle'[x].chunk => handle'[x].rx
        BY DEF Owned
    <2> QED BY <2>1, <2>2, <2>3 DEF Owned
<1>5. Checked'
    BY DEF Checked
<1>6. (NoneUnread /\ SubUnread)'
    BY <1>1 DEF NoneUnread, SubUnread
<1>7. OwnUnread'
    BY DEF OwnUnread, Loaded
<1>8. GoneUnread'
    <2> SUFFICES ASSUME err = "none", done # "err", NEW p \in Node,
                        rx'[p] = "gone" \/ (rx'[p] = "checked" /\ ~pending')
                 PROVE  unread[p] = 0
        BY DEF GoneUnread
    <2>1. CASE rx'[p] = "gone"
        BY <1>1, <2>1 DEF GoneUnread
    <2>2. CASE rx'[p] = "checked" /\ ~pending'
        <3>1. rx[p] = "sub" /\ p \in subs /\ Within(es, p)
            BY <1>1, <1>3, <2>2
        <3>2. ~(chan[p] > 0)
            BY <1>2, <2>2, <3>1
        <3>3. unread[p] = chan[p]
            BY <3>1 DEF SubUnread
        <3> QED BY <1>3, <3>2, <3>3
    <2> QED BY <2>1, <2>2
<1> QED BY <1>4, <1>5, <1>6, <1>7, <1>8

LEMMA IndexTakeStock ==
    ASSUME ReleaseInv, Stock, NEW h \in Handle, NEW g \in Handle, IndexTake(h, g)
    PROVE  Stock'
<1> USE DEF ReleaseInv, Around, Dropped, ElementInv, TypeInv, TypeOK, Stock, Balance
<1> DEFINE path == handle[g].path
           es == Elements[path]
           new == IF IsDeclared[path] THEN es \cup {path} ELSE es
           taken == IsDeclared[path] /\ (path \notin subs \/ rx[path] = "sub")
<1>1. /\ path \in Node /\ handle[g].st = "new" /\ handle[h].st = "indexing" /\ lock = h
      /\ subs' = subs \cup new /\ UNCHANGED <<unclaimed, unread, done>> /\ lock' = Nobody /\ pending' = FALSE
      /\ chan' = [p \in Node |-> IF rx[p] = "checked" THEN 0 ELSE chan[p]]
    BY DEF IndexTake, HandleTypeOK, DropChecked, history
<1>2. \A p \in Node : rx'[p] = IF taken /\ p = path THEN "taken"
                               ELSE IF p \in new /\ p \notin subs /\ IsDeclared[p] THEN "sub"
                               ELSE IF rx[p] = "checked" THEN "gone" ELSE rx[p]
    BY <1>1 DEF IndexTake, SubscribedRx, Settled
<1>3. ~handle[g].rx /\ ~handle[g].chunk
    BY <1>1 DEF Kept, Owned
<1>4. /\ handle' = [handle EXCEPT ![h].st = "live", ![g].st = "live", ![g].rx = taken]
      /\ err' = IF pending /\ err = "none" THEN "broken_pipe" ELSE err
    BY DEF IndexTake, FailUnprocessed
<1>5. \A p \in new : p \in es \/ p = path
    OBVIOUS
<1>6. /\ taken => path \in new
      /\ taken => path \notin subs \/ rx[path] = "sub"
    OBVIOUS
<1> HIDE DEF taken, new, es
<1>7. \A x \in Handle : /\ handle'[x].path = handle[x].path /\ handle'[x].chunk = handle[x].chunk
                        /\ handle'[x].rx = IF x = g THEN taken ELSE handle[x].rx
    BY <1>1, <1>4 DEF HandleTypeOK
<1>8. \A p \in Node : p \in new /\ p \notin subs => rx[p] = "none"
    <2> SUFFICES ASSUME NEW p \in Node, p \in new, p \notin subs
                 PROVE  rx[p] = "none"
        OBVIOUS
    <2>1. rx[p] \notin {"checked", "gone"}
        BY <1>5, TakeFresh DEF es
    <2>2. rx[p] \notin {"sub", "taken"}
        BY DEF Owned, Kept
    <2> QED BY <2>1, <2>2 DEF SubsTypeOK
<1>9. unclaimed = "open"
    BY <1>1, HandleOpen
<1>10. \A p \in Node : rx[p] = "checked" => p \notin subs
    BY DEF Held
<1>11. \A p \in Node : chan[p] \in Nat /\ unread[p] \in Int
    BY BoundAssumption
<1>12. Owned'
    <2>1. ASSUME NEW p \in Node, rx'[p] = "taken"
          PROVE  \E x \in Handle : handle'[x].rx /\ handle'[x].path = p
        <3>1. CASE taken /\ p = path
            BY <1>7, <3>1
        <3>2. CASE ~(taken /\ p = path)
            <4>1. rx[p] = "taken"
                BY <1>2, <2>1, <3>2
            <4>2. PICK x \in Handle : handle[x].rx /\ handle[x].path = p
                BY <4>1 DEF Owned
            <4> QED BY <1>3, <1>7, <4>2
        <3> QED BY <3>1, <3>2
    <2>2. \A p \in Node : rx'[p] = "sub" => p \in subs'
        BY <1>1, <1>2 DEF Owned
    <2>3. \A x \in Handle : handle'[x].chunk => handle'[x].rx
        BY <1>3, <1>7 DEF Owned
    <2> QED BY <2>1, <2>2, <2>3 DEF Owned
<1>13. Checked'
    BY <1>1, <1>2 DEF Checked
<1>14. NoneUnread'
    BY <1>1, <1>2 DEF NoneUnread
<1>15. SubUnread'
    <2> SUFFICES ASSUME NEW p \in Node, rx'[p] = "sub"
                 PROVE  unread[p] = chan'[p]
        BY <1>1, <1>9 DEF SubUnread
    <2>1. CASE p \in new /\ p \notin subs
        BY <1>1, <1>8, <2>1 DEF NoneUnread
    <2>2. CASE ~(p \in new /\ p \notin subs)
        <3>1. rx[p] = "sub"
            BY <1>2, <2>2
        <3> QED BY <1>1, <1>9, <3>1 DEF SubUnread
    <2> QED BY <2>1, <2>2
<1>16. OwnUnread'
    <2> SUFFICES ASSUME NEW x \in Handle, handle'[x].rx
                 PROVE  unread[handle[x].path] = chan'[handle[x].path] + Loaded(x)
        BY <1>1, <1>7 DEF OwnUnread, Loaded
    <2>1. CASE x = g
        <3>1. taken /\ Loaded(x) = 0
            BY <1>3, <1>7, <2>1 DEF Loaded
        <3>2. CASE path \in subs
            <4>1. rx[path] = "sub"
                BY <1>6, <3>1, <3>2
            <4> QED BY <1>1, <1>9, <1>11, <2>1, <3>1, <4>1 DEF SubUnread
        <3>3. CASE path \notin subs
            <4>1. rx[path] = "none"
                BY <1>1, <1>6, <1>8, <3>1, <3>3
            <4> QED BY <1>1, <1>11, <2>1, <3>1, <4>1 DEF NoneUnread
        <3> QED BY <3>2, <3>3
    <2>2. CASE x # g
        <3>1. handle[x].rx /\ handle[x].path \in Node /\ rx[handle[x].path] = "taken"
            BY <1>7, <2>2 DEF Kept, HandleTypeOK
        <3> QED BY <1>1, <3>1 DEF OwnUnread
    <2> QED BY <2>1, <2>2
<1>17. GoneUnread'
    <2> SUFFICES ASSUME err' = "none", done # "err", NEW p \in Node, rx'[p] = "gone"
                 PROVE  unread[p] = 0
        BY <1>1, <1>13 DEF GoneUnread, Checked
    <2>1. err = "none" /\ ~pending
        BY <1>4
    <2>2. rx[p] \in {"checked", "gone"}
        BY <1>2
    <2> QED BY <2>1, <2>2 DEF GoneUnread
<1> QED BY <1>12, <1>13, <1>14, <1>15, <1>16, <1>17

\* The end of a critical section that does not index anything.
LEMMA SettleStock ==
    ASSUME ReleaseInv, Stock, NEW h \in Handle,
           (\E g \in Handle : IndexNotFound(h, g)) \/ DropFinish(h)
    PROVE  Stock'
<1> USE DEF ReleaseInv, Around, Dropped, ElementInv, TypeInv, TypeOK, Stock, Balance
<1>1. /\ UNCHANGED <<subs, unclaimed, unread, done>> /\ rx' = Settled(rx)
      /\ lock' = Nobody /\ pending' = FALSE
      /\ chan' = [p \in Node |-> IF rx[p] = "checked" THEN 0 ELSE chan[p]]
      /\ err' = IF pending /\ err = "none" THEN "broken_pipe" ELSE err
    BY DEF IndexNotFound, DropFinish, DropChecked, FailUnprocessed, history
<1>2. \A p \in Node : rx'[p] = IF rx[p] = "checked" THEN "gone" ELSE rx[p]
    BY <1>1 DEF Settled
<1>3. ASSUME NEW x \in Handle
      PROVE  /\ handle[x].rx <=> handle'[x].rx
             /\ handle[x].rx => handle'[x].path = handle[x].path
             /\ handle'[x].chunk => handle[x].chunk
             /\ handle[x].rx => handle'[x].chunk = handle[x].chunk
    <2>1. ASSUME NEW g \in Handle, IndexNotFound(h, g)
          PROVE  /\ handle'[x] = Free \/ handle'[x] = handle[x] \/ handle'[x] = [handle[x] EXCEPT !.st = "live"]
                 /\ handle'[x] = Free => ~handle[x].rx
        BY <2>1 DEF IndexNotFound, HandleTypeOK, Free, Kept
    <2>2. ASSUME DropFinish(h)
          PROVE  /\ handle'[x] = Free \/ handle'[x] = handle[x]
                 /\ handle'[x] = Free => ~handle[x].rx
        BY <2>2 DEF DropFinish, HandleTypeOK, Free, Kept
    <2>3. \/ handle'[x] = Free /\ ~handle[x].rx
          \/ handle'[x] = handle[x]
          \/ handle'[x] = [handle[x] EXCEPT !.st = "live"]
        BY <2>1, <2>2
    <2>4. CASE handle'[x] = Free /\ ~handle[x].rx
        <3>1. handle'[x].rx = FALSE /\ handle'[x].chunk = FALSE
            BY <2>4 DEF Free
        <3> QED BY <2>4, <3>1
    <2>5. CASE handle'[x] = [handle[x] EXCEPT !.st = "live"]
        <3>1. /\ handle'[x].rx = handle[x].rx /\ handle'[x].path = handle[x].path
              /\ handle'[x].chunk = handle[x].chunk
            BY <2>5 DEF HandleTypeOK
        <3> QED BY <3>1
    <2> QED BY <2>3, <2>4, <2>5
<1>4. Owned'
    BY <1>1, <1>2, <1>3 DEF Owned
<1>5. Checked'
    BY <1>1, <1>2 DEF Checked
<1>6. (NoneUnread /\ SubUnread)'
    BY <1>1, <1>2 DEF NoneUnread, SubUnread
<1>7. OwnUnread'
    <2> SUFFICES ASSUME NEW x \in Handle, handle[x].rx
                 PROVE  unread[handle[x].path] = chan'[handle[x].path] + Loaded(x)
        BY <1>1, <1>3 DEF OwnUnread, Loaded
    <2>1. handle[x].path \in Node /\ rx[handle[x].path] = "taken"
        BY DEF Kept, HandleTypeOK
    <2> QED BY <1>1, <2>1 DEF OwnUnread
<1>8. GoneUnread'
    <2> SUFFICES ASSUME err' = "none", done # "err", NEW p \in Node, rx'[p] = "gone"
                 PROVE  unread[p] = 0
        BY <1>1, <1>5 DEF GoneUnread, Checked
    <2>1. err = "none" /\ ~pending
        BY <1>1
    <2>2. rx[p] \in {"checked", "gone"}
        BY <1>2
    <2> QED BY <2>1, <2>2 DEF GoneUnread
<1> QED BY <1>4, <1>5, <1>6, <1>7, <1>8

\* The receiver passes on to the reader, with what is loaded of it.
LEMMA TakeReaderStock ==
    ASSUME ReleaseInv, Stock, NEW h \in Handle, NEW g \in Handle, TakeReader(h, g)
    PROVE  Stock'
<1> USE DEF ReleaseInv, Around, Dropped, ElementInv, TypeInv, TypeOK, Stock, Balance
<1>1. /\ UNCHANGED <<subs, rx, unclaimed, lock, pending, chan, unread, err, done>>
      /\ handle' = [handle EXCEPT ![g] = handle[h], ![h].rx = FALSE, ![h].chunk = FALSE]
      /\ handle[h].st = "live" /\ handle[h].rx /\ handle[g].st = "free"
    BY DEF TakeReader, lockVars, taskVars, history
<1>2. g # h /\ ~handle[g].rx
    BY <1>1 DEF Kept
<1>3. /\ handle'[g] = handle[h] /\ ~handle'[h].rx /\ ~handle'[h].chunk
      /\ \A x \in Handle : x \notin {g, h} => handle'[x] = handle[x]
    BY <1>1, <1>2 DEF HandleTypeOK
<1>4. Owned'
    <2>1. ASSUME NEW p \in Node, rx[p] = "taken"
          PROVE  \E x \in Handle : handle'[x].rx /\ handle'[x].path = p
        <3>1. PICK x \in Handle : handle[x].rx /\ handle[x].path = p
            BY <2>1 DEF Owned
        <3>2. CASE x = h
            BY <1>3, <3>1, <3>2
        <3>3. CASE x # h
            BY <1>2, <1>3, <3>1, <3>3
        <3> QED BY <3>2, <3>3
    <2>2. \A x \in Handle : handle'[x].chunk => handle'[x].rx
        BY <1>3 DEF Owned
    <2> QED BY <1>1, <2>1, <2>2 DEF Owned
<1>5. (Checked /\ NoneUnread /\ SubUnread /\ GoneUnread)'
    BY <1>1 DEF Checked, NoneUnread, SubUnread, GoneUnread
<1>6. OwnUnread'
    <2> SUFFICES ASSUME NEW x \in Handle, handle'[x].rx
                 PROVE  unread[handle'[x].path] = chan[handle'[x].path] + (IF handle'[x].chunk THEN 1 ELSE 0)
        BY <1>1 DEF OwnUnread, Loaded
    <2>1. CASE x = g
        <3>1. unread[handle[h].path] = chan[handle[h].path] + (IF handle[h].chunk THEN 1 ELSE 0)
            BY <1>1 DEF OwnUnread, Loaded
        <3>2. handle'[x] = handle[h]
            BY <1>3, <2>1
        <3> QED BY <3>1, <3>2
    <2>2. CASE x # g
        BY <1>3, <2>2 DEF OwnUnread, Loaded
    <2> QED BY <2>1, <2>2
<1> QED BY <1>4, <1>5, <1>6

\* A chunk is loaded, and then read to its end, by the only reader.
LEMMA ReadStock ==
    ASSUME ReleaseInv, Stock, NEW h \in Handle, ReadChunk(h) \/ ReadRest(h)
    PROVE  Stock'
<1> USE DEF ReleaseInv, Around, Dropped, ElementInv, TypeInv, TypeOK, Stock, Balance
<1> DEFINE path == handle[h].path
           more == IF ReadChunk(h) THEN 1 ELSE 0
<1>1. /\ UNCHANGED <<subs, rx, unclaimed, lock, pending, err, done>>
      /\ \A x \in Handle : handle'[x].rx = handle[x].rx /\ handle'[x].path = handle[x].path
      /\ \A x \in Handle : x # h => handle'[x].chunk = handle[x].chunk
    BY DEF ReadChunk, ReadRest, HandleTypeOK, subsVars, lockVars, taskVars
<1>2. path \in Node /\ handle[h].rx /\ rx[path] = "taken"
    BY DEF ReadChunk, ReadRest, Kept, Owned, HandleTypeOK
<1>3. \A p \in Node : chan[p] \in Int /\ unread[p] \in Int
    OBVIOUS
<1>4. \A p \in Node : p # path => chan'[p] = chan[p] /\ unread'[p] = unread[p]
    BY <1>2 DEF ReadChunk, ReadRest, history
<1>5. unread'[path] = chan'[path] + (IF handle'[h].chunk THEN 1 ELSE 0)
    <2>1. CASE ReadChunk(h)
        <3>1. /\ chan'[path] = chan[path] - 1 /\ unread'[path] = unread[path]
              /\ handle'[h].chunk = TRUE /\ ~handle[h].chunk
            BY <1>2, <2>1 DEF ReadChunk, history, HandleTypeOK
        <3>2. unread[path] = chan[path]
            BY <1>2, <1>3, <3>1 DEF OwnUnread, Loaded
        <3> QED BY <1>2, <1>3, <3>1, <3>2
    <2>2. CASE ReadRest(h)
        <3>1. /\ chan'[path] = chan[path] /\ unread'[path] = unread[path] - 1
              /\ handle'[h].chunk = FALSE /\ handle[h].chunk
            BY <1>2, <2>2 DEF ReadRest, HandleTypeOK
        <3>2. unread[path] = chan[path] + 1
            BY <1>2, <3>1 DEF OwnUnread, Loaded
        <3> QED BY <1>2, <1>3, <3>1, <3>2
    <2> QED BY <2>1, <2>2
<1>6. Owned'
    BY <1>1, <1>2 DEF Owned
<1>7. Checked'
    BY <1>1 DEF Checked
<1>8. (NoneUnread /\ SubUnread)'
    BY <1>1, <1>2, <1>4 DEF NoneUnread, SubUnread
<1>9. GoneUnread'
    BY <1>1, <1>2, <1>4 DEF GoneUnread
<1>10. OwnUnread'
    <2> SUFFICES ASSUME NEW x \in Handle, handle[x].rx
                 PROVE  unread'[handle[x].path] = chan'[handle[x].path] + (IF handle'[x].chunk THEN 1 ELSE 0)
        BY <1>1 DEF OwnUnread, Loaded
    <2>1. CASE x = h
        BY <1>5, <2>1
    <2>2. CASE x # h
        <3>1. handle[x].path # path /\ handle[x].path \in Node
            BY <1>2, <2>2 DEF Sole, HandleTypeOK
        <3> QED BY <1>1, <1>4, <2>2, <3>1 DEF OwnUnread, Loaded
    <2> QED BY <2>1, <2>2
<1> QED BY <1>6, <1>7, <1>8, <1>9, <1>10

\* A receiver is dropped by its handle: nothing was left, or ingress fails.
LEMMA EndStock ==
    ASSUME ReleaseInv, Stock, NEW h \in Handle, ReadEnd(h) \/ DropClose(h)
    PROVE  Stock'
<1> USE DEF ReleaseInv, Around, Dropped, ElementInv, TypeInv, TypeOK, Stock, Balance
<1> DEFINE path == handle[h].path
<1>1. /\ UNCHANGED <<subs, unclaimed, lock, pending, unread, done>> /\ path \in Node
      /\ err' = "none" => err = "none"
    BY DEF ReadEnd, DropClose, HandleTypeOK, lockVars, taskVars, history, FailUnprocessed
<1>2. \A p \in Node : /\ rx'[p] = IF handle[h].rx /\ p = path THEN "gone" ELSE rx[p]
                      /\ chan'[p] = IF handle[h].rx /\ p = path THEN 0 ELSE chan[p]
    <2>1. CASE ReadEnd(h)
        BY <1>1, <2>1 DEF ReadEnd, SubsTypeOK
    <2>2. CASE DropClose(h)
        BY <1>1, <2>2 DEF DropClose, SubsTypeOK
    <2> QED BY <2>1, <2>2
<1>3. /\ ~handle'[h].rx /\ ~handle'[h].chunk
      /\ \A x \in Handle : x # h => handle'[x] = handle[x]
    <2>1. CASE ReadEnd(h)
        BY <1>1, <2>1 DEF ReadEnd, HandleTypeOK
    <2>2. CASE DropClose(h)
        BY <2>2 DEF DropClose, HandleTypeOK, Free
    <2> QED BY <2>1, <2>2
<1>4. handle[h].rx => rx[path] = "taken"
    BY DEF Kept
<1>5. handle[h].rx /\ err' = "none" => unread[path] = 0
    <2> SUFFICES ASSUME handle[h].rx, err' = "none"
                 PROVE  unread[path] = 0
        OBVIOUS
    <2>1. chan[path] = 0 /\ ~handle[h].chunk
        <3>1. CASE ReadEnd(h)
            BY <3>1 DEF ReadEnd
        <3>2. CASE DropClose(h)
            <4>1. ~(handle[h].chunk \/ chan[path] > 0)
                BY <3>2 DEF DropClose, FailUnprocessed
            <4>2. chan[path] \in Nat
                BY <1>1, BoundAssumption
            <4> QED BY <4>1, <4>2
        <3> QED BY <3>1, <3>2
    <2> QED BY <2>1 DEF OwnUnread, Loaded
<1>6. Owned'
    <2>1. ASSUME NEW p \in Node, rx'[p] = "taken"
          PROVE  \E x \in Handle : handle'[x].rx /\ handle'[x].path = p
        <3>1. rx[p] = "taken" /\ ~(handle[h].rx /\ p = path)
            BY <1>2, <2>1
        <3>2. PICK x \in Handle : handle[x].rx /\ handle[x].path = p
            BY <3>1 DEF Owned
        <3>3. x # h
            BY <3>1, <3>2
        <3> QED BY <1>3, <3>2, <3>3
    <2>2. \A p \in Node : rx'[p] = "sub" => p \in subs'
        BY <1>1, <1>2 DEF Owned
    <2>3. \A x \in Handle : handle'[x].chunk => handle'[x].rx
        BY <1>3 DEF Owned
    <2> QED BY <2>1, <2>2, <2>3 DEF Owned
<1>7. Checked'
    BY <1>1, <1>2 DEF Checked
<1>8. (NoneUnread /\ SubUnread)'
    BY <1>1, <1>2 DEF NoneUnread, SubUnread
<1>9. OwnUnread'
    <2> SUFFICES ASSUME NEW x \in Handle, handle'[x].rx
                 PROVE  unread[handle'[x].path] = chan'[handle'[x].path] + (IF handle'[x].chunk THEN 1 ELSE 0)
        BY <1>1 DEF OwnUnread, Loaded
    <2>1. x # h /\ handle'[x] = handle[x] /\ handle[x].rx /\ handle[x].path \in Node
        BY <1>3 DEF HandleTypeOK
    <2>2. ~(handle[h].rx /\ handle[x].path = path)
        BY <2>1 DEF Sole
    <2> QED BY <1>2, <2>1, <2>2 DEF OwnUnread, Loaded
<1>10. GoneUnread'
    <2> SUFFICES ASSUME err' = "none", done # "err", NEW p \in Node,
                        rx'[p] = "gone" \/ (rx'[p] = "checked" /\ ~pending)
                 PROVE  unread[p] = 0
        BY <1>1 DEF GoneUnread
    <2>1. CASE handle[h].rx /\ p = path
        BY <1>5, <2>1
    <2>2. CASE ~(handle[h].rx /\ p = path)
        BY <1>1, <1>2, <2>2 DEF GoneUnread
    <2> QED BY <2>1, <2>2
<1> QED BY <1>6, <1>7, <1>8, <1>9, <1>10

\* New subscriptions are empty.
LEMMA RouteStock ==
    ASSUME ReleaseInv, Stock, NEW path \in Node, NEW n, NEW granted \in BOOLEAN,
           Route(path, n, granted), lock = Nobody,
           UNCHANGED <<lock, pending, chan, unread, handle, err, done>>
    PROVE  Stock'
<1> USE DEF ReleaseInv, Around, Dropped, ElementInv, TypeInv, TypeOK, Stock, Balance
<1>1. PICK sub \in SUBSET Node :
        /\ subs' = subs \cup sub /\ UNCHANGED unclaimed
        /\ \A p \in Node : rx'[p] = IF p \in sub /\ p \notin subs /\ IsDeclared[p] THEN "sub" ELSE rx[p]
    BY RouteFacts
<1>2. \A p \in Node : rx'[p] # rx[p] => rx[p] \notin {"checked", "gone"}
    BY RouteRelease
<1>3. \A p \in Node : rx'[p] # rx[p] => rx[p] = "none" /\ rx'[p] = "sub" /\ p \in subs'
    <2> TAKE p \in Node
    <2> HAVE rx'[p] # rx[p]
    <2>1. p \notin subs /\ rx'[p] = "sub" /\ p \in subs'
        BY <1>1
    <2>2. rx[p] \notin {"sub", "taken"}
        BY <2>1 DEF Owned, Kept
    <2> QED BY <1>2, <2>1, <2>2 DEF SubsTypeOK
<1>4. \A p \in Node : chan[p] \in Int /\ unread[p] \in Int
    OBVIOUS
<1>5. Owned'
    BY <1>1, <1>3 DEF Owned
<1>6. Checked'
    BY <1>3 DEF Checked
<1>7. NoneUnread'
    BY <1>3 DEF NoneUnread
<1>8. SubUnread'
    BY <1>1, <1>3, <1>4 DEF SubUnread, NoneUnread
<1>9. OwnUnread'
    BY DEF OwnUnread, Loaded
<1>10. GoneUnread'
    BY <1>3 DEF GoneUnread
<1> QED BY <1>5, <1>6, <1>7, <1>8, <1>9, <1>10

\* A chunk is counted if somebody can still read it.
LEMMA PushStock ==
    ASSUME ReleaseInv, Stock, Target, Ending, IngressPush
    PROVE  Stock'
<1> USE DEF ReleaseInv, Around, Dropped, ElementInv, TypeInv, TypeOK, Stock, Balance
<1> DEFINE path == io.path
<1>1. /\ UNCHANGED <<subs, rx, unclaimed, lock, pending, handle, err, done>> /\ path \in Node
      /\ rx[path] # "none" /\ task \in {"running", "draining"}
    BY DEF IngressPush, subsVars, lockVars, TaskTypeOK, Target, Running
<1>2. \A p \in Node : /\ chan[p] \in Int /\ unread[p] \in Int
                      /\ p # path => chan'[p] = chan[p] /\ unread'[p] = unread[p]
    BY <1>1 DEF IngressPush
<1>3. rx[path] \in {"checked", "gone"} => unread'[path] = unread[path]
    BY DEF IngressPush
<1>4. rx[path] \in {"sub", "taken"} =>
        /\ chan'[path] = chan[path] + 1
        /\ unread'[path] = IF task = "draining" THEN unread[path] ELSE unread[path] + 1
    BY <1>1 DEF IngressPush
<1>5. task = "draining" => unclaimed = "closed" /\ \A h \in Handle : ~handle[h].rx
    BY AllDroppedFacts DEF Ending
<1>6. task # "draining" => unclaimed = "open"
    BY <1>1 DEF Ending
<1>7. Owned' /\ Checked'
    BY <1>1 DEF Owned, Checked
<1>8. NoneUnread'
    BY <1>1, <1>2 DEF NoneUnread
<1>9. SubUnread'
    <2> SUFFICES ASSUME NEW p \in Node, rx[p] = "sub"
                 PROVE  unread'[p] = IF unclaimed = "open" THEN chan'[p] ELSE 0
        BY <1>1 DEF SubUnread
    <2>1. unread[p] = IF unclaimed = "open" THEN chan[p] ELSE 0
        BY DEF SubUnread
    <2> QED BY <1>2, <1>4, <1>5, <1>6, <2>1
<1>10. OwnUnread'
    <2> SUFFICES ASSUME NEW h \in Handle, handle[h].rx
                 PROVE  unread'[handle[h].path] = chan'[handle[h].path] + Loaded(h)
        BY <1>1 DEF OwnUnread, Loaded
    <2>1. /\ handle[h].path \in Node /\ rx[handle[h].path] = "taken"
          /\ unread[handle[h].path] = chan[handle[h].path] + Loaded(h)
          /\ Loaded(h) \in Int /\ task # "draining"
        BY <1>5 DEF Kept, HandleTypeOK, OwnUnread, Loaded
    <2> QED BY <1>2, <1>4, <2>1
<1>11. GoneUnread'
    BY <1>1, <1>2, <1>3 DEF GoneUnread
<1> QED BY <1>7, <1>8, <1>9, <1>10, <1>11

\* Receivers nobody took are dropped: with data in them that is an error.
LEMMA CloseRxStock ==
    ASSUME ReleaseInv, Stock, Ending, CloseRx
    PROVE  Stock'
<1> USE DEF ReleaseInv, Around, Dropped, ElementInv, TypeInv, TypeOK, Stock, Balance
<1> DEFINE found == \E p \in subs : rx[p] = "sub" /\ chan[p] > 0
<1>1. /\ UNCHANGED <<subs, lock, pending, handle, unread, err>> /\ unclaimed' = "closed" /\ AllDropped
      /\ lock = Nobody /\ (found => done' = "err") /\ (done' # "err" => done = "none" \/ done' = "ok" \/ done' = done)
      /\ task \in {"lingering", "running"}
    BY DEF CloseRx, CloseReceivers, lockVars, history
<1>2. \A p \in Node : rx'[p] = IF rx[p] = "sub" THEN "gone" ELSE rx[p]
    BY DEF CloseRx, CloseReceivers, Owned
<1>3. \A p \in Node : chan'[p] = IF rx[p] = "sub" THEN 0 ELSE chan[p]
    BY DEF CloseRx, CloseReceivers, Owned
<1>4. \A h \in Handle : ~handle[h].rx
    BY <1>1, AllDroppedFacts
<1>5. Owned'
    BY <1>1, <1>2 DEF Owned
<1>6. Checked'
    BY <1>1, <1>2 DEF Checked
<1>7. NoneUnread'
    BY <1>1, <1>2, <1>3 DEF NoneUnread
<1>8. SubUnread'
    BY <1>2 DEF SubUnread
<1>9. OwnUnread'
    BY <1>1, <1>4 DEF OwnUnread
<1>10. GoneUnread'
    <2> SUFFICES ASSUME err = "none", done' # "err", NEW p \in Node, rx'[p] = "gone"
                 PROVE  unread[p] = 0
        BY <1>1, <1>6 DEF GoneUnread, Checked
    <2>1. done = "none" /\ unclaimed = "open"
        BY <1>1 DEF Ending, Running
    <2>2. CASE rx[p] = "sub"
        <3>1. p \in subs /\ ~(chan[p] > 0) /\ chan[p] \in Nat
            BY <1>1, <2>2, BoundAssumption DEF Owned
        <3>2. unread[p] = chan[p]
            BY <2>1, <2>2 DEF SubUnread
        <3> QED BY <3>1, <3>2
    <2>3. CASE rx[p] # "sub"
        BY <1>2, <2>1, <2>3 DEF GoneUnread
    <2> QED BY <2>2, <2>3
<1> QED BY <1>5, <1>6, <1>7, <1>8, <1>9, <1>10

LEMMA StockStep ==
    ASSUME ReleaseInv, Stock, Target, Ending, [Next]_vars
    PROVE  Stock'
<1> USE DEF ReleaseInv, ElementInv, TypeInv, TypeOK
<1>1. ASSUME NEW h \in Handle, NEW g \in Handle, NEW path \in AppPath, IndexSkip(h, g, path)
      PROVE  Stock'
    <2>1. /\ Skipped(path) \in SUBSET Node /\ \A e \in Skipped(path) : IsElement(e)
          /\ Remove(Skipped(path), handles) /\ path \in Node
        BY <1>1, SkippedFacts, AppPathAssumption DEF IndexSkip
    <2>2. /\ lock = Nobody /\ lock' = h /\ h # Nobody /\ handle[h].st = "live" /\ handle[g].st = "free"
          /\ UNCHANGED <<chan, unread, err, done>>
        BY <1>1, HandleAssumption DEF IndexSkip, taskVars, history
    <2>3. unclaimed = "open"
        BY <2>2, HandleOpen
    <2>4. ~handle[g].rx /\ ~handle[g].chunk
        BY <2>2 DEF Dropped, Kept, Stock, Owned
    <2>5. ASSUME NEW x \in Handle
          PROVE  /\ handle[x].rx => handle'[x].rx /\ handle'[x].path = handle[x].path
                 /\ handle'[x].rx => /\ handle[x].rx /\ handle'[x].path = handle[x].path
                                     /\ handle'[x].chunk = handle[x].chunk
                 /\ handle'[x].chunk => handle[x].chunk
        <3>1. CASE x = g
            <4>1. handle'[x].rx = FALSE /\ handle'[x].chunk = FALSE
                BY <1>1, <2>2, <3>1 DEF IndexSkip, Free, HandleTypeOK
            <4> QED BY <2>4, <3>1, <4>1
        <3>2. CASE x # g
            <4>1. /\ handle'[x].rx = handle[x].rx /\ handle'[x].path = handle[x].path
                  /\ handle'[x].chunk = handle[x].chunk
                BY <1>1, <3>2 DEF IndexSkip, HandleTypeOK
            <4> QED BY <4>1
        <3> QED BY <3>1, <3>2
    <2> QED BY <2>1, <2>2, <2>3, <2>5, RemoveStock
<1>2. ASSUME NEW h \in Handle, DropRelease(h)
      PROVE  Stock'
    <2>1. PICK es \in SUBSET Node, counts \in [Node -> Nat] :
            Remove(es, counts) /\ \A e \in es : IsElement(e)
        BY <1>2, ReleaseFacts
    <2>2. /\ lock = Nobody /\ lock' = h /\ h # Nobody /\ handle[h].st = "dropping"
          /\ UNCHANGED <<chan, unread, err, done>>
        BY <1>2, HandleAssumption DEF DropRelease, taskVars, history
    <2>3. unclaimed = "open"
        BY <2>2, HandleOpen
    <2>4. \A x \in Handle : /\ handle'[x].rx = handle[x].rx /\ handle'[x].path = handle[x].path
                            /\ handle'[x].chunk = handle[x].chunk
        BY <1>2 DEF DropRelease, HandleTypeOK
    <2> QED BY <2>1, <2>2, <2>3, <2>4, RemoveStock
<1>3. ASSUME NEW h \in Handle, HandleStep(h)
      PROVE  Stock'
    BY <1>1, <1>2, <1>3, IndexTakeStock, SettleStock, TakeReaderStock, ReadStock, EndStock
    DEF HandleStep, ReadEof, ReadError
<1>4. ASSUME NEW path \in WirePath, NEW n \in 0..MaxFrameChunks, IngressFrame(path, n)
      PROVE  Stock'
    BY <1>4, RouteStock DEF IngressFrame, IngressUnchanged, lockVars, history
<1>5. CASE IngressPermit \/ IngressIndexed
    <2>1. io.path \in Node
        BY DEF TaskTypeOK
    <2> QED BY <1>5, <2>1, RouteStock
            DEF IngressPermit, IngressIndexed, IngressUnchanged, lockVars, history
<1>6. CASE /\ UNCHANGED <<subs, rx, unclaimed, lock, pending, chan, unread, handle>>
           /\ err' = "none" /\ done' # "err" => err = "none" /\ done # "err"
    BY <1>6, QuietStock
<1>7. CASE PeerStep
    BY <1>4, <1>6, <1>7
    DEF PeerStep, IngressUnknown, IngressData, IngressEnd, IngressBroken, IngressUnchanged,
        subsVars, lockVars, history
<1>8. CASE CloseTx
    BY <1>6, <1>8 DEF CloseTx, CloseSenders, lockVars, history, Ending
<1>9. CASE SetErr
    BY <1>6, <1>9 DEF SetErr, subsVars, lockVars, history
<1>10. CASE IngressStep
    BY <1>5, <1>6, <1>8, <1>9, <1>10, PushStock, CloseRxStock
    DEF IngressStep, IngressClosed, IngressReserve, IngressFailed, IngressUnchanged,
        subsVars, lockVars, history
<1>11. CASE Abort \/ UNCHANGED vars
    BY <1>6, <1>11 DEF Abort, vars, subsVars, lockVars, taskVars, history
<1> QED BY <1>3, <1>7, <1>10, <1>11 DEF Next

\* A receiver that was subscribed to is never as if it had not been.
LEMMA RxForever ==
    ASSUME SubsTypeOK, HandleTypeOK, TaskTypeOK, [Next]_vars
    PROVE  \A p \in Node : rx[p] # "none" => rx'[p] # "none"
<1> DEFINE Fine == \A p \in Node : rx[p] # "none" => rx'[p] # "none"
<1>1. ASSUME NEW es, NEW counts, Remove(es, counts)
      PROVE  Fine
    BY <1>1 DEF Remove
<1>2. ASSUME NEW r \in {rx} \cup {SubscribedRx(ps) : ps \in SUBSET Node}, rx' = Settled(r)
      PROVE  Fine
    BY <1>2 DEF Settled, SubscribedRx
<1>3. ASSUME NEW path \in Node, NEW n, NEW granted, Route(path, n, granted)
      PROVE  Fine
    BY <1>3 DEF Route, SubscribedRx
<1>4. CASE UNCHANGED rx
    BY <1>4
<1>5. ASSUME NEW h \in Handle, NEW g \in Handle, IndexTake(h, g)
      PROVE  Fine
    BY <1>5 DEF IndexTake, Settled, SubscribedRx
<1>6. ASSUME NEW h \in Handle, (\E g \in Handle : IndexNotFound(h, g)) \/ DropFinish(h)
      PROVE  Fine
    BY <1>6 DEF IndexNotFound, DropFinish, Settled
<1>7. ASSUME NEW h \in Handle, ReadEnd(h) \/ DropClose(h)
      PROVE  Fine
    BY <1>7 DEF ReadEnd, DropClose, SubsTypeOK
<1>8. ASSUME NEW h \in Handle, HandleStep(h)
      PROVE  Fine
    BY <1>1, <1>4, <1>5, <1>6, <1>7, <1>8
    DEF HandleStep, IndexSkip, DropRelease, TakeReader, ReadChunk, ReadRest, ReadEof, ReadError, subsVars
<1>9. CASE PeerStep
    BY <1>3, <1>4, <1>9
    DEF PeerStep, IngressFrame, IngressUnknown, IngressData, IngressEnd, IngressBroken, subsVars
<1>10. CASE CloseRx
    BY <1>10 DEF CloseRx, CloseReceivers
<1>11. CASE IngressPermit \/ IngressIndexed
    <2>1. io.path \in Node
        BY DEF TaskTypeOK
    <2> QED BY <1>3, <1>11, <2>1 DEF IngressPermit, IngressIndexed
<1>12. CASE IngressStep
    BY <1>4, <1>10, <1>11, <1>12
    DEF IngressStep, IngressClosed, IngressReserve, IngressPush, IngressFailed, SetErr, CloseTx, subsVars
<1>13. CASE Abort \/ UNCHANGED vars
    BY <1>4, <1>13 DEF Abort, vars, subsVars
<1> QED BY <1>8, <1>9, <1>12, <1>13 DEF Next

\* Where routing takes ingress: it returns, waits, or delivers the frame to a
\* path that it subscribed to.
LEMMA RouteIo ==
    ASSUME NEW path \in Node, NEW n, NEW granted \in BOOLEAN, Route(path, n, granted)
    PROVE  \/ io'.pc = "ended" /\ io'.res \in ErrorKind
           \/ io'.pc \in {"wait", "header"}
           \/ io'.pc = "data" /\ io'.path = path /\ IsDeclared[path] /\ path \in subs'
<1> DEFINE missing == IF path \in subs /\ tx[path] # "none" THEN {} ELSE Elements[path] \ subs
           first == Outermost(missing)
           opened == IF granted /\ missing # {} THEN {first} ELSE {}
           blocked == missing # {} /\ (~granted \/ missing # {first})
           sub == IF blocked THEN opened ELSE opened \cup {path}
<1>1. \/ io'.pc = "ended" /\ io'.res \in ErrorKind
      \/ /\ IsDeclared[path] /\ subs' = subs \cup sub
         /\ io' = [pc |-> IF blocked THEN "wait" ELSE IF n = 0 THEN "header" ELSE "data",
                   path |-> IF ~blocked /\ n = 0 THEN <<>> ELSE path,
                   rem |-> n, res |-> "none"]
    <2> HIDE DEF blocked
    <2>1. ASSUME NEW r \in ErrorKind, Return(r)
          PROVE  io'.pc = "ended" /\ io'.res \in ErrorKind
        BY <2>1 DEF Return, Idle
    <2>2. "protocol" \in ErrorKind /\ "broken_pipe" \in ErrorKind
        BY DEF ErrorKind
    <2> QED BY <2>1, <2>2 DEF Route, blocked
<1>2. ~blocked => path \in sub
    OBVIOUS
<1> HIDE DEF blocked, sub
<1>3. CASE blocked
    BY <1>1, <1>3
<1>4. CASE ~blocked /\ n = 0
    BY <1>1, <1>4
<1>5. CASE ~blocked /\ n # 0
    BY <1>1, <1>2, <1>5
<1> QED BY <1>3, <1>4, <1>5
\* What ingress delivers was subscribed to, and its receiver does not come
\* back once it is dropped.
LEMMA TargetStep ==
    ASSUME ReleaseInv, ReleaseInv', Target, [Next]_vars
    PROVE  Target'
<1>0. /\ SubsTypeOK /\ HandleTypeOK /\ TaskTypeOK /\ io.path \in Node
      /\ io \in [pc : Awaiting \cup {"push", "ended", "closing", "done"}, path : Node,
                 rem : 0..MaxFrameChunks, res : {"none", "ok"} \cup ErrorKind]
    BY DEF ReleaseInv, ElementInv, TypeInv, TypeOK, TaskTypeOK
<1>1. \A p \in Node : rx[p] # "none" => rx'[p] # "none"
    BY <1>0, RxForever
<1>2. ASSUME NEW path \in Node, NEW n, NEW granted \in BOOLEAN, Route(path, n, granted)
      PROVE  Target'
    <2>1. \/ io'.pc \notin {"data", "send", "push"}
          \/ io'.path = path /\ IsDeclared[path] /\ path \in subs'
        BY <1>2, RouteIo
    <2>2. path \in subs' /\ IsDeclared[path] => rx'[path] # "none"
        BY DEF ReleaseInv, Dropped, Held
    <2> QED BY <2>1, <2>2 DEF Target
<1>3. CASE io'.pc \notin {"data", "send", "push"}
    BY <1>3 DEF Target
<1>4. CASE io.pc \in {"data", "send", "push"} /\ io'.path = io.path
    BY <1>0, <1>1, <1>4 DEF Target
<1>5. CASE UNCHANGED io
    BY <1>0, <1>1, <1>5 DEF Target
<1>6. ASSUME NEW h \in Handle, HandleStep(h)
      PROVE  Target'
    BY <1>5, <1>6
    DEF HandleStep, IndexSkip, IndexTake, IndexNotFound, TakeReader, ReadChunk, ReadRest, ReadEof,
        ReadError, ReadEnd, DropClose, DropRelease, DropFinish, taskVars
<1>7. CASE PeerStep
    <2>1. CASE IngressData
        BY <1>0, <1>4, <2>1 DEF IngressData
    <2> QED BY <1>2, <1>3, <1>7, <2>1
            DEF PeerStep, IngressFrame, IngressUnknown, IngressEnd, IngressBroken, Return, Idle
<1>8. CASE IngressStep
    <2>1. CASE IngressReserve
        BY <1>0, <1>3, <1>4, <2>1 DEF IngressReserve, Return, Idle
    <2>2. CASE IngressPush
        BY <1>0, <1>3, <1>4, <2>2 DEF IngressPush, Idle
    <2>3. CASE SetErr \/ CloseTx
        BY <1>0, <1>3, <2>3 DEF SetErr, CloseTx
    <2>4. CASE IngressClosed \/ IngressFailed
        BY <1>3, <2>4 DEF IngressClosed, IngressFailed, Return, Idle
    <2>5. CASE IngressPermit \/ IngressIndexed
        BY <1>0, <1>2, <2>5 DEF IngressPermit, IngressIndexed
    <2>6. CASE CloseRx
        BY <1>5, <2>6 DEF CloseRx
    <2> QED BY <1>8, <2>1, <2>2, <2>3, <2>4, <2>5, <2>6 DEF IngressStep
<1>9. CASE Abort \/ UNCHANGED vars
    BY <1>5, <1>9 DEF Abort, vars, taskVars
<1> QED BY <1>6, <1>7, <1>8, <1>9 DEF Next

\* Nothing but the end of ingress takes a sender away from a subscription.
LEMMA SendersStep ==
    ASSUME ReleaseInv, Senders, [Next]_vars
    PROVE  Senders'
<1>0. /\ SubsTypeOK /\ HandleTypeOK /\ io.path \in Node /\ closed \in BOOLEAN
      /\ tx \in [Node -> {"none", "open", "closed"}] /\ subs \subseteq Node
    BY DEF ReleaseInv, ElementInv, TypeInv, TypeOK, TaskTypeOK, SubsTypeOK
<1>1. ASSUME NEW es, NEW counts, Remove(es, counts)
      PROVE  Senders'
    BY <1>0, <1>1 DEF Remove, Senders
<1>2. ASSUME NEW ps \in SUBSET Node, subs' = subs \cup ps, tx' = SubscribedTx(ps), UNCHANGED closed
      PROVE  Senders'
    BY <1>0, <1>2 DEF SubscribedTx, Senders
<1>3. CASE UNCHANGED <<subs, tx, closed>>
    BY <1>3 DEF Senders
<1>4. ASSUME NEW path \in Node, NEW n, NEW granted \in BOOLEAN, Route(path, n, granted)
      PROVE  Senders'
    <2> DEFINE missing == IF path \in subs /\ tx[path] # "none" THEN {} ELSE Elements[path] \ subs
               first == Outermost(missing)
               opened == IF granted /\ missing # {} THEN {first} ELSE {}
               blocked == missing # {} /\ (~granted \/ missing # {first})
               sub == IF blocked THEN opened ELSE opened \cup {path}
    <2>1. missing # {} => first \in Node
        BY MissingFacts
    <2>2. sub \in SUBSET Node
        BY <2>1
    <2>3. \/ UNCHANGED <<subs, tx, closed>>
          \/ /\ subs' = subs \cup sub /\ UNCHANGED closed
             /\ tx' \in {SubscribedTx(sub), [SubscribedTx(sub) EXCEPT ![path] = "closed"]}
        BY <1>4 DEF Route
    <2> HIDE DEF sub
    <2>4. CASE tx' = [SubscribedTx(sub) EXCEPT ![path] = "closed"] /\ subs' = subs \cup sub /\ UNCHANGED closed
        BY <1>0, <2>2, <2>4 DEF SubscribedTx, Senders
    <2> QED BY <1>2, <1>3, <2>2, <2>3, <2>4
<1>5. ASSUME NEW h \in Handle, NEW g \in Handle, IndexTake(h, g)
      PROVE  Senders'
    <2> DEFINE path == handle[g].path
               new == IF IsDeclared[path] THEN Elements[path] \cup {path} ELSE Elements[path]
    <2>1. path \in Node
        BY <1>0 DEF HandleTypeOK
    <2>2. new \in SUBSET Node
        BY <2>1, ElementFacts
    <2>3. subs' = subs \cup new /\ tx' = SubscribedTx(new) /\ UNCHANGED closed
        BY <1>5 DEF IndexTake
    <2> HIDE DEF new
    <2> QED BY <1>2, <2>2, <2>3
<1>6. ASSUME NEW h \in Handle, HandleStep(h)
      PROVE  Senders'
    BY <1>1, <1>3, <1>5, <1>6
    DEF HandleStep, IndexSkip, DropRelease, IndexNotFound, TakeReader, ReadChunk, ReadRest, ReadEof,
        ReadError, ReadEnd, DropClose, DropFinish, subsVars
<1>7. CASE PeerStep
    BY <1>3, <1>4, <1>7
    DEF PeerStep, IngressFrame, IngressUnknown, IngressData, IngressEnd, IngressBroken, subsVars
<1>8. CASE IngressPermit \/ IngressIndexed
    BY <1>0, <1>4, <1>8 DEF IngressPermit, IngressIndexed
<1>9. CASE CloseTx
    BY <1>9 DEF CloseTx, CloseSenders, Senders
<1>10. CASE IngressStep
    BY <1>3, <1>8, <1>9, <1>10
    DEF IngressStep, IngressClosed, IngressReserve, IngressPush, IngressFailed, SetErr, CloseRx, subsVars
<1>11. CASE Abort \/ UNCHANGED vars
    BY <1>3, <1>11 DEF Abort, vars, subsVars
<1> QED BY <1>6, <1>7, <1>10, <1>11 DEF Next

\* The order of events at the end of ingress is kept.
LEMMA EndingStep ==
    ASSUME ReleaseInv, Ending, [Next]_vars
    PROVE  Ending'
<1>0. /\ io \in [pc : Awaiting \cup {"push", "ended", "closing", "done"}, path : Node,
                 rem : 0..MaxFrameChunks, res : {"none", "ok"} \cup ErrorKind]
      /\ SubsTypeOK /\ HandleTypeOK /\ TaskTypeOK
    BY DEF ReleaseInv, ElementInv, TypeInv, TypeOK, TaskTypeOK
<1>1. ASSUME NEW h \in Handle, HandleStep(h)
      PROVE  Ending'
    <2>1. UNCHANGED <<io, task, done, unclaimed, closed>>
        BY <1>1
        DEF HandleStep, IndexSkip, IndexTake, IndexNotFound, TakeReader, ReadChunk, ReadRest, ReadEof,
            ReadError, ReadEnd, DropClose, DropRelease, DropFinish, Remove, subsVars, taskVars
    <2>2. err # "none" => err' # "none"
        BY <1>1
        DEF HandleStep, IndexSkip, IndexTake, IndexNotFound, TakeReader, ReadChunk, ReadRest, ReadEof,
            ReadError, ReadEnd, DropClose, DropRelease, DropFinish, taskVars, FailUnprocessed
    <2>3. task # "draining"
        BY <1>1, AllDroppedFacts DEF Ending
    <2> QED BY <2>1, <2>2, <2>3 DEF Ending, Running
<1>2. CASE /\ UNCHANGED <<handle, err, done, task, unclaimed, closed>> /\ Running
           /\ io.pc # "closing" /\ io'.pc \notin {"closing", "done"}
           /\ io'.pc = "ended" => io'.res # "none"
    BY <1>2 DEF Ending, Running, AllDropped
<1>3. ASSUME NEW path \in Node, NEW n, NEW granted \in BOOLEAN, Route(path, n, granted),
             UNCHANGED <<handle, err, done, task>>, Running, io.pc # "closing"
      PROVE  Ending'
    <2>1. UNCHANGED <<unclaimed, closed>>
        BY <1>3 DEF Route
    <2>2. /\ io'.pc \notin {"closing", "done"}
          /\ io'.pc = "ended" => io'.res # "none"
        BY <1>3, RouteIo DEF ErrorKind
    <2> QED BY <1>2, <1>3, <2>1, <2>2
<1>4. CASE PeerStep
    <2>1. CASE IngressData
        BY <1>0, <1>2, <2>1 DEF IngressData, IngressUnchanged, subsVars
    <2>2. ASSUME NEW path \in WirePath, NEW n \in 0..MaxFrameChunks, IngressFrame(path, n)
          PROVE  Ending'
        BY <1>3, <2>2 DEF IngressFrame, IngressUnchanged
    <2>3. ASSUME NEW path \in WirePath, IngressUnknown(path)
          PROVE  Ending'
        BY <1>2, <2>3 DEF IngressUnknown, IngressUnchanged, Return, Idle, subsVars
    <2>4. CASE IngressEnd \/ IngressBroken
        BY <1>2, <2>4 DEF IngressEnd, IngressBroken, IngressUnchanged, Return, Idle, subsVars
    <2> QED BY <1>4, <2>1, <2>2, <2>3, <2>4 DEF PeerStep
<1>5. CASE IngressStep
    <2>1. CASE IngressPermit \/ IngressIndexed
        BY <1>0, <1>3, <2>1 DEF IngressPermit, IngressIndexed, IngressUnchanged
    <2>2. CASE IngressClosed \/ IngressFailed
        BY <1>2, <2>2 DEF IngressClosed, IngressFailed, IngressUnchanged, Return, Idle, subsVars, Awaiting
    <2>3. CASE IngressReserve
        BY <1>0, <1>2, <2>3 DEF IngressReserve, IngressUnchanged, Return, Idle, subsVars
    <2>4. CASE IngressPush
        BY <1>0, <1>2, <2>4 DEF IngressPush, Idle, subsVars
    <2>5. CASE SetErr
        <3>1. /\ UNCHANGED <<handle, done, task, unclaimed, closed>> /\ Running
              /\ io.pc = "ended" /\ io'.pc = "closing" /\ io'.res = io.res
              /\ err' = IF io.res # "ok" /\ err = "none" THEN io.res ELSE err
            BY <1>0, <2>5 DEF SetErr, subsVars
        <3> QED BY <3>1 DEF Ending, Running, AllDropped
    <2>6. CASE CloseTx
        <3>1. /\ UNCHANGED <<handle, err, unclaimed>> /\ Running
              /\ io.pc = "closing" /\ io'.pc = "done" /\ io'.res = io.res
              /\ task' = IF io.res = "ok" /\ task = "running" THEN "lingering" ELSE "finished"
              /\ done' = IF io.res # "ok" THEN "err" ELSE IF task = "draining" THEN "ok" ELSE done
            BY <1>0, <2>6 DEF CloseTx
        <3> QED BY <3>1 DEF Ending, Running, AllDropped
    <2>7. CASE CloseRx
        <3>1. /\ UNCHANGED <<handle, err, io, closed>> /\ AllDropped /\ unclaimed' = "closed"
              /\ task = "lingering" \/ (task = "running" /\ io.pc \in Awaiting)
              /\ task' \in {"draining", "finished"} /\ (task' = "draining" => task = "running" /\ err = "none" /\ done' = done)
              /\ done' = "ok" => task = "lingering" \/ done = "ok"
            BY <2>7 DEF CloseRx, CloseReceivers
        <3>2. task' = "draining" => done' = "none" /\ io.pc # "done"
            BY <3>1 DEF Ending, Running
        <3>3. done' = "ok" => task' = "finished"
            BY <3>1, <3>2
        <3> QED BY <3>1, <3>2, <3>3 DEF Ending, Running, AllDropped
    <2> QED BY <1>5, <2>1, <2>2, <2>3, <2>4, <2>5, <2>6, <2>7 DEF IngressStep
<1>6. CASE Abort
    <2>1. /\ UNCHANGED <<io, err, done, closed>> /\ task' = "aborted" /\ done = "none"
        BY <1>6 DEF Abort, subsVars, Ending, Running
    <2> QED BY <2>1 DEF Ending, Running
<1>7. CASE UNCHANGED vars
    BY <1>7 DEF vars, subsVars, taskVars, Ending, Running, AllDropped
<1> QED BY <1>1, <1>4, <1>5, <1>6, <1>7 DEF Next

\* With everything dropped and closed and no error, all data was read.
LEMMA AllRead ==
    ASSUME ReleaseInv, Stock, AllDropped, unclaimed = "closed", err = "none", done # "err"
    PROVE  \A p \in Node : unread[p] = 0
<1>1. lock = Nobody /\ \A h \in Handle : ~handle[h].rx
    BY AllDroppedFacts
<1>2. \A p \in Node : rx[p] \in {"none", "sub", "gone"}
    BY <1>1 DEF Stock, Owned, Checked, ReleaseInv, ElementInv, TypeInv, TypeOK, SubsTypeOK
<1> QED BY <1>2 DEF Stock, Balance, NoneUnread, SubUnread, GoneUnread

LEMMA ProcessedStep ==
    ASSUME ReleaseInv, Stock, Ending, OkMeansProcessed, [Next]_vars
    PROVE  OkMeansProcessed'
<1>0. io \in [pc : Awaiting \cup {"push", "ended", "closing", "done"}, path : Node,
              rem : 0..MaxFrameChunks, res : {"none", "ok"} \cup ErrorKind]
    BY DEF ReleaseInv, ElementInv, TypeInv, TypeOK, TaskTypeOK
<1>1. CASE done = "ok"
    <2>1. AllDropped /\ task = "finished"
        BY <1>1 DEF OkMeansProcessed, Ending
    <2>2. \A h \in Handle : ~HandleStep(h)
        BY <2>1, AllDroppedFacts
    <2>3. ~Running /\ task # "lingering" /\ task # "running"
        BY <2>1 DEF Running
    <2>4. ~PeerStep
        BY <2>3 DEF PeerStep, IngressFrame, IngressUnknown, IngressData, IngressEnd, IngressBroken
    <2>5. ~IngressStep /\ ~Abort
        BY <2>3
        DEF IngressStep, IngressPermit, IngressIndexed, IngressClosed, IngressReserve, IngressPush,
            IngressFailed, SetErr, CloseTx, CloseRx, Abort
    <2>6. UNCHANGED vars
        BY <2>2, <2>4, <2>5 DEF Next
    <2> QED BY <2>6 DEF vars, taskVars, history, OkMeansProcessed, AllDropped
<1>2. CASE UNCHANGED done
    BY <1>1, <1>2 DEF OkMeansProcessed
<1>3. CASE CloseTx
    <2> SUFFICES ASSUME done' = "ok", done # "ok"
                 PROVE  OkMeansProcessed'
        BY <1>1 DEF OkMeansProcessed
    <2>1. /\ io.res = "ok" /\ task = "draining" /\ io'.res = io.res
          /\ UNCHANGED <<err, handle, unread>>
        BY <1>0, <1>3 DEF CloseTx, history
    <2>2. AllDropped /\ unclaimed = "closed" /\ err = "none" /\ done = "none"
        BY <2>1 DEF Ending, Running
    <2>3. \A p \in Node : unread[p] = 0
        BY <2>2, AllRead
    <2> QED BY <2>1, <2>2, <2>3 DEF OkMeansProcessed, AllDropped
<1>4. CASE CloseRx
    <2> SUFFICES ASSUME done' = "ok", done # "ok"
                 PROVE  OkMeansProcessed'
        BY <1>1 DEF OkMeansProcessed
    <2>1. /\ AllDropped /\ task = "lingering" /\ err = "none" /\ lock = Nobody
          /\ ~ \E p \in subs : rx[p] = "sub" /\ chan[p] > 0
          /\ UNCHANGED <<err, handle, unread, io>>
        BY <1>4 DEF CloseRx, history
    <2>2. io.res = "ok" /\ done = "none" /\ unclaimed = "open"
        BY <2>1 DEF Ending
    <2>3. \A p \in Node : rx[p] \in {"none", "sub", "gone"} /\ chan[p] \in Nat
        <3>1. \A h \in Handle : ~handle[h].rx
            BY <2>1, AllDroppedFacts
        <3>2. \A p \in Node : rx[p] \in {"none", "sub", "gone"}
            BY <2>1, <3>1 DEF Stock, Owned, Checked, ReleaseInv, ElementInv, TypeInv, TypeOK, SubsTypeOK
        <3>3. \A p \in Node : chan[p] \in Nat
            BY BoundAssumption DEF ReleaseInv, ElementInv, TypeInv, TypeOK
        <3> QED BY <3>2, <3>3
    <2>4. ASSUME NEW p \in Node PROVE unread[p] = 0
        <3>1. CASE rx[p] = "sub"
            <4>1. p \in subs /\ unread[p] = chan[p]
                BY <2>2, <3>1 DEF Stock, Owned, Balance, SubUnread
            <4> QED BY <2>1, <2>3, <3>1, <4>1
        <3>2. CASE rx[p] # "sub"
            BY <2>1, <2>2, <2>3, <3>2 DEF Stock, Balance, NoneUnread, GoneUnread
        <3> QED BY <3>1, <3>2
    <2> QED BY <2>1, <2>2, <2>4 DEF OkMeansProcessed, AllDropped
<1>5. ASSUME NEW h \in Handle, HandleStep(h)
      PROVE  UNCHANGED done
    BY <1>5
    DEF HandleStep, IndexSkip, IndexTake, IndexNotFound, TakeReader, ReadChunk, ReadRest, ReadEof,
        ReadError, ReadEnd, DropClose, DropRelease, DropFinish, taskVars
<1>6. CASE PeerStep
    BY <1>2, <1>6
    DEF PeerStep, IngressFrame, IngressUnknown, IngressData, IngressEnd, IngressBroken, IngressUnchanged
<1>7. CASE IngressStep
    BY <1>2, <1>3, <1>4, <1>7
    DEF IngressStep, IngressPermit, IngressIndexed, IngressClosed, IngressReserve, IngressPush,
        IngressFailed, SetErr, IngressUnchanged
<1>8. CASE Abort \/ UNCHANGED vars
    BY <1>2, <1>8 DEF Abort, vars, taskVars
<1> QED BY <1>2, <1>5, <1>6, <1>7, <1>8 DEF Next

LEMMA NextData ==
    ASSUME DataInv, [Next]_vars
    PROVE  DataInv'
<1>1. ReleaseInv'
    BY NextRelease DEF DataInv
<1> QED BY <1>1, StockStep, TargetStep, SendersStep, EndingStep, ProcessedStep DEF DataInv

LEMMA InitData == Init => DataInv
<1> SUFFICES ASSUME Init PROVE DataInv
    OBVIOUS
<1>1. ReleaseInv
    BY InitRelease
<1>2. /\ subs = {<<>>} \cup (Declared \cap Node) /\ unclaimed = "open" /\ lock = Nobody /\ pending = FALSE
      /\ tx = [p \in Node |-> IF p \in subs THEN "open" ELSE "none"]
      /\ rx = [p \in Node |-> IF p = <<>> THEN "taken" ELSE IF p \in subs THEN "sub" ELSE "none"]
      /\ chan = [p \in Node |-> 0] /\ unread = [p \in Node |-> 0]
      /\ <<>> \in Node /\ First \in Handle /\ subs \subseteq Node
    BY NodeRoot, HandleAssumption DEF Init
<1>3. \A h \in Handle : handle[h].path = <<>> /\ (handle[h].rx <=> h = First) /\ handle[h].chunk = FALSE
    BY <1>2 DEF Init, Free
<1>4. Stock
    <2>1. Owned /\ Checked
        BY <1>2, <1>3 DEF Owned, Checked
    <2>2. NoneUnread /\ SubUnread /\ GoneUnread
        BY <1>2 DEF NoneUnread, SubUnread, GoneUnread
    <2>3. OwnUnread
        BY <1>2, <1>3 DEF OwnUnread, Loaded
    <2> QED BY <2>1, <2>2, <2>3 DEF Stock, Balance
<1>5. Target /\ Ending /\ OkMeansProcessed
    BY <1>2 DEF Init, Idle, Target, Ending, Running, OkMeansProcessed
<1>6. Senders
    BY <1>2 DEF Senders
<1> QED BY <1>1, <1>4, <1>5, <1>6 DEF DataInv

\* `finished` resolves to success only if the peer ended its stream between
\* two frames, every handle was dropped and every chunk was read that was
\* pushed to a channel somebody could still read.
THEOREM SuccessMeansProcessed == Spec => []OkMeansProcessed
<1>1. DataInv => OkMeansProcessed
    BY DEF DataInv
<1> QED BY <1>1, InitData, NextData, PTL DEF Spec

\* The end of a stream is read only where it is.
LEMMA EofFacts ==
    ASSUME DataInv, NEW h \in Handle, ReadEof(h)
    PROVE  /\ tx[handle[h].path] = "closed" \/ io.res = "ok"
           /\ unread[handle[h].path] = 0
<1> DEFINE path == handle[h].path
<1>1. /\ handle[h].rx /\ ~handle[h].chunk /\ chan[path] = 0 /\ tx[path] # "open"
      /\ err # "none" => tx[path] = "closed"
    BY DEF ReadEof, ReadEnd, HasSender
<1>2. path \in subs /\ path \in Node /\ rx[path] = "taken" /\ tx[path] \in {"none", "closed"}
    BY <1>1
    DEF DataInv, ReleaseInv, Dropped, Kept, ElementInv, TypeInv, TypeOK, SubsTypeOK, HandleTypeOK
<1>3. IsDeclared[path]
    BY <1>2 DEF DataInv, ReleaseInv, Dropped, Held
<1>4. unread[path] = 0
    BY <1>1 DEF DataInv, Stock, Balance, OwnUnread, Loaded
<1>5. tx[path] = "none" => io.pc = "done"
    BY <1>2, <1>3 DEF DataInv, Senders, Ending
<1>6. tx[path] = "none" => io.res = "ok"
    BY <1>1, <1>5 DEF DataInv, Ending
<1> QED BY <1>2, <1>4, <1>6

\* A handle reads a clean end only if the peer closed the path or ended the
\* byte stream between two frames, and only after all data of the path:
\* whatever races with the read, a failure is not taken for the end.
THEOREM EndsOfStreamAreTrue == Spec => EofIsTrue
<1>1. DataInv /\ [Next]_vars =>
        [\A h \in Handle : ReadEof(h) =>
            /\ tx[handle[h].path] = "closed" \/ io.res = "ok"
            /\ unread[handle[h].path] = 0]_vars
    BY EofFacts
<1> QED BY <1>1, InitData, NextData, PTL DEF Spec, EofIsTrue
=============================================================================
