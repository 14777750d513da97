-------------------------- MODULE ConnectionProofs --------------------------
(***************************************************************************)
(* The sending half of a connection and one direction of a connection, for *)
(* every declaration, application and failure of the transport: a writer   *)
(* that fails knows why; the receiving half is Incoming, the peer is never *)
(* blamed, and every path delivers what was sent on it.                    *)
(***************************************************************************)
EXTENDS Connection, IncomingProofs

-----------------------------------------------------------------------------
(* The sending half: a writer that fails learns the cause                  *)

OutHandles == [st : {"free", "live", "waiting", "reserved"}, path : OutPath,
               error : {"none", "cause", "unknown"}]

\* The queue is dropped only after the result is published, and a result of
\* success only after the last handle is dropped: so a handle that finds the
\* queue dropped finds the error too.
OutInv ==
    /\ writer \in [Writer -> OutHandles]
    /\ egress.pc \in {"recv", "next", "write", "flush", "shutdown", "ok", "err", "done", "gone"}
    /\ inbox = "dropped" => egress.pc = "gone"
    /\ egress.pc \in {"done", "gone"} => result \in {"ok", "err"}
    /\ egress.pc \in {"shutdown", "ok"} \/ result = "ok" => Live = {}
    /\ CauseKnown

LEMMA OutInitInv == OutInit => OutInv
<1> SUFFICES ASSUME OutInit PROVE OutInv
    OBVIOUS
<1>1. writer \in [Writer -> OutHandles]
    BY OutBoundAssumption DEF OutInit, OutHandles, NoWriter
<1>2. CauseKnown
    BY DEF OutInit, NoWriter, CauseKnown
<1> QED
    BY <1>1, <1>2 DEF OutInit, OutInv, Waiting

\* A step of a handle that leaves egress alone keeps the invariant, unless it
\* brings a handle to life without there being one.
LEMMA HandleStepInv ==
    ASSUME OutInv, UNCHANGED egressVars, writer' \in [Writer -> OutHandles],
           Live' # {} => Live # {}, CauseKnown'
    PROVE  OutInv'
BY DEF OutInv, egressVars

LEMMA WriterStepInv ==
    ASSUME OutInv, NEW w \in Writer, WriterStep(w)
    PROVE  OutInv'
<1>1. writer \in [Writer -> OutHandles] /\ CauseKnown
    BY DEF OutInv
<1>2. ASSUME NEW v \in Writer, NEW path \in OutPath, OutIndex(w, v, path) PROVE OutInv'
  <2>1. NoWriter \in OutHandles /\ NoWriter.error = "none"
      BY OutBoundAssumption DEF NoWriter, OutHandles
  <2> DEFINE new == [NoWriter EXCEPT !.st = "live", !.path = path]
  <2>2. writer' \in [Writer -> OutHandles] /\ CauseKnown'
    <3>1. new \in OutHandles /\ new.error = "none"
        BY <2>1 DEF OutHandles
    <3>2. writer' = [writer EXCEPT ![v] = new]
        BY <1>2 DEF OutIndex
    <3> HIDE DEF new
    <3> QED
        BY <1>1, <3>1, <3>2 DEF CauseKnown
  <2>3. w \in Live
      BY <1>2 DEF OutIndex, Live
  <2> QED
      BY <1>2, <2>2, <2>3, HandleStepInv DEF OutIndex
<1>3. CASE OutWait(w)
  <2>1. writer' \in [Writer -> OutHandles] /\ CauseKnown'
      BY <1>1, <1>3 DEF OutWait, OutHandles, CauseKnown
  <2>2. w \in Live
      BY <1>3 DEF OutWait, Live
  <2> QED
      BY <1>3, <2>1, <2>2, HandleStepInv DEF OutWait
<1>4. CASE OutReserve(w)
  <2>1. writer' \in [Writer -> OutHandles] /\ CauseKnown'
      BY <1>1, <1>4 DEF OutReserve, OutHandles, CauseKnown
  <2>2. w \in Live
      BY <1>4 DEF OutReserve, Live
  <2> QED
      BY <1>4, <2>1, <2>2, HandleStepInv DEF OutReserve
<1>5. CASE OutReserveFailed(w)
  <2>1. w \in Live
      BY <1>5 DEF OutReserveFailed, Live
  <2>2. result = "err"
      BY <1>5, <2>1 DEF OutReserveFailed, OutInv
  <2>3. writer' = [writer EXCEPT ![w].st = "live", ![w].error = "cause"]
      BY <1>5, <2>2 DEF OutReserveFailed
  <2>4. writer' \in [Writer -> OutHandles] /\ CauseKnown'
      BY <1>1, <2>3 DEF OutHandles, CauseKnown
  <2> QED
      BY <1>5, <2>1, <2>4, HandleStepInv DEF OutReserveFailed
<1>6. ASSUME NEW n \in 0..MaxSize, OutSend(w, n) PROVE OutInv'
  <2>1. writer' \in [Writer -> OutHandles] /\ CauseKnown'
      BY <1>1, <1>6 DEF OutSend, OutHandles, CauseKnown
  <2>2. w \in Live
      BY <1>6 DEF OutSend, Live
  <2> QED
      BY <1>6, <2>1, <2>2, HandleStepInv DEF OutSend
<1>7. CASE OutDrop(w)
  <2>1. NoWriter \in OutHandles /\ NoWriter.error = "none"
      BY OutBoundAssumption DEF NoWriter, OutHandles
  <2>2. writer' \in [Writer -> OutHandles] /\ CauseKnown'
      BY <1>1, <1>7, <2>1 DEF OutDrop, CauseKnown
  <2>3. w \in Live
      BY <1>7 DEF OutDrop, Live
  <2> QED
      BY <1>7, <2>2, <2>3, HandleStepInv DEF OutDrop
<1> QED
    BY <1>2, <1>3, <1>4, <1>5, <1>6, <1>7 DEF WriterStep

LEMMA EgressStepInv ==
    ASSUME OutInv, EgressStep \/ EgressFail
    PROVE  OutInv'
<1>1. UNCHANGED writer
    BY DEF EgressStep, EgressTake, EgressWrite, EgressEmpty, EgressFlush, EgressLast,
       EgressShutdown, EgressPublish, EgressDrop, EgressFail, handleVars
<1>2. writer' \in [Writer -> OutHandles] /\ CauseKnown' /\ Live' = Live
    BY <1>1 DEF OutInv, CauseKnown, Live
<1> USE <1>2 DEF OutInv
<1>3. CASE EgressTake
    BY <1>3 DEF EgressTake, Writing
<1>4. CASE EgressWrite
    BY <1>4 DEF EgressWrite, Waiting
<1>5. CASE EgressEmpty
    BY <1>5 DEF EgressEmpty
<1>6. CASE EgressFlush
    BY <1>6 DEF EgressFlush, Waiting
<1>7. CASE EgressLast
    BY <1>7 DEF EgressLast
<1>8. CASE EgressShutdown
    BY <1>8 DEF EgressShutdown
<1>9. CASE EgressPublish
    BY <1>9 DEF EgressPublish
<1>10. CASE EgressDrop
    BY <1>10 DEF EgressDrop
<1>11. CASE EgressFail
    BY <1>11 DEF EgressFail
<1> QED
    BY <1>3, <1>4, <1>5, <1>6, <1>7, <1>8, <1>9, <1>10, <1>11 DEF EgressStep

LEMMA OutNextInv == OutInv /\ [OutNext]_outVars => OutInv'
<1> SUFFICES ASSUME OutInv, [OutNext]_outVars PROVE OutInv'
    OBVIOUS
<1>1. CASE \E w \in Writer : WriterStep(w)
    BY <1>1, WriterStepInv
<1>2. CASE EgressStep \/ EgressFail
    BY <1>2, EgressStepInv
<1>3. CASE Spill \/ PeerRead \/ UNCHANGED outVars
  <2>1. UNCHANGED <<handleVars, egressVars>>
      BY <1>3 DEF Spill, PeerRead, outVars
  <2>2. UNCHANGED writer
      BY <2>1 DEF handleVars
  <2>3. Live' = Live /\ (CauseKnown => CauseKnown')
      BY <2>2 DEF Live, CauseKnown
  <2> QED
      BY <2>1, <2>2, <2>3 DEF OutInv, egressVars
<1> QED
    BY <1>1, <1>2, <1>3 DEF OutNext

\* A handle whose `poll_reserve` fails is told why egress failed: the error of
\* `error_egress` is never missing, since egress publishes its result before
\* it drops the receiver of the queue.
THEOREM CausesAreKnown == OutSpec => []CauseKnown
<1>1. OutInv => CauseKnown
    BY DEF OutInv
<1> QED
    BY OutInitInv, OutNextInv, <1>1, PTL DEF OutSpec

-----------------------------------------------------------------------------
(* A connection: what is where                                             *)

Frame == [path : OutPath, size : 0..MaxFrameChunks]
Piece == [kind : {"header", "chunk"}, path : OutPath, size : Nat]
EgressRecord ==
    [pc : {"recv", "next", "write", "flush", "shutdown", "ok", "err", "done", "gone"},
     path : OutPath, size : 0..MaxFrameChunks, left : Nat]

\* The shape of the sending half.
SenderType ==
    /\ writer \in [Writer -> [st : {"free", "live"}, path : OutPath, error : {"none"}]]
    /\ queue \in Seq(Frame) /\ wire \in Seq(Piece)
    /\ \A i \in DOMAIN wire : wire[i].kind = "header" => wire[i].size \in 0..MaxFrameChunks
    /\ egress \in EgressRecord /\ egress.left <= egress.size + 1
    /\ inbox \in {"open", "dropped"} /\ end \in {"open", "fin", "reset"}
    /\ sent \in [OutPath -> Nat] /\ shut \subseteq OutPath

\* The shape of what the receiving half adds to Incoming: the frames that
\* ingress works on are on paths that are written to.
Busy == io.pc \in {"wait", "data", "send", "push"}
ReaderType ==
    /\ got \in [OutPath -> Nat] /\ outcome \in [OutPath -> {"none", "end", "error"}]
    /\ Busy => io.path \in OutPath

\* The order in which egress ends.
Leaving ==
    /\ egress.pc \in {"recv", "next", "flush", "shutdown", "ok"} => egress.left = 0
    /\ egress.pc = "write" => egress.left > 0
    /\ egress.pc \in {"shutdown", "ok"} \/ end = "fin" => Live = {} /\ queue = <<>> /\ egress.left = 0
    /\ egress.pc \in {"ok"} => end = "fin"
    /\ inbox = "dropped" => egress.pc = "gone" /\ queue = <<>>

\* Ingress works on a frame of `p`, and egress on one it has not written yet.
IngressOn(p) == Busy /\ io.path = p
EgressOn(p) == egress.left > 0 /\ egress.path = p

\* There is no frame of `p`, or no piece of one, ...
QueueClear(p) == \A i \in DOMAIN queue : queue[i].path # p
SenderClear(p) == ~EgressOn(p) /\ QueueClear(p)
WireClear(p) == SenderClear(p) /\ \A i \in DOMAIN wire : wire[i].path # p

\* The frame that closes a path is the last one of its path, wherever it is.
QueueOrder ==
    \A i \in DOMAIN queue : queue[i].size = 0 =>
        /\ queue[i].path \in shut
        /\ \A j \in DOMAIN queue : j > i => queue[j].path # queue[i].path
EgressOrder ==
    egress.left > 0 /\ egress.size = 0 => egress.path \in shut /\ QueueClear(egress.path)
WireOrder ==
    \A i \in DOMAIN wire : wire[i].kind = "header" /\ wire[i].size = 0 =>
        /\ wire[i].path \in shut /\ SenderClear(wire[i].path)
        /\ \A j \in DOMAIN wire : j > i => wire[j].path # wire[i].path
IngressOrder ==
    io.pc = "wait" /\ io.rem = 0 => io.path \in shut /\ WireClear(io.path)
ClosedOrder ==
    \A p \in OutPath : tx[p] = "closed" => p \in shut /\ WireClear(p) /\ ~IngressOn(p)
Order == QueueOrder /\ EgressOrder /\ WireOrder /\ IngressOrder /\ ClosedOrder

\* A chunk is of the frame before it.
Framing ==
    /\ \A i \in DOMAIN wire :
        wire[i].kind = "chunk" => IF i = 1 THEN Busy => io.path = wire[i].path
                                  ELSE wire[i - 1].path = wire[i].path
    /\ egress.left > 0 /\ egress.left <= egress.size =>
        IF wire = <<>> THEN Busy => io.path = egress.path
        ELSE wire[Len(wire)].path = egress.path

\* The sum of a sequence of numbers, as the size of a set.
Units(w) == {u \in (DOMAIN w) \X Nat : u[2] \in 1..w[u[1]]}
Total(w) == Cardinality(Units(w))

\* Chunks of `p` in the queue, in egress, on the wire, and in ingress.
QueueLoad(p) == [i \in 1..Len(queue) |-> IF queue[i].path = p THEN queue[i].size ELSE 0]
WireLoad(p) == [i \in 1..Len(wire) |-> IF wire[i].kind = "chunk" /\ wire[i].path = p THEN 1 ELSE 0]
InEgress(p) ==
    IF egress.path # p THEN 0 ELSE IF egress.left > egress.size THEN egress.size ELSE egress.left
InIngress(p) == IF io.pc \in {"send", "push"} /\ io.path = p THEN 1 ELSE 0
UnderWay(p) == Total(QueueLoad(p)) + InEgress(p) + Total(WireLoad(p)) + InIngress(p)
Accounted(p) == got[p] + unread[p] + UnderWay(p)

Late == raced \cup drained
Open == io.pc \notin {"ended", "closing", "done"}
ClosePending(p) ==
    \/ \E i \in DOMAIN wire : wire[i].kind = "header" /\ wire[i].size = 0 /\ wire[i].path = p
    \/ io.pc = "wait" /\ io.rem = 0 /\ io.path = p

\* Nothing is made up, ...
NoMore == \A p \in OutPath : Accounted(p) <= sent[p]

\* ... and nothing is lost between writer and reader, unless egress or ingress
\* gave up, or the reader did.
NoLess ==
    \A p \in OutPath \ Late :
        Open /\ (inbox = "open" \/ end = "fin" \/ ClosePending(p)) => Accounted(p) = sent[p]

\* A closed path is complete, and so are all paths after a clean end.
Complete ==
    \A p \in OutPath \ Late : tx[p] = "closed" \/ io.res = "ok" => got[p] + unread[p] = sent[p]
CleanEnd == io.res = "ok" => Live = {} /\ ~Open

\* Readers that are late, or done, have no receiver.
LateGone ==
    /\ \A p \in raced : rx[p] \in {"checked", "gone"}
    /\ drained # {} => unclaimed = "closed"
    /\ \A p \in OutPath : outcome[p] # "none" => rx[p] = "gone"

Flow == NoMore /\ NoLess /\ Complete /\ CleanEnd
ConnInv == DataInv /\ SenderType /\ ReaderType /\ Leaving /\ Order /\ Framing /\ Flow /\ LateGone /\ NoBlame

-----------------------------------------------------------------------------
(* Sums                                                                    *)

LEMMA UnitsFinite ==
    ASSUME NEW m \in Nat, NEW w \in Seq(0..m)
    PROVE  IsFiniteSet(Units(w)) /\ Total(w) \in Nat
<1>1. IsFiniteSet(1..Len(w)) /\ IsFiniteSet(1..m)
    BY FS_Interval
<1>2. IsFiniteSet((1..Len(w)) \X (1..m))
    BY <1>1, FS_Product
<1>3. Units(w) \subseteq (1..Len(w)) \X (1..m)
    BY DEF Units
<1>4. IsFiniteSet(Units(w))
    BY <1>2, <1>3, FS_Subset
<1> QED BY <1>4, FS_CardinalityType DEF Total

LEMMA TotalEmpty == Total(<<>>) = 0
<1>1. Units(<<>>) = {}
    BY DEF Units
<1> QED BY <1>1, FS_EmptySet DEF Total

LEMMA Column ==
    ASSUME NEW k \in Nat, NEW n \in Nat
    PROVE  IsFiniteSet({k} \X (1..n)) /\ Cardinality({k} \X (1..n)) = n
<1>1. IsFiniteSet({k}) /\ Cardinality({k}) = 1
    BY FS_Singleton
<1>2. IsFiniteSet(1..n) /\ Cardinality(1..n) = n
    BY FS_Interval
<1> DEFINE S == {k}
           T == 1..n
<1> HIDE DEF S, T
<1>3. IsFiniteSet(S \X T) /\ Cardinality(S \X T) = Cardinality(S) * Cardinality(T)
    BY <1>1, <1>2, FS_Product DEF S, T
<1>4. Cardinality(S \X T) = 1 * n
    BY <1>1, <1>2, <1>3 DEF S, T
<1> QED BY <1>3, <1>4 DEF S, T

LEMMA DisjointUnion ==
    ASSUME NEW S, NEW T, IsFiniteSet(S), IsFiniteSet(T), S \cap T = {}
    PROVE  Cardinality(S \cup T) = Cardinality(S) + Cardinality(T)
<1>1. Cardinality(S \cap T) = 0
    BY FS_EmptySet
<1>2. Cardinality(S) \in Nat /\ Cardinality(T) \in Nat
    BY FS_CardinalityType
<1>3. Cardinality(S \cup T) = Cardinality(S) + Cardinality(T) - Cardinality(S \cap T)
    BY FS_Union
<1> QED BY <1>1, <1>2, <1>3

LEMMA TotalAppend ==
    ASSUME NEW m \in Nat, NEW w \in Seq(0..m), NEW n \in 0..m
    PROVE  Total(Append(w, n)) = Total(w) + n
<1> DEFINE k == Len(w) + 1
           new == {k} \X (1..n)
<1>1. Units(Append(w, n)) = Units(w) \cup new
    BY DEF Units
<1>2. Units(w) \cap new = {}
    BY DEF Units
<1>3. IsFiniteSet(new) /\ Cardinality(new) = n
    <2>1. k \in Nat /\ n \in Nat
        OBVIOUS
    <2> QED BY <2>1, Column
<1>4. IsFiniteSet(Units(w))
    BY UnitsFinite
<1> HIDE DEF new
<1> QED BY <1>1, <1>2, <1>3, <1>4, DisjointUnion DEF Total

LEMMA TotalTail ==
    ASSUME NEW m \in Nat, NEW w \in Seq(0..m), w # <<>>
    PROVE  Total(w) = Total(Tail(w)) + w[1]
<1> DEFINE first == {1} \X (1..w[1])
           rest == {u \in Units(w) : u[1] > 1}
           f == [u \in Units(Tail(w)) |-> <<u[1] + 1, u[2]>>]
<1>1. /\ Tail(w) \in Seq(0..m) /\ Len(w) \in Nat /\ Len(w) > 0 /\ Len(Tail(w)) = Len(w) - 1
      /\ \A i \in 1..Len(Tail(w)) : Tail(w)[i] = w[i + 1]
      /\ w[1] \in Nat
    OBVIOUS
<1>2. Units(w) = rest \cup first /\ rest \cap first = {}
    BY <1>1 DEF Units
<1>3. IsFiniteSet(first) /\ Cardinality(first) = w[1]
    BY <1>1, Column
<1>4. IsFiniteSet(Units(Tail(w))) /\ IsFiniteSet(Units(w))
    BY <1>1, UnitsFinite
<1>5. ASSUME NEW u \in Units(Tail(w))
      PROVE  f[u] \in rest /\ f[u] = <<u[1] + 1, u[2]>> /\ u = <<u[1], u[2]>> /\ u[1] \in Nat
    BY <1>1 DEF Units
<1>6. ASSUME NEW v \in rest
      PROVE  \E u \in Units(Tail(w)) : f[u] = v
    <2>1. v = <<v[1], v[2]>> /\ v[1] \in 2..Len(w) /\ v[2] \in 1..w[v[1]] /\ v[2] \in Nat
        BY <1>1 DEF Units
    <2>2. <<v[1] - 1, v[2]>> \in Units(Tail(w))
        BY <1>1, <2>1 DEF Units
    <2>3. f[<<v[1] - 1, v[2]>>] = v
        BY <2>1, <2>2
    <2> QED BY <2>2, <2>3
<1>7. f \in Bijection(Units(Tail(w)), rest)
    <2>1. f \in [Units(Tail(w)) -> rest]
        BY <1>5
    <2>2. \A u, v \in Units(Tail(w)) : f[u] = f[v] => u = v
        <3> TAKE u, v \in Units(Tail(w))
        <3> HAVE f[u] = f[v]
        <3>1. u[1] + 1 = v[1] + 1 /\ u[2] = v[2]
            BY <1>5
        <3>2. u[1] = v[1]
            BY <1>5, <3>1
        <3> QED BY <1>5, <3>1, <3>2
    <2> HIDE DEF f, rest
    <2> QED BY <1>6, <2>1, <2>2 DEF Bijection, Injection, Surjection, IsInjective
<1>8. Cardinality(rest) = Cardinality(Units(Tail(w))) /\ IsFiniteSet(rest)
    BY <1>4, <1>7, FS_Bijection DEF ExistsBijection
<1> HIDE DEF first, rest
<1> QED BY <1>2, <1>3, <1>8, DisjointUnion DEF Total

\* A sequence without units.
LEMMA TotalZero ==
    ASSUME NEW w, \A i \in DOMAIN w : w[i] = 0
    PROVE  Total(w) = 0
<1>1. Units(w) = {}
    BY DEF Units
<1> QED BY <1>1, FS_EmptySet DEF Total

\* What is added to the queue and taken from it.
LEMMA QueueSum ==
    ASSUME queue \in Seq(Frame), NEW p
    PROVE  /\ QueueLoad(p) \in Seq(0..MaxFrameChunks) /\ Total(QueueLoad(p)) \in Nat
           /\ QueueClear(p) => Total(QueueLoad(p)) = 0
           /\ \A f \in Frame : queue' = Append(queue, f) =>
                Total(QueueLoad(p))' = Total(QueueLoad(p)) + (IF f.path = p THEN f.size ELSE 0)
           /\ queue # <<>> /\ queue' = Tail(queue) =>
                Total(QueueLoad(p)) = Total(QueueLoad(p))' + (IF Head(queue).path = p THEN Head(queue).size ELSE 0)
<1> DEFINE w == QueueLoad(p)
<1>1. MaxFrameChunks \in Nat
    BY BoundAssumption
<1>2. w \in Seq(0..MaxFrameChunks) /\ Len(w) = Len(queue) /\ Len(queue) \in Nat
    <2>1. \A i \in 1..Len(queue) : (IF queue[i].path = p THEN queue[i].size ELSE 0) \in 0..MaxFrameChunks
        <3>1. \A i \in 1..Len(queue) : queue[i] \in Frame
            OBVIOUS
        <3>2. \A i \in 1..Len(queue) : queue[i].size \in 0..MaxFrameChunks
            BY <3>1 DEF Frame
        <3>3. 0 \in 0..MaxFrameChunks
            BY <1>1
        <3> QED BY <3>2, <3>3
    <2> QED BY <2>1 DEF QueueLoad
<1>3. Total(w) \in Nat
    BY <1>1, <1>2, UnitsFinite
<1>4. ASSUME QueueClear(p) PROVE Total(w) = 0
    <2>1. \A i \in DOMAIN w : w[i] = 0
        BY <1>4 DEF QueueLoad, QueueClear
    <2> QED BY <2>1, TotalZero
<1>5. ASSUME NEW f \in Frame, queue' = Append(queue, f)
      PROVE  Total(QueueLoad(p))' = Total(w) + (IF f.path = p THEN f.size ELSE 0)
    <2> DEFINE n == IF f.path = p THEN f.size ELSE 0
    <2>1. n \in 0..MaxFrameChunks
        BY <1>1 DEF Frame
    <2>2. QueueLoad(p)' = Append(w, n)
        BY <1>2, <1>5 DEF QueueLoad, Frame
    <2> HIDE DEF w, n
    <2>3. Total(Append(w, n)) = Total(w) + n
        BY <1>1, <1>2, <2>1, TotalAppend
    <2>4. Total(QueueLoad(p))' = Total(Append(w, n))
        BY <2>2 DEF Total, Units
    <2> QED BY <2>3, <2>4 DEF w, n
<1>6. ASSUME queue # <<>>, queue' = Tail(queue)
      PROVE  Total(w) = Total(QueueLoad(p))' + (IF Head(queue).path = p THEN Head(queue).size ELSE 0)
    <2>1. w # <<>> /\ w[1] = IF Head(queue).path = p THEN Head(queue).size ELSE 0
        BY <1>6 DEF QueueLoad
    <2>2. QueueLoad(p)' = Tail(w)
        BY <1>2, <1>6 DEF QueueLoad
    <2> HIDE DEF w
    <2>3. Total(w) = Total(Tail(w)) + w[1]
        BY <1>1, <1>2, <2>1, TotalTail
    <2>4. Total(QueueLoad(p))' = Total(Tail(w))
        BY <2>2 DEF Total, Units
    <2> QED BY <2>1, <2>3, <2>4
<1> QED BY <1>2, <1>3, <1>4, <1>5, <1>6

\* A piece of the wire is a chunk of `p`.
ChunkOf(piece, p) == IF piece.kind = "chunk" /\ piece.path = p THEN 1 ELSE 0

LEMMA WireSum ==
    ASSUME wire \in Seq(Piece), NEW p
    PROVE  /\ WireLoad(p) \in Seq(0..1) /\ Total(WireLoad(p)) \in Nat
           /\ (\A i \in DOMAIN wire : wire[i].path # p) => Total(WireLoad(p)) = 0
           /\ \A f \in Piece : wire' = Append(wire, f) =>
                Total(WireLoad(p))' = Total(WireLoad(p)) + ChunkOf(f, p)
           /\ wire # <<>> /\ wire' = Tail(wire) =>
                Total(WireLoad(p)) = Total(WireLoad(p))' + ChunkOf(Head(wire), p)
<1> DEFINE w == WireLoad(p)
<1>2. w \in Seq(0..1) /\ Len(w) = Len(wire) /\ Len(wire) \in Nat
    BY DEF WireLoad
<1>3. Total(w) \in Nat
    BY <1>2, UnitsFinite
<1>4. ASSUME \A i \in DOMAIN wire : wire[i].path # p PROVE Total(w) = 0
    <2>1. \A i \in DOMAIN w : w[i] = 0
        BY <1>4 DEF WireLoad
    <2> QED BY <2>1, TotalZero
<1>5. ASSUME NEW f \in Piece, wire' = Append(wire, f)
      PROVE  Total(WireLoad(p))' = Total(w) + ChunkOf(f, p)
    <2> DEFINE n == ChunkOf(f, p)
    <2>1. n \in 0..1
        BY DEF ChunkOf
    <2>2. WireLoad(p)' = Append(w, n)
        BY <1>2, <1>5 DEF WireLoad, ChunkOf
    <2> HIDE DEF w, n
    <2>3. Total(Append(w, n)) = Total(w) + n
        BY <1>2, <2>1, TotalAppend
    <2>4. Total(WireLoad(p))' = Total(Append(w, n))
        BY <2>2 DEF Total, Units
    <2> QED BY <2>3, <2>4 DEF w, n
<1>6. ASSUME wire # <<>>, wire' = Tail(wire)
      PROVE  Total(w) = Total(WireLoad(p))' + ChunkOf(Head(wire), p)
    <2>1. w # <<>> /\ w[1] = ChunkOf(Head(wire), p)
        BY <1>6 DEF WireLoad, ChunkOf
    <2>2. WireLoad(p)' = Tail(w)
        BY <1>2, <1>6 DEF WireLoad
    <2> HIDE DEF w
    <2>3. Total(w) = Total(Tail(w)) + w[1]
        BY <1>2, <2>1, TotalTail
    <2>4. Total(WireLoad(p))' = Total(Tail(w))
        BY <2>2 DEF Total, Units
    <2> QED BY <2>1, <2>3, <2>4
<1> QED BY <1>2, <1>3, <1>4, <1>5, <1>6

-----------------------------------------------------------------------------
(* The sending half                                                        *)

\* What the receiving half does is a step of Incoming.
LEMMA ConnIncoming ==
    ASSUME SenderType, [ConnNext]_allVars
    PROVE  [Next]_vars
<1>1. CASE SenderStep \/ (\E w \in Writer, n \in 0..MaxFrameChunks : Write(w, n))
    BY <1>1 DEF SenderStep, Write
<1>2. CASE ReceiverStep
    BY <1>2 DEF ReceiverStep, Next
<1>3. CASE ReadFrame
    <2>1. wire # <<>> /\ Head(wire).kind = "header" /\ IngressFrame(Head(wire).path, Head(wire).size)
        BY <1>3 DEF ReadFrame, ReadWire
    <2>2. Head(wire).path \in WirePath /\ Head(wire).size \in 0..MaxFrameChunks
        <3>1. wire[1] \in Piece /\ Head(wire) = wire[1] /\ 1 \in DOMAIN wire
            BY <2>1 DEF SenderType
        <3> QED BY <2>1, <3>1, ConnAssumption DEF SenderType, Piece
    <2> QED BY <2>1, <2>2 DEF Next, PeerStep
<1>4. CASE ReadData \/ ReadFin \/ ReadAbort
    BY <1>4 DEF ReadData, ReadFin, ReadAbort, Next, PeerStep
<1>5. CASE UNCHANGED allVars
    BY <1>5 DEF allVars
<1> QED BY <1>1, <1>2, <1>3, <1>4, <1>5 DEF ConnNext

\* The sending half, seen from the bytes it sends: a step that sends nothing,
\* takes a frame, writes a piece of it, or gives up on the rest.
SameFrame == egress'.left = egress.left /\ egress'.path = egress.path /\ egress'.size = egress.size
SendQuiet ==
    /\ UNCHANGED <<queue, wire, inbox, sent>>
    /\ (egress.left = 0 /\ egress'.left = 0) \/ SameFrame
    /\ end' = end \/ (end' = "fin" /\ inbox = "open")
    /\ Live = {} => Live' = {}
SendTake ==
    /\ UNCHANGED <<wire, inbox, sent, end, writer>> /\ egress.left = 0
    /\ queue # <<>> /\ queue' = Tail(queue)
    /\ egress'.path = Head(queue).path /\ egress'.size = Head(queue).size
    /\ egress'.left = Head(queue).size + 1
SendPiece ==
    /\ UNCHANGED <<queue, inbox, sent, end, writer>> /\ inbox = "open" /\ egress.left > 0
    /\ \E f \in Piece :
        /\ wire' = Append(wire, f) /\ f.path = egress.path
        /\ \/ f.kind = "header" /\ egress.left = egress.size + 1 /\ f.size = egress.size
           \/ f.kind = "chunk" /\ egress.left <= egress.size /\ f.size = 1
    /\ egress'.left = egress.left - 1
    /\ egress'.left > 0 => egress'.path = egress.path /\ egress'.size = egress.size
SendNoMore ==
    /\ UNCHANGED <<wire, sent, writer>> /\ queue' = <<>> /\ inbox' = "dropped" /\ SameFrame
    /\ end' = EndOfDropped
SendFrame(f) ==
    /\ UNCHANGED <<writer, wire, inbox, egress, end>> /\ queue' = Append(queue, f)
    /\ f.path \notin shut /\ shut' = IF f.size = 0 THEN shut \cup {f.path} ELSE shut
    /\ sent' = [sent EXCEPT ![f.path] = @ + f.size] /\ inbox = "open" /\ Live # {}

LEMMA OutIndexKind ==
    ASSUME SenderType, NEW w \in Writer,
           (\E v \in Writer, path \in OutPath : OutIndex(w, v, path)) \/ OutDrop(w)
    PROVE  /\ UNCHANGED <<queue, wire, egress, inbox, end, sent>> /\ Live # {}
           /\ writer' \in [Writer -> [st : {"free", "live"}, path : OutPath, error : {"none"}]]
<1>1. UNCHANGED <<queue, wire, egress, inbox, end, sent>>
    BY DEF OutIndex, OutDrop, egressVars, wireVars
<1>2. writer' \in [Writer -> [st : {"free", "live"}, path : OutPath, error : {"none"}]]
    <2> DEFINE R == [st : {"free", "live"}, path : OutPath, error : {"none"}]
    <2>1. NoWriter \in R /\ \A path \in OutPath : [NoWriter EXCEPT !.st = "live", !.path = path] \in R
        BY OutBoundAssumption DEF NoWriter
    <2>2. \E v \in Writer, r \in R : writer' = [writer EXCEPT ![v] = r]
        BY <2>1 DEF OutIndex, OutDrop
    <2>3. writer \in [Writer -> R]
        BY DEF SenderType
    <2> HIDE DEF R
    <2>4. writer' \in [Writer -> R]
        BY <2>2, <2>3
    <2> QED BY <2>4 DEF R
<1>3. Live # {}
    BY DEF OutIndex, OutDrop, Live
<1> QED BY <1>1, <1>2, <1>3

LEMMA TakeKind ==
    ASSUME SenderType, Leaving, EgressTake, UNCHANGED shut
    PROVE  SendTake /\ (SenderType /\ Leaving)'
<1> USE BoundAssumption
<1>1. /\ UNCHANGED <<writer, wire, inbox, end, sent>> /\ queue # <<>> /\ queue' = Tail(queue)
      /\ egress' = Writing(Head(queue)) /\ egress.pc \in {"recv", "next"}
    BY DEF EgressTake, wireVars
<1>2. Head(queue) \in Frame /\ queue' \in Seq(Frame) /\ egress.left = 0
    BY <1>1 DEF SenderType, Leaving
<1>3. /\ Head(queue).path \in OutPath /\ Head(queue).size \in 0..MaxFrameChunks
      /\ egress' = [pc |-> "write", path |-> Head(queue).path, size |-> Head(queue).size,
                    left |-> Head(queue).size + 1]
    BY <1>1, <1>2 DEF Frame, Writing
<1>4. SendTake
    BY <1>1, <1>2, <1>3 DEF SendTake
<1>5. SenderType'
    <2>1. egress' \in EgressRecord /\ egress'.left <= egress'.size + 1
        BY <1>3 DEF EgressRecord
    <2> QED BY <1>1, <1>2, <2>1 DEF SenderType
<1>6. Leaving'
    <2>1. egress'.pc = "write" /\ egress'.left > 0 /\ inbox = "open" /\ end # "fin"
        BY <1>1, <1>3 DEF Leaving, SenderType
    <2> QED BY <1>1, <2>1 DEF Leaving
<1> QED BY <1>4, <1>5, <1>6

LEMMA WriteKind ==
    ASSUME SenderType, Leaving, EgressWrite, UNCHANGED shut
    PROVE  SendPiece /\ (SenderType /\ Leaving)'
<1> USE BoundAssumption
<1> DEFINE f == IF egress.left = egress.size + 1
                THEN [kind |-> "header", path |-> egress.path, size |-> egress.size]
                ELSE [kind |-> "chunk", path |-> egress.path, size |-> 1]
<1>1. /\ UNCHANGED <<writer, queue, inbox, end, sent>> /\ egress.pc = "write" /\ end = "open"
      /\ wire' = Append(wire, f)
      /\ egress' = IF egress.left = 1 THEN [Waiting EXCEPT !.pc = "next"]
                   ELSE [egress EXCEPT !.left = @ - 1]
    BY DEF EgressWrite, handleVars
<1>2. /\ egress.left \in Nat /\ egress.left > 0 /\ egress.size \in 0..MaxFrameChunks
      /\ egress.left <= egress.size + 1 /\ inbox = "open" /\ egress.path \in OutPath
    BY <1>1 DEF SenderType, Leaving, EgressRecord
<1>3. /\ f \in Piece /\ f.path = egress.path
      /\ \/ f.kind = "header" /\ egress.left = egress.size + 1 /\ f.size = egress.size
         \/ f.kind = "chunk" /\ egress.left <= egress.size /\ f.size = 1
    BY <1>2 DEF Piece
<1> HIDE DEF f
<1>4. wire' \in Seq(Piece) /\ \A i \in DOMAIN wire' : wire'[i].kind = "header" => wire'[i].size \in 0..MaxFrameChunks
    BY <1>1, <1>2, <1>3 DEF SenderType
<1>5. /\ egress' \in EgressRecord /\ egress'.left = egress.left - 1 /\ egress'.left <= egress'.size + 1
      /\ egress'.left > 0 => egress'.path = egress.path /\ egress'.size = egress.size
      /\ egress'.pc = IF egress'.left = 0 THEN "next" ELSE "write"
    <2>1. CASE egress.left = 1
        <3>1. egress' = [pc |-> "next", path |-> <<>>, size |-> 0, left |-> 0]
            BY <1>1, <2>1 DEF Waiting
        <3> QED BY <2>1, <3>1, OutBoundAssumption DEF EgressRecord
    <2>2. CASE egress.left # 1
        <3>1. egress' = [egress EXCEPT !.left = @ - 1] /\ egress \in EgressRecord
            BY <1>1, <2>2 DEF SenderType
        <3>2. egress' \in EgressRecord /\ egress'.left = egress.left - 1 /\ egress'.path = egress.path
              /\ egress'.size = egress.size /\ egress'.pc = egress.pc
            BY <1>2, <2>2, <3>1 DEF EgressRecord
        <3> QED BY <1>1, <1>2, <2>2, <3>2
    <2> QED BY <2>1, <2>2
<1>6. SendPiece
    BY <1>1, <1>2, <1>3, <1>5 DEF SendPiece
<1>7. SenderType'
    BY <1>1, <1>4, <1>5 DEF SenderType
<1>8. Leaving'
    BY <1>1, <1>2, <1>5 DEF Leaving, EgressRecord
<1> QED BY <1>6, <1>7, <1>8

\* Egress moves on, with the frame it has.
LEMMA MoveKind ==
    ASSUME SenderType, Leaving, UNCHANGED shut,
           EgressEmpty \/ EgressLast \/ EgressShutdown \/ EgressFail \/ EgressPublish
    PROVE  SendQuiet /\ UNCHANGED writer /\ (SenderType /\ Leaving)'
<1>1. UNCHANGED <<writer, queue, wire, inbox, sent>>
    BY DEF EgressEmpty, EgressLast, EgressShutdown, EgressFail, EgressPublish, handleVars, wireVars
<1>2. PICK q \in {"flush", "shutdown", "ok", "err", "done"} : egress' = [egress EXCEPT !.pc = q]
    BY DEF EgressEmpty, EgressLast, EgressShutdown, EgressFail, EgressPublish
<1>3. egress' \in EgressRecord /\ SameFrame /\ egress'.pc = q /\ egress.left \in Nat /\ egress.left <= egress.size + 1
    BY <1>2 DEF SenderType, EgressRecord, SameFrame
<1>4. end' = end \/ (EgressShutdown /\ end' = "fin" /\ egress.pc = "shutdown")
    BY DEF EgressEmpty, EgressLast, EgressShutdown, EgressFail, EgressPublish, wireVars
<1>5. SenderType'
    BY <1>1, <1>3, <1>4 DEF SenderType, SameFrame
<1>6. UNCHANGED Live
    BY <1>1 DEF Live
<1>7. Leaving'
    <2>1. CASE EgressEmpty
        BY <1>1, <1>3, <1>6, <2>1 DEF EgressEmpty, Leaving, SameFrame, wireVars
    <2>2. CASE EgressLast
        BY <1>1, <1>3, <1>6, <2>2 DEF EgressLast, Leaving, SameFrame, wireVars
    <2>3. CASE EgressShutdown
        BY <1>1, <1>3, <1>6, <2>3 DEF EgressShutdown, Leaving, SameFrame
    <2>4. CASE EgressFail
        BY <1>1, <1>3, <1>6, <2>4 DEF EgressFail, Leaving, SameFrame, wireVars
    <2>5. CASE EgressPublish
        BY <1>1, <1>3, <1>6, <2>5 DEF EgressPublish, Leaving, SameFrame, wireVars
    <2> QED BY <2>1, <2>2, <2>3, <2>4, <2>5
<1>8. egress.pc = "shutdown" => inbox = "open"
    BY DEF Leaving, SenderType
<1> QED BY <1>1, <1>3, <1>4, <1>5, <1>6, <1>7, <1>8 DEF SendQuiet

LEMMA FlushKind ==
    ASSUME SenderType, Leaving, UNCHANGED shut, EgressFlush
    PROVE  SendQuiet /\ UNCHANGED writer /\ (SenderType /\ Leaving)'
<1>1. /\ UNCHANGED <<writer, queue, wire, inbox, sent, end>> /\ egress.pc = "flush" /\ end = "open"
      /\ egress' = [pc |-> "recv", path |-> <<>>, size |-> 0, left |-> 0]
    BY DEF EgressFlush, handleVars, Waiting
<1>2. egress' \in EgressRecord /\ egress'.left = 0 /\ egress'.size = 0 /\ egress'.pc = "recv" /\ egress.left = 0
    BY <1>1, OutBoundAssumption, BoundAssumption DEF EgressRecord, Leaving
<1>3. SenderType'
    BY <1>1, <1>2 DEF SenderType
<1>4. Leaving'
    BY <1>1, <1>2 DEF Leaving
<1>5. UNCHANGED Live
    BY <1>1 DEF Live
<1> QED BY <1>1, <1>2, <1>3, <1>4, <1>5 DEF SendQuiet

LEMMA DropKind ==
    ASSUME SenderType, Leaving, UNCHANGED shut, EgressDrop
    PROVE  SendNoMore /\ (SenderType /\ Leaving)'
<1>1. /\ UNCHANGED <<writer, wire, sent>> /\ queue' = <<>> /\ inbox' = "dropped" /\ end' = EndOfDropped
      /\ egress' = [egress EXCEPT !.pc = "gone"]
    BY DEF EgressDrop
<1>2. egress' \in EgressRecord /\ SameFrame /\ egress'.pc = "gone" /\ egress'.left <= egress'.size + 1
    BY <1>1 DEF SenderType, EgressRecord, SameFrame
<1>3. SendNoMore
    BY <1>1, <1>2 DEF SendNoMore
<1>4. SenderType'
    BY <1>1, <1>2 DEF SenderType, EndOfDropped
<1>5. Leaving'
    <2>1. UNCHANGED Live
        BY <1>1 DEF Live
    <2>2. end' = "fin" => end = "fin"
        BY <1>1 DEF EndOfDropped
    <2> QED BY <1>1, <1>2, <2>1, <2>2 DEF Leaving, SameFrame
<1> QED BY <1>3, <1>4, <1>5

LEMMA SenderKind ==
    ASSUME SenderType, Leaving, SenderStep
    PROVE  /\ SendQuiet \/ SendTake \/ SendPiece \/ SendNoMore
           /\ UNCHANGED <<vars, connVars, sent>> /\ (SenderType /\ Leaving)'
<1>1. UNCHANGED <<vars, connVars, shut>>
    BY DEF SenderStep, connVars
<1>2. ASSUME NEW w \in Writer, (\E v \in Writer, path \in OutPath : OutIndex(w, v, path)) \/ OutDrop(w)
      PROVE  SendQuiet /\ (SenderType /\ Leaving)'
    <2>1. /\ UNCHANGED <<queue, wire, egress, inbox, end, sent>> /\ Live # {}
          /\ writer' \in [Writer -> [st : {"free", "live"}, path : OutPath, error : {"none"}]]
        BY <1>2, OutIndexKind
    <2>2. SenderType'
        BY <1>1, <2>1 DEF SenderType
    <2>3. Leaving'
        BY <2>1 DEF Leaving
    <2> QED BY <2>1, <2>2, <2>3 DEF SendQuiet, SameFrame
<1>3. CASE \E w \in Writer : (\E v \in Writer, path \in OutPath \ {writer[w].path} : OutIndex(w, v, path)) \/ OutDrop(w)
    BY <1>1, <1>2, <1>3 DEF SendQuiet
<1>4. CASE EgressStep \/ EgressFail
    <2>1. SendQuiet \/ SendTake \/ SendPiece \/ SendNoMore
        BY <1>1, <1>4, TakeKind, WriteKind, MoveKind, FlushKind, DropKind DEF EgressStep
    <2>2. (SenderType /\ Leaving)'
        BY <1>1, <1>4, TakeKind, WriteKind, MoveKind, FlushKind, DropKind DEF EgressStep
    <2> QED BY <1>1, <2>1, <2>2 DEF SendQuiet, SendTake, SendPiece, SendNoMore
<1> QED BY <1>3, <1>4 DEF SenderStep

LEMMA FrameKind ==
    ASSUME SenderType, Leaving, NEW w \in Writer, NEW n \in 0..MaxFrameChunks, Write(w, n)
    PROVE  /\ \E f \in Frame : SendFrame(f)
           /\ UNCHANGED <<vars, got, outcome>> /\ (SenderType /\ Leaving)'
<1> DEFINE f == [path |-> writer[w].path, size |-> n]
<1>1. f \in Frame /\ f.path = writer[w].path /\ f.size = n /\ w \in Live
    BY DEF SenderType, Frame, Write, Live
<1>2. /\ UNCHANGED <<writer, wire, inbox, egress, end, vars, got, outcome>>
      /\ queue' = Append(queue, f) /\ inbox = "open" /\ f.path \notin shut
      /\ shut' = IF f.size = 0 THEN shut \cup {f.path} ELSE shut
      /\ sent' = [sent EXCEPT ![f.path] = @ + f.size]
    BY <1>1 DEF Write, SendReserved, egressVars, wireVars
<1> HIDE DEF f
<1>3. SendFrame(f)
    BY <1>1, <1>2 DEF SendFrame
<1>4. f.path \in OutPath /\ f.size \in Nat /\ n \in Nat
    BY <1>1, BoundAssumption DEF Frame
<1>5. SenderType'
    <2>1. sent' \in [OutPath -> Nat] /\ shut' \subseteq OutPath /\ queue' \in Seq(Frame)
        BY <1>1, <1>2, <1>4 DEF SenderType
    <2> QED BY <1>2, <2>1 DEF SenderType
<1>6. Leaving'
    <2>1. UNCHANGED Live /\ Live # {}
        BY <1>1, <1>2 DEF Live
    <2> QED BY <1>2, <2>1 DEF Leaving
<1> QED BY <1>1, <1>2, <1>3, <1>5, <1>6

-----------------------------------------------------------------------------
(* The receiving half                                                      *)

\* The receiving half, seen from the bytes it receives: no path is closed, and
\* no chunk gets lost or is made up on its way to the reader.
TxKept == \A p \in OutPath : tx'[p] = "closed" => tx[p] = "closed"
Even == UNCHANGED <<raced, drained>> /\ \A p \in OutPath : got'[p] + unread'[p] = got[p] + unread[p]

\* A step leaves ingress alone, ends it, passes a chunk on, or routes a frame.
RecvQuiet == UNCHANGED io /\ TxKept /\ Even
RecvStop ==
    /\ io'.pc \in {"ended", "closing", "done"} /\ TxKept /\ Even
    /\ io'.res = "ok" => io.res = "ok" \/ ReadFin
    /\ io'.res = "protocol" => io.res = "protocol"
RecvMove ==
    /\ io.pc = "send" /\ io'.pc = "push" /\ io'.path = io.path /\ io'.rem = io.rem /\ io'.res = io.res
    /\ TxKept /\ Even
RecvPush ==
    /\ io.pc = "push" /\ TxKept
    /\ io'.pc = "header" \/ (io'.pc = "data" /\ io'.path = io.path)
    /\ io'.res \in {io.res, "none"}
    /\ raced \subseteq raced' /\ drained \subseteq drained' /\ UNCHANGED got
    /\ \A p \in OutPath :
        /\ unread'[p] = unread[p] \/ (p = io.path /\ unread'[p] = unread[p] + 1)
        /\ p = io.path /\ p \notin raced' \cup drained' => unread'[p] = unread[p] + 1
RecvRoute(path, n) ==
    /\ UNCHANGED <<got, unread, raced, drained>>
    /\ \/ /\ io'.pc = "ended" /\ io'.res \in ErrorKind /\ TxKept
          /\ io'.res = "protocol" => ~IsDeclared[path] \/ tx[path] = "closed"
       \/ io'.pc = "wait" /\ io'.path = path /\ io'.rem = n /\ io'.res = "none" /\ TxKept
       \/ n # 0 /\ io'.pc = "data" /\ io'.path = path /\ io'.res = "none" /\ TxKept
       \/ /\ n = 0 /\ io'.pc = "header" /\ io'.res = "none"
          /\ \A p \in OutPath : tx'[p] = "closed" => tx[p] = "closed" \/ p = path

LEMMA RouteKind ==
    ASSUME NEW path \in Node, NEW n, NEW granted \in BOOLEAN, Route(path, n, granted),
           UNCHANGED <<got, unread, raced, drained>>, tx \in [Node -> {"none", "open", "closed"}]
    PROVE  RecvRoute(path, n)
<1> DEFINE missing == IF path \in subs /\ tx[path] # "none" THEN {} ELSE Elements[path] \ subs
           first == Outermost(missing)
           opened == IF granted /\ missing # {} THEN {first} ELSE {}
           blocked == missing # {} /\ (~granted \/ missing # {first})
           sub == IF blocked THEN opened ELSE opened \cup {path}
<1>0. OutPath \subseteq Node
    BY ConnAssumption
<1>1. \/ /\ UNCHANGED tx
         /\ \/ Return("broken_pipe")
            \/ Return("protocol") /\ (~IsDeclared[path] \/ tx[path] = "closed")
      \/ /\ tx' = IF ~blocked /\ n = 0 THEN [SubscribedTx(sub) EXCEPT ![path] = "closed"]
                                      ELSE SubscribedTx(sub)
         /\ io' = [pc |-> IF blocked THEN "wait" ELSE IF n = 0 THEN "header" ELSE "data",
                   path |-> IF ~blocked /\ n = 0 THEN <<>> ELSE path,
                   rem |-> n, res |-> "none"]
    <2> HIDE DEF blocked
    <2> QED BY DEF Route, blocked, Ended
<1> HIDE DEF blocked, sub
<1>2. CASE UNCHANGED tx /\ Return("broken_pipe")
    BY <1>2 DEF RecvRoute, Return, Idle, ErrorKind, TxKept
<1>3. CASE UNCHANGED tx /\ Return("protocol") /\ (~IsDeclared[path] \/ tx[path] = "closed")
    BY <1>3 DEF RecvRoute, Return, Idle, ErrorKind, TxKept
<1>4. CASE blocked /\ tx' = SubscribedTx(sub) /\ io' = [pc |-> "wait", path |-> path, rem |-> n, res |-> "none"]
    <2>1. TxKept
        BY <1>0, <1>4 DEF TxKept, SubscribedTx
    <2> QED BY <1>4, <2>1 DEF RecvRoute
<1>5. CASE n # 0 /\ tx' = SubscribedTx(sub) /\ io' = [pc |-> "data", path |-> path, rem |-> n, res |-> "none"]
    <2>1. TxKept
        BY <1>0, <1>5 DEF TxKept, SubscribedTx
    <2> QED BY <1>5, <2>1 DEF RecvRoute
<1>6. CASE n = 0 /\ tx' = [SubscribedTx(sub) EXCEPT ![path] = "closed"]
           /\ io' = [pc |-> "header", path |-> <<>>, rem |-> n, res |-> "none"]
    <2>1. \A p \in OutPath : tx'[p] = "closed" => tx[p] = "closed" \/ p = path
        BY <1>0, <1>6 DEF SubscribedTx
    <2> QED BY <1>6, <2>1 DEF RecvRoute
<1> QED BY <1>1, <1>2, <1>3, <1>4, <1>5, <1>6

\* The tasks of handles leave ingress alone.
LEMMA HandleKind ==
    ASSUME TypeOK, ReaderType, NEW h \in Handle, HandleStep(h),
           got' = [p \in OutPath |-> IF unread'[p] < unread[p] THEN got[p] + 1 ELSE got[p]]
    PROVE  RecvQuiet
<1>0. /\ tx \in [Node -> {"none", "open", "closed"}] /\ unread \in [Node -> Int] /\ OutPath \subseteq Node
      /\ got \in [OutPath -> Nat] /\ handle[h].path \in Node
    BY ConnAssumption DEF TypeOK, SubsTypeOK, HandleTypeOK, ReaderType
<1>1. UNCHANGED <<io, raced, drained>>
    BY DEF HandleStep, IndexSkip, IndexTake, IndexNotFound, TakeReader, ReadChunk, ReadRest, ReadEof,
           ReadError, ReadEnd, DropClose, DropRelease, DropFinish, taskVars, history
<1>2. UNCHANGED unread \/ unread' = [unread EXCEPT ![handle[h].path] = @ - 1]
    BY DEF HandleStep, IndexSkip, IndexTake, IndexNotFound, TakeReader, ReadChunk, ReadRest, ReadEof,
           ReadError, ReadEnd, DropClose, DropRelease, DropFinish, history
<1>3. Even
    <2> SUFFICES ASSUME NEW p \in OutPath PROVE got'[p] + unread'[p] = got[p] + unread[p]
        BY <1>1 DEF Even
    <2>1. unread[p] \in Int /\ got[p] \in Nat /\ unread'[p] \in {unread[p], unread[p] - 1}
        BY <1>0, <1>2
    <2> QED BY <2>1
<1>4. TxKept
    <2>1. ASSUME NEW es, NEW counts, Remove(es, counts)
          PROVE  TxKept
        BY <1>0, <2>1 DEF Remove, TxKept
    <2>2. ASSUME NEW g \in Handle, IndexTake(h, g)
          PROVE  TxKept
        BY <1>0, <2>2 DEF IndexTake, TxKept, SubscribedTx
    <2>3. CASE UNCHANGED tx
        BY <2>3 DEF TxKept
    <2> QED BY <2>1, <2>2, <2>3
            DEF HandleStep, IndexSkip, IndexNotFound, TakeReader, ReadChunk, ReadRest, ReadEof, ReadError,
                ReadEnd, DropClose, DropRelease, DropFinish, subsVars
<1> QED BY <1>1, <1>3, <1>4 DEF RecvQuiet

LEMMA ReceiverKind ==
    ASSUME TypeOK, Target, ReaderType, ReceiverStep
    PROVE  /\ UNCHANGED <<outVars, shut>>
           /\ \/ RecvQuiet \/ RecvStop \/ RecvMove \/ RecvPush
              \/ io.pc = "wait" /\ RecvRoute(io.path, io.rem)
<1>0. /\ tx \in [Node -> {"none", "open", "closed"}] /\ unread \in [Node -> Int] /\ OutPath \subseteq Node
      /\ got \in [OutPath -> Nat] /\ io.path \in Node
      /\ io \in [pc : Awaiting \cup {"push", "ended", "closing", "done"}, path : Node,
                 rem : 0..MaxFrameChunks, res : {"none", "ok"} \cup ErrorKind]
    BY ConnAssumption DEF TypeOK, SubsTypeOK, TaskTypeOK, ReaderType
<1>1. /\ UNCHANGED <<outVars, shut>>
      /\ got' = [p \in OutPath |-> IF unread'[p] < unread[p] THEN got[p] + 1 ELSE got[p]]
    BY DEF ReceiverStep
<1>2. ASSUME UNCHANGED history
      PROVE  UNCHANGED <<got, unread, raced, drained>> /\ Even
    <2>1. UNCHANGED <<unread, raced, drained>>
        BY <1>2 DEF history
    <2>2. \A p \in OutPath : unread[p] \in Int /\ unread'[p] = unread[p] /\ got[p] \in Nat
        BY <1>0, <2>1
    <2>3. \A p \in OutPath : got'[p] = got[p]
        BY <1>1, <2>2
    <2>4. got' = got
        BY <1>0, <1>1, <2>3
    <2> QED BY <2>1, <2>4 DEF Even
<1>3. CASE \E h \in Handle : HandleStep(h)
    BY <1>1, <1>3, HandleKind
<1>4. CASE Abort \/ CloseRx
    <2>1. UNCHANGED <<io, history, tx>>
        BY <1>4 DEF Abort, CloseRx, subsVars
    <2> QED BY <1>1, <1>2, <2>1 DEF RecvQuiet, TxKept
<1>5. CASE IngressPermit \/ IngressIndexed
    <2>1. io.pc = "wait" /\ UNCHANGED history /\ \E granted \in BOOLEAN : Route(io.path, io.rem, granted)
        BY <1>5 DEF IngressPermit, IngressIndexed, IngressUnchanged
    <2> QED BY <1>0, <1>1, <1>2, <2>1, RouteKind
<1>6. CASE IngressClosed \/ IngressFailed
    <2>1. UNCHANGED <<history, tx>> /\ Return("broken_pipe")
        BY <1>6 DEF IngressClosed, IngressFailed, IngressUnchanged, subsVars
    <2> QED BY <1>1, <1>2, <2>1 DEF RecvStop, TxKept, Return, Idle
<1>7. CASE IngressReserve
    <2>1. UNCHANGED <<history, tx>> /\ io.pc = "send" /\ (Return("broken_pipe") \/ io' = [io EXCEPT !.pc = "push"])
        BY <1>7 DEF IngressReserve, IngressUnchanged, subsVars
    <2>2. CASE Return("broken_pipe")
        BY <1>1, <1>2, <2>1, <2>2 DEF RecvStop, TxKept, Return, Idle
    <2>3. CASE io' = [io EXCEPT !.pc = "push"]
        BY <1>0, <1>1, <1>2, <2>1, <2>3 DEF RecvMove, TxKept
    <2> QED BY <2>1, <2>2, <2>3
<1>8. CASE SetErr \/ CloseTx
    <2>1. UNCHANGED history /\ (tx' = tx \/ CloseSenders) /\ \E q \in {"closing", "done"} : io' = [io EXCEPT !.pc = q]
        BY <1>8 DEF SetErr, CloseTx, subsVars
    <2>2. io'.pc \in {"closing", "done"} /\ io'.res = io.res
        BY <1>0, <2>1
    <2>3. TxKept
        BY <1>0, <2>1 DEF TxKept, CloseSenders
    <2> QED BY <1>1, <1>2, <2>1, <2>2, <2>3 DEF RecvStop
<1>9. CASE IngressPush
    <2> DEFINE late == rx[io.path] \in {"checked", "gone"}
    <2>1. /\ io.pc = "push" /\ UNCHANGED tx
          /\ io' = IF io.rem = 1 THEN Idle ELSE [io EXCEPT !.pc = "data", !.rem = @ - 1]
          /\ unread' = IF late \/ task = "draining" THEN unread ELSE [unread EXCEPT ![io.path] = @ + 1]
          /\ raced' = IF late THEN raced \cup {io.path} ELSE raced
          /\ drained' = IF task = "draining" THEN drained \cup {io.path} ELSE drained
        BY <1>9 DEF IngressPush, subsVars
    <2> HIDE DEF late
    <2>2. (io'.pc = "header" /\ io'.res = "none") \/ (io'.pc = "data" /\ io'.path = io.path /\ io'.res = io.res)
        BY <1>0, <2>1 DEF Idle
    <2>3. got' = got
        <3>1. \A p \in OutPath : unread[p] \in Int /\ unread'[p] \in {unread[p], unread[p] + 1}
            BY <1>0, <2>1
        <3>2. \A p \in OutPath : got'[p] = got[p]
            BY <1>1, <3>1
        <3> QED BY <1>0, <1>1, <3>2
    <2>4. ASSUME NEW p \in OutPath
          PROVE  /\ unread'[p] = unread[p] \/ (p = io.path /\ unread'[p] = unread[p] + 1)
                 /\ p = io.path /\ p \notin raced' \cup drained' => unread'[p] = unread[p] + 1
        BY <1>0, <2>1
    <2>5. raced \subseteq raced' /\ drained \subseteq drained'
        BY <2>1
    <2> QED BY <1>1, <2>1, <2>2, <2>3, <2>4, <2>5 DEF RecvPush, TxKept
<1> QED BY <1>3, <1>4, <1>5, <1>6, <1>7, <1>8, <1>9 DEF ReceiverStep, IngressStep

\* What ingress reads from the wire.
LEMMA ReadKind ==
    ASSUME TypeOK, ReaderType, SenderType, ReadFrame \/ ReadData \/ ReadFin \/ ReadAbort
    PROVE  /\ UNCHANGED <<writer, queue, sent, inbox, egress, end, shut, outcome>>
           /\ \/ /\ wire # <<>> /\ Head(wire).kind = "header" /\ wire' = Tail(wire)
                 /\ io.pc = "header" /\ RecvRoute(Head(wire).path, Head(wire).size)
              \/ /\ wire # <<>> /\ Head(wire).kind = "chunk" /\ wire' = Tail(wire)
                 /\ io.pc = "data" /\ io'.pc = "send" /\ io'.path = io.path /\ io'.res = io.res
                 /\ UNCHANGED <<got, unread, raced, drained, tx>>
              \/ UNCHANGED wire /\ RecvStop
<1>0. /\ tx \in [Node -> {"none", "open", "closed"}]
      /\ io \in [pc : Awaiting \cup {"push", "ended", "closing", "done"}, path : Node,
                 rem : 0..MaxFrameChunks, res : {"none", "ok"} \cup ErrorKind]
    BY DEF TypeOK, SubsTypeOK, TaskTypeOK
<1>1. CASE ReadFrame
    <2>1. /\ UNCHANGED <<writer, queue, sent, inbox, egress, end, shut, outcome, got, unread, raced, drained>>
          /\ wire # <<>> /\ Head(wire).kind = "header" /\ wire' = Tail(wire)
          /\ io.pc = "header" /\ Head(wire).path \in Node /\ Route(Head(wire).path, Head(wire).size, FALSE)
        BY <1>1 DEF ReadFrame, ReadWire, IngressFrame, IngressUnchanged, handleVars, egressVars, connVars, history
    <2> QED BY <1>0, <2>1, RouteKind
<1>2. CASE ReadData
    <2>1. /\ UNCHANGED <<writer, queue, sent, inbox, egress, end, shut, outcome, got, unread, raced, drained, tx>>
          /\ wire # <<>> /\ Head(wire).kind = "chunk" /\ wire' = Tail(wire)
          /\ io.pc = "data" /\ io' = [io EXCEPT !.pc = "send"]
        BY <1>2 DEF ReadData, ReadWire, IngressData, IngressUnchanged, handleVars, egressVars, connVars, history, subsVars
    <2> QED BY <1>0, <2>1
<1>3. CASE ReadFin \/ ReadAbort
    <2>1. /\ UNCHANGED <<writer, queue, sent, inbox, egress, end, shut, outcome, got, unread, raced, drained, tx, wire>>
          /\ (Return("ok") /\ ReadFin) \/ Return("transport")
        BY <1>3
        DEF ReadFin, ReadAbort, IngressEnd, IngressBroken, IngressUnchanged, outVars, handleVars, egressVars,
            wireVars, connVars, history, subsVars
    <2> QED BY <2>1 DEF RecvStop, Return, Idle, TxKept, Even
<1> QED BY <1>1, <1>2, <1>3

\* The steps of a connection, by their kind.
ReceiverSame == UNCHANGED <<io, tx, got, unread, raced, drained>>
SenderSame == UNCHANGED <<writer, queue, sent, inbox, egress, end, shut>>
SendKind == ReceiverSame /\ UNCHANGED shut /\ (SendQuiet \/ SendTake \/ SendPiece \/ SendNoMore)
WriteFrame(f) == ReceiverSame /\ SendFrame(f)
RecvKind == SenderSame /\ UNCHANGED wire /\ (RecvQuiet \/ RecvStop \/ RecvMove \/ RecvPush)
WaitKind == SenderSame /\ UNCHANGED wire /\ io.pc = "wait" /\ RecvRoute(io.path, io.rem)
HeaderKind ==
    /\ SenderSame /\ wire # <<>> /\ Head(wire).kind = "header" /\ wire' = Tail(wire)
    /\ io.pc = "header" /\ RecvRoute(Head(wire).path, Head(wire).size)
ChunkKind ==
    /\ SenderSame /\ wire # <<>> /\ Head(wire).kind = "chunk" /\ wire' = Tail(wire)
    /\ io.pc = "data" /\ io'.pc = "send" /\ io'.path = io.path /\ io'.res = io.res
    /\ UNCHANGED <<got, unread, raced, drained, tx>>

LEMMA StepKind ==
    ASSUME TypeOK, Target, ReaderType, SenderType, Leaving, [ConnNext]_allVars
    PROVE  SendKind \/ (\E f \in Frame : WriteFrame(f)) \/ RecvKind \/ WaitKind \/ HeaderKind \/ ChunkKind
<1>1. ASSUME UNCHANGED vars PROVE UNCHANGED <<io, tx, unread, raced, drained>>
    BY <1>1 DEF vars, subsVars, taskVars, history
<1>2. ASSUME UNCHANGED outVars PROVE UNCHANGED <<writer, queue, sent, inbox, egress, end, wire>>
    BY <1>2 DEF outVars, handleVars, egressVars, wireVars
<1>3. CASE SenderStep
    BY <1>1, <1>3, SenderKind DEF SendKind, ReceiverSame, connVars
<1>4. ASSUME NEW w \in Writer, NEW n \in 0..MaxFrameChunks, Write(w, n)
      PROVE  \E f \in Frame : WriteFrame(f)
    BY <1>1, <1>4, FrameKind DEF WriteFrame, ReceiverSame
<1>5. CASE ReceiverStep
    BY <1>2, <1>5, ReceiverKind DEF SenderSame, RecvKind, WaitKind
<1>6. CASE ReadFrame \/ ReadData \/ ReadFin \/ ReadAbort
    BY <1>6, ReadKind DEF SenderSame, RecvKind, HeaderKind, ChunkKind
<1>7. CASE UNCHANGED allVars
    BY <1>1, <1>2, <1>7 DEF allVars, connVars, SenderSame, RecvKind, RecvQuiet, TxKept, Even
<1> QED BY <1>3, <1>4, <1>5, <1>6, <1>7 DEF ConnNext

\* The sending half keeps its shape and the order in which it ends, ...
LEMMA SenderTypeStep ==
    ASSUME TypeOK, Target, ReaderType, SenderType, Leaving, [ConnNext]_allVars
    PROVE  (SenderType /\ Leaving)'
<1>2. ASSUME UNCHANGED <<outVars, shut>> PROVE (SenderType /\ Leaving)'
    <2>1. UNCHANGED <<writer, queue, sent, inbox, egress, end, wire, shut>>
        BY <1>2 DEF outVars, handleVars, egressVars, wireVars
    <2> QED BY <2>1 DEF SenderType, Leaving, Live
<1>3. CASE SenderStep
    BY <1>3, SenderKind
<1>4. CASE \E w \in Writer, n \in 0..MaxFrameChunks : Write(w, n)
    BY <1>4, FrameKind
<1>5. CASE ReceiverStep \/ ReadFin \/ ReadAbort \/ UNCHANGED allVars
    BY <1>2, <1>5 DEF ReceiverStep, ReadFin, ReadAbort, allVars, connVars
<1>6. CASE ReadFrame \/ ReadData
    <2>1. /\ UNCHANGED <<writer, queue, sent, inbox, egress, end, shut>>
          /\ wire # <<>> /\ wire' = Tail(wire)
        BY <1>6 DEF ReadFrame, ReadData, ReadWire, handleVars, egressVars, connVars
    <2>2. wire' \in Seq(Piece) /\ \A i \in DOMAIN wire' : i + 1 \in DOMAIN wire /\ wire'[i] = wire[i + 1]
        BY <2>1 DEF SenderType
    <2>3. SenderType'
        BY <2>1, <2>2 DEF SenderType
    <2>4. Leaving'
        BY <2>1 DEF Leaving, Live
    <2> QED BY <2>3, <2>4
<1> QED BY <1>3, <1>4, <1>5, <1>6 DEF ConnNext

\* ... and the receiving half its own.
LEMMA ReaderTypeStep ==
    ASSUME TypeOK, Target, ReaderType, SenderType, Leaving, [ConnNext]_allVars
    PROVE  ReaderType'
<1>1. got' \in [OutPath -> Nat] /\ outcome' \in [OutPath -> {"none", "end", "error"}]
    <2>1. CASE ReceiverStep
        BY <2>1 DEF ReceiverStep, ReaderType
    <2>2. CASE UNCHANGED <<got, outcome>>
        BY <2>2 DEF ReaderType
    <2>3. ~ReceiverStep => UNCHANGED <<got, outcome>>
        BY DEF ConnNext, SenderStep, Write, ReadFrame, ReadData, ReadFin, ReadAbort, ReadWire, connVars, allVars
    <2> QED BY <2>1, <2>2, <2>3
<1>2. Busy' => io'.path \in OutPath
    <2>1. wire # <<>> => Head(wire).path \in OutPath
        <3> SUFFICES ASSUME wire # <<>> PROVE Head(wire).path \in OutPath
            OBVIOUS
        <3>1. Head(wire) \in Piece
            BY DEF SenderType
        <3> QED BY <3>1 DEF Piece
    <2>2. CASE SendKind \/ (\E f \in Frame : WriteFrame(f)) \/ ChunkKind
        BY <2>2 DEF SendKind, WriteFrame, ReceiverSame, ChunkKind, ReaderType, Busy
    <2>3. CASE RecvKind
        BY <2>3 DEF RecvKind, RecvQuiet, RecvStop, RecvMove, RecvPush, ReaderType, Busy
    <2>4. CASE WaitKind \/ HeaderKind
        BY <2>1, <2>4 DEF WaitKind, HeaderKind, RecvRoute, ReaderType, Busy
    <2> QED BY <2>2, <2>3, <2>4, StepKind
<1> QED BY <1>1, <1>2 DEF ReaderType

-----------------------------------------------------------------------------
(* The frame that closes a path is the last one of its path                *)

\* Nothing is sent on a path once there is nothing left to send.
LEMMA StayClear ==
    ASSUME SenderType, NEW p, SendKind, SenderClear(p)
    PROVE  /\ SenderClear(p)'
           /\ WireClear(p) => WireClear(p)'
<1>0. queue \in Seq(Frame) /\ wire \in Seq(Piece) /\ egress.left \in Nat
    BY DEF SenderType, EgressRecord
<1>1. QueueClear(p) /\ ~EgressOn(p)
    BY DEF SenderClear
<1>2. CASE SendQuiet
    BY <1>1, <1>2 DEF SendQuiet, SameFrame, SenderClear, QueueClear, EgressOn, WireClear
<1>3. CASE SendTake
    <2>1. Head(queue).path # p /\ QueueClear(p)'
        BY <1>0, <1>1, <1>3 DEF SendTake, QueueClear
    <2> QED BY <1>3, <2>1 DEF SendTake, SenderClear, EgressOn, WireClear
<1>4. CASE SendPiece
    <2>1. SenderClear(p)' /\ egress.path # p
        BY <1>1, <1>4 DEF SendPiece, SenderClear, QueueClear, EgressOn
    <2>2. PICK f \in Piece : wire' = Append(wire, f) /\ f.path = egress.path
        BY <1>4 DEF SendPiece
    <2>3. (\A i \in DOMAIN wire : wire[i].path # p) => \A i \in DOMAIN wire' : wire'[i].path # p
        BY <1>0, <2>1, <2>2
    <2> QED BY <2>1, <2>3 DEF WireClear
<1>5. CASE SendNoMore
    BY <1>1, <1>5 DEF SendNoMore, SameFrame, SenderClear, QueueClear, EgressOn, WireClear
<1> QED BY <1>2, <1>3, <1>4, <1>5 DEF SendKind

LEMMA OrderSend ==
    ASSUME SenderType, Order, SendKind
    PROVE  Order'
<1>0. /\ UNCHANGED <<io, tx, shut>> /\ queue \in Seq(Frame) /\ wire \in Seq(Piece)
      /\ egress.left \in Nat /\ egress.size \in Nat
    BY BoundAssumption DEF SendKind, ReceiverSame, SenderType, EgressRecord
<1>1. IngressOrder' /\ ClosedOrder'
    <2>1. \A p : WireClear(p) => WireClear(p)'
        BY StayClear DEF WireClear
    <2>2. IngressOrder'
        BY <1>0, <2>1 DEF Order, IngressOrder
    <2>3. ClosedOrder'
        BY <1>0, <2>1 DEF Order, ClosedOrder, IngressOn, Busy
    <2> QED BY <2>2, <2>3
<1>2. ASSUME UNCHANGED wire PROVE WireOrder'
    BY <1>0, <1>2, StayClear DEF Order, WireOrder
<1>3. CASE SendQuiet
    <2>1. QueueOrder'
        BY <1>0, <1>3 DEF SendQuiet, Order, QueueOrder
    <2>2. EgressOrder'
        BY <1>0, <1>3 DEF SendQuiet, SameFrame, Order, EgressOrder, QueueClear
    <2> QED BY <1>1, <1>2, <1>3, <2>1, <2>2 DEF SendQuiet, Order
<1>4. CASE SendTake
    <2>1. /\ Head(queue) = queue[1] /\ 1 \in DOMAIN queue
          /\ \A i \in DOMAIN queue' : i > 0 /\ i + 1 > 1 /\ i + 1 \in DOMAIN queue /\ queue'[i] = queue[i + 1]
          /\ \A i, j \in DOMAIN queue' : i > j => i + 1 > j + 1
        BY <1>0, <1>4 DEF SendTake
    <2>2. QueueOrder'
        BY <1>0, <2>1 DEF Order, QueueOrder
    <2>3. EgressOrder'
        <3>1. egress'.size = queue[1].size /\ egress'.path = queue[1].path
            BY <1>4, <2>1 DEF SendTake
        <3>2. queue[1].size = 0 => queue[1].path \in shut /\ \A j \in DOMAIN queue' : queue'[j].path # queue[1].path
            BY <2>1 DEF Order, QueueOrder
        <3> QED BY <1>0, <3>1, <3>2 DEF EgressOrder, QueueClear
    <2> QED BY <1>1, <1>2, <1>4, <2>2, <2>3 DEF SendTake, Order
<1>5. CASE SendPiece
    <2>1. QueueOrder'
        BY <1>0, <1>5 DEF SendPiece, Order, QueueOrder
    <2>2. EgressOrder'
        BY <1>0, <1>5 DEF SendPiece, Order, EgressOrder, QueueClear
    <2>3. PICK f \in Piece : /\ wire' = Append(wire, f) /\ f.path = egress.path
                             /\ f.kind = "header" => egress.left = egress.size + 1 /\ f.size = egress.size
        BY <1>5 DEF SendPiece
    <2>4. ASSUME NEW i \in DOMAIN wire, NEW p, p = wire[i].path, wire[i].kind = "header", wire[i].size = 0
          PROVE  /\ p \in shut /\ SenderClear(p)'
                 /\ \A j \in DOMAIN wire' : j > i => wire'[j].path # p
        <3>1. /\ p \in shut /\ SenderClear(p)
              /\ \A j \in DOMAIN wire : j > i => wire[j].path # p
            BY <2>4 DEF Order, WireOrder
        <3>2. f.path # p
            BY <1>5, <2>3, <3>1 DEF SendPiece, SenderClear, EgressOn
        <3>3. \A j \in DOMAIN wire' : j > i => wire'[j].path # p
            BY <1>0, <2>3, <3>1, <3>2
        <3> QED BY <3>1, <3>3, StayClear
    <2>5. ASSUME f.kind = "header", f.size = 0
          PROVE  f.path \in shut /\ SenderClear(f.path)'
        <3>1. egress.size = 0 /\ egress.left = 1 /\ egress'.left = 0
            BY <1>0, <1>5, <2>3, <2>5 DEF SendPiece
        <3>2. f.path \in shut /\ QueueClear(f.path)
            BY <2>3, <3>1 DEF Order, EgressOrder
        <3> QED BY <1>5, <3>1, <3>2 DEF SendPiece, SenderClear, EgressOn, QueueClear
    <2>6. WireOrder'
        <3> SUFFICES ASSUME NEW i \in DOMAIN wire', NEW p, p = wire'[i].path,
                            wire'[i].kind = "header", wire'[i].size = 0
                     PROVE  /\ p \in shut' /\ SenderClear(p)'
                            /\ \A j \in DOMAIN wire' : j > i => wire'[j].path # p
            BY DEF WireOrder, SenderClear, EgressOn, QueueClear
        <3>1. CASE i \in DOMAIN wire
            <4>1. wire'[i] = wire[i]
                BY <1>0, <2>3, <3>1
            <4> QED BY <1>0, <2>4, <3>1, <4>1
        <3>2. CASE i \notin DOMAIN wire
            <4>1. wire'[i] = f /\ \A j \in DOMAIN wire' : ~(j > i)
                BY <1>0, <2>3, <3>2
            <4> QED BY <1>0, <2>5, <4>1
        <3> QED BY <3>1, <3>2
    <2> QED BY <1>1, <2>1, <2>2, <2>6 DEF Order
<1>6. CASE SendNoMore
    <2>1. QueueOrder' /\ EgressOrder'
        BY <1>0, <1>6 DEF SendNoMore, SameFrame, Order, QueueOrder, EgressOrder, QueueClear
    <2> QED BY <1>1, <1>2, <1>6, <2>1 DEF SendNoMore, Order
<1> QED BY <1>3, <1>4, <1>5, <1>6 DEF SendKind

\* A frame is sent only on a path that is not closed.
LEMMA OrderWrite ==
    ASSUME SenderType, Order, NEW f \in Frame, WriteFrame(f)
    PROVE  Order'
<1>0. /\ UNCHANGED <<io, tx, egress, wire>> /\ queue \in Seq(Frame) /\ queue' = Append(queue, f)
      /\ f.path \notin shut /\ shut' = IF f.size = 0 THEN shut \cup {f.path} ELSE shut
    BY DEF WriteFrame, ReceiverSame, SendFrame, SenderType
<1>1. \A p : p \in shut => p \in shut' /\ p # f.path
    BY <1>0
<1>2. \A p : p # f.path =>
        /\ QueueClear(p) => QueueClear(p)'
        /\ SenderClear(p) => SenderClear(p)'
        /\ WireClear(p) => WireClear(p)'
    <2>1. \A p : p # f.path => (QueueClear(p) => QueueClear(p)')
        BY <1>0 DEF QueueClear
    <2> QED BY <1>0, <2>1 DEF SenderClear, EgressOn, WireClear
<1>3. QueueOrder'
    <2> SUFFICES ASSUME NEW i \in DOMAIN queue', queue'[i].size = 0
                 PROVE  /\ queue'[i].path \in shut'
                        /\ \A j \in DOMAIN queue' : j > i => queue'[j].path # queue'[i].path
        BY DEF QueueOrder
    <2>1. CASE i \in DOMAIN queue
        <3>1. queue'[i] = queue[i] /\ \A j \in DOMAIN queue' : j \notin DOMAIN queue => queue'[j] = f
            BY <1>0, <2>1
        <3>2. \A j \in DOMAIN queue : queue'[j] = queue[j]
            BY <1>0
        <3> QED BY <1>1, <2>1, <3>1, <3>2 DEF Order, QueueOrder
    <2>2. CASE i \notin DOMAIN queue
        <3>1. queue'[i] = f /\ \A j \in DOMAIN queue' : ~(j > i)
            BY <1>0, <2>2
        <3> QED BY <1>0, <3>1
    <2> QED BY <2>1, <2>2
<1>4. EgressOrder'
    BY <1>0, <1>1, <1>2 DEF Order, EgressOrder
<1>5. WireOrder'
    BY <1>0, <1>1, <1>2 DEF Order, WireOrder
<1>6. IngressOrder'
    BY <1>0, <1>1, <1>2 DEF Order, IngressOrder
<1>7. ClosedOrder'
    BY <1>0, <1>1, <1>2 DEF Order, ClosedOrder, IngressOn, Busy
<1> QED BY <1>3, <1>4, <1>5, <1>6, <1>7 DEF Order

\* The receiving half.
LEMMA OrderRecv ==
    ASSUME SenderType, Order, RecvKind \/ WaitKind
    PROVE  Order'
<1>0. UNCHANGED <<queue, wire, egress, shut>>
    BY DEF RecvKind, WaitKind, SenderSame
<1>1. QueueOrder' /\ EgressOrder'
    BY <1>0 DEF Order, QueueOrder, EgressOrder, QueueClear
<1>2. WireOrder'
    BY <1>0 DEF Order, WireOrder, SenderClear, EgressOn, QueueClear
<1>3. \A p : WireClear(p)' <=> WireClear(p)
    BY <1>0 DEF WireClear, SenderClear, EgressOn, QueueClear
<1>4. CASE /\ io'.pc = "wait" => io.pc = "wait" /\ io'.path = io.path /\ io'.rem = io.rem
           /\ Busy' => Busy /\ io'.path = io.path
           /\ TxKept
    <2>1. IngressOrder'
        BY <1>0, <1>3, <1>4 DEF Order, IngressOrder
    <2>2. ClosedOrder'
        BY <1>0, <1>3, <1>4 DEF Order, ClosedOrder, IngressOn, TxKept
    <2> QED BY <1>1, <1>2, <2>1, <2>2 DEF Order
<1>5. CASE RecvKind
    BY <1>4, <1>5 DEF RecvKind, RecvQuiet, RecvStop, RecvMove, RecvPush, Busy
<1>6. CASE WaitKind
    <2>1. CASE io'.pc # "header"
        BY <1>4, <1>6, <2>1 DEF WaitKind, RecvRoute, Busy
    <2>2. CASE io'.pc = "header"
        <3>1. /\ io.pc = "wait" /\ io.rem = 0 /\ ~Busy'
              /\ \A p \in OutPath : tx'[p] = "closed" => tx[p] = "closed" \/ p = io.path
            BY <1>6, <2>2 DEF WaitKind, RecvRoute, Busy
        <3>2. io.path \in shut /\ WireClear(io.path)
            BY <3>1 DEF Order, IngressOrder
        <3>3. ClosedOrder'
            BY <1>0, <1>3, <3>1, <3>2 DEF Order, ClosedOrder, IngressOn
        <3>4. IngressOrder'
            BY <2>2 DEF IngressOrder
        <3> QED BY <1>1, <1>2, <3>3, <3>4 DEF Order
    <2> QED BY <2>1, <2>2
<1> QED BY <1>5, <1>6

LEMMA OrderRead ==
    ASSUME SenderType, Order, HeaderKind \/ ChunkKind
    PROVE  Order'
<1>0. /\ UNCHANGED <<queue, egress, shut>> /\ wire \in Seq(Piece)
      /\ wire # <<>> /\ wire' = Tail(wire) /\ Head(wire) = wire[1]
    BY DEF HeaderKind, ChunkKind, SenderSame, SenderType
<1>1. QueueOrder' /\ EgressOrder'
    BY <1>0 DEF Order, QueueOrder, EgressOrder, QueueClear
<1>2. /\ 1 \in DOMAIN wire
      /\ \A i \in DOMAIN wire' : i > 0 /\ i + 1 > 1 /\ i + 1 \in DOMAIN wire /\ wire'[i] = wire[i + 1]
      /\ \A i, j \in DOMAIN wire' : i > j => i + 1 > j + 1
    BY <1>0
<1>3. WireOrder'
    <2> SUFFICES ASSUME NEW i \in DOMAIN wire', NEW p, p = wire'[i].path,
                        wire'[i].kind = "header", wire'[i].size = 0
                 PROVE  /\ p \in shut' /\ SenderClear(p)'
                        /\ \A j \in DOMAIN wire' : j > i => wire'[j].path # p
        BY DEF WireOrder, SenderClear, EgressOn, QueueClear
    <2>1. /\ p \in shut /\ SenderClear(p)
          /\ \A j \in DOMAIN wire : j > i + 1 => wire[j].path # p
        BY <1>2 DEF Order, WireOrder
    <2> QED BY <1>0, <1>2, <2>1 DEF SenderClear, EgressOn, QueueClear
<1>4. ASSUME NEW p, SenderClear(p), \A j \in DOMAIN wire : j > 1 => wire[j].path # p
      PROVE  WireClear(p)'
    BY <1>0, <1>2, <1>4 DEF WireClear, SenderClear, EgressOn, QueueClear
<1>5. ASSUME NEW p, WireClear(p)
      PROVE  WireClear(p)' /\ p # wire[1].path
    BY <1>2, <1>4, <1>5 DEF WireClear
<1>6. CASE ChunkKind
    <2>1. io.pc = "data" /\ io'.pc = "send" /\ io'.path = io.path /\ tx' = tx
        BY <1>6 DEF ChunkKind
    <2>2. IngressOrder'
        BY <2>1 DEF IngressOrder
    <2>3. ClosedOrder'
        BY <1>0, <1>5, <2>1 DEF Order, ClosedOrder, IngressOn, Busy
    <2> QED BY <1>1, <1>3, <2>2, <2>3 DEF Order
<1>7. CASE HeaderKind
    <2>1. RecvRoute(wire[1].path, wire[1].size) /\ wire[1].kind = "header"
        BY <1>0, <1>7 DEF HeaderKind
    <2>2. ASSUME NEW p, p = wire[1].path, wire[1].size = 0
          PROVE  p \in shut /\ WireClear(p)'
        BY <1>2, <1>4, <2>1, <2>2 DEF Order, WireOrder
    <2>3. IngressOrder'
        <3>1. CASE io'.pc # "wait"
            BY <3>1 DEF IngressOrder
        <3>2. CASE io'.pc = "wait"
            <4>1. io'.path = wire[1].path /\ io'.rem = wire[1].size
                BY <2>1, <3>2 DEF RecvRoute
            <4>2. ASSUME NEW p, p = io'.path, io'.rem = 0
                  PROVE  p \in shut' /\ WireClear(p)'
                BY <1>0, <2>2, <4>1, <4>2
            <4> QED BY <4>2 DEF IngressOrder, WireClear, SenderClear, EgressOn, QueueClear
        <3> QED BY <3>1, <3>2
    <2>4. ClosedOrder'
        <3> SUFFICES ASSUME NEW p \in OutPath, tx'[p] = "closed"
                     PROVE  p \in shut /\ WireClear(p)' /\ ~IngressOn(p)'
            BY <1>0 DEF ClosedOrder
        <3>1. CASE tx[p] = "closed"
            <4>1. p \in shut /\ WireClear(p)' /\ p # wire[1].path
                BY <1>5, <3>1 DEF Order, ClosedOrder
            <4> QED BY <2>1, <4>1 DEF RecvRoute, IngressOn, Busy
        <3>2. CASE tx[p] # "closed"
            <4>1. p = wire[1].path /\ wire[1].size = 0 /\ io'.pc = "header"
                BY <2>1, <3>2 DEF RecvRoute, TxKept
            <4>2. p \in shut /\ WireClear(p)'
                BY <2>2, <4>1
            <4> QED BY <4>1, <4>2 DEF IngressOn, Busy
        <3> QED BY <3>1, <3>2
    <2> QED BY <1>1, <1>3, <2>3, <2>4 DEF Order
<1> QED BY <1>6, <1>7

LEMMA OrderStep ==
    ASSUME TypeOK, Target, ReaderType, SenderType, Leaving, Order, [ConnNext]_allVars
    PROVE  Order'
BY StepKind, OrderSend, OrderWrite, OrderRecv, OrderRead

-----------------------------------------------------------------------------
(* Nobody is blamed                                                        *)

LEMMA NoBlameStep ==
    ASSUME TypeOK, Target, ReaderType, SenderType, Leaving, Order, NoBlame, [ConnNext]_allVars
    PROVE  NoBlame'
<1>1. io'.res # "protocol"
    <2>1. CASE SendKind \/ (\E f \in Frame : WriteFrame(f)) \/ ChunkKind
        BY <2>1 DEF SendKind, WriteFrame, ReceiverSame, ChunkKind, NoBlame
    <2>2. CASE RecvKind
        BY <2>2 DEF RecvKind, RecvQuiet, RecvStop, RecvMove, RecvPush, NoBlame
    <2>3. CASE WaitKind
        <3>1. io.path \in OutPath /\ IsDeclared[io.path] /\ IngressOn(io.path)
            BY <2>3, ConnAssumption DEF WaitKind, ReaderType, Busy, IngressOn
        <3>2. tx[io.path] # "closed"
            BY <3>1 DEF Order, ClosedOrder
        <3> QED BY <2>3, <3>1, <3>2 DEF WaitKind, RecvRoute
    <2>4. CASE HeaderKind
        <3>1. wire # <<>> /\ wire \in Seq(Piece)
            BY <2>4 DEF HeaderKind, SenderType
        <3>2. Head(wire) \in Piece /\ Head(wire) = wire[1] /\ 1 \in DOMAIN wire
            BY <3>1
        <3>3. Head(wire).path \in OutPath /\ IsDeclared[Head(wire).path]
            BY <3>2, ConnAssumption DEF Piece
        <3>4. tx[Head(wire).path] # "closed"
            BY <3>2, <3>3 DEF Order, ClosedOrder, WireClear
        <3> QED BY <2>4, <3>3, <3>4 DEF HeaderKind, RecvRoute
    <2> QED BY <2>1, <2>2, <2>3, <2>4, StepKind
<1>2. err' # "protocol"
    <2>1. CASE UNCHANGED err
        BY <2>1 DEF NoBlame
    <2>2. ASSUME NEW found, FailUnprocessed(found)
          PROVE  err' # "protocol"
        BY <2>2 DEF FailUnprocessed, NoBlame
    <2>3. ASSUME NEW h \in Handle, HandleStep(h)
          PROVE  err' # "protocol"
        BY <2>1, <2>2, <2>3
        DEF HandleStep, IndexSkip, IndexTake, IndexNotFound, TakeReader, ReadChunk, ReadRest, ReadEof,
            ReadError, ReadEnd, DropClose, DropRelease, DropFinish, taskVars
    <2>4. CASE SetErr
        BY <2>4 DEF SetErr, NoBlame
    <2>5. CASE IngressStep \/ Abort
        BY <2>1, <2>4, <2>5
        DEF IngressStep, IngressPermit, IngressIndexed, IngressClosed, IngressReserve, IngressPush,
            IngressFailed, CloseTx, CloseRx, IngressUnchanged, Abort
    <2>6. CASE PeerStep
        BY <2>1, <2>6
        DEF PeerStep, IngressFrame, IngressUnknown, IngressData, IngressEnd, IngressBroken, IngressUnchanged
    <2>7. CASE UNCHANGED vars
        BY <2>1, <2>7 DEF vars, taskVars
    <2> QED BY <2>3, <2>5, <2>6, <2>7, ConnIncoming DEF Next
<1> QED BY <1>1, <1>2 DEF NoBlame

-----------------------------------------------------------------------------
(* A chunk is of the frame before it                                       *)

LEMMA FramingSend ==
    ASSUME SenderType, Framing, SendKind
    PROVE  Framing'
<1>0. /\ UNCHANGED io /\ wire \in Seq(Piece) /\ egress.left \in Nat /\ egress.size \in Nat
    BY BoundAssumption DEF SendKind, ReceiverSame, SenderType, EgressRecord
<1>1. CASE SendQuiet \/ SendNoMore
    <2>1. UNCHANGED wire /\ (egress'.left > 0 => SameFrame)
        BY <1>0, <1>1 DEF SendQuiet, SendNoMore
    <2> QED BY <1>0, <2>1 DEF Framing, SameFrame, Busy
<1>2. CASE SendTake
    <2>1. UNCHANGED wire /\ egress'.left = egress'.size + 1 /\ egress'.size \in Nat
        <3>1. queue # <<>> /\ queue \in Seq(Frame)
            BY <1>2 DEF SendTake, SenderType
        <3>2. Head(queue) \in Frame
            BY <3>1
        <3> QED BY <1>2, <3>2, BoundAssumption DEF SendTake, Frame
    <2> QED BY <1>0, <2>1 DEF Framing, Busy
<1>3. CASE SendPiece
    <2>1. PICK f \in Piece : /\ wire' = Append(wire, f) /\ f.path = egress.path
                             /\ f.kind = "chunk" => egress.left <= egress.size
        BY <1>3 DEF SendPiece
    <2>2. egress.left > 0 /\ (egress'.left > 0 => egress'.path = egress.path)
        BY <1>3 DEF SendPiece
    <2>3. /\ wire' # <<>> /\ wire'[Len(wire')] = f /\ DOMAIN wire' = DOMAIN wire \cup {Len(wire) + 1}
          /\ \A i \in DOMAIN wire : wire'[i] = wire[i]
          /\ wire'[Len(wire) + 1] = f /\ Len(wire) \in Nat /\ DOMAIN wire = 1..Len(wire)
        BY <1>0, <2>1
    <2>4. wire # <<>> => Len(wire) \in DOMAIN wire
        BY <1>0
    <2>5. f.kind = "chunk" => IF wire = <<>> THEN Busy => io.path = f.path
                              ELSE wire[Len(wire)].path = f.path
        BY <2>1, <2>2 DEF Framing
    <2>6. ASSUME NEW i \in DOMAIN wire', wire'[i].kind = "chunk"
          PROVE  IF i = 1 THEN Busy => io.path = wire'[i].path ELSE wire'[i - 1].path = wire'[i].path
        <3>1. CASE i \in DOMAIN wire
            <4>1. i # 1 => i - 1 \in DOMAIN wire
                BY <2>3, <3>1
            <4> QED BY <2>3, <2>6, <3>1, <4>1 DEF Framing
        <3>2. CASE i = Len(wire) + 1 /\ wire = <<>>
            BY <2>3, <2>5, <2>6, <3>2
        <3>3. CASE i = Len(wire) + 1 /\ wire # <<>>
            <4>1. i # 1 /\ i - 1 = Len(wire) /\ wire'[i - 1] = wire[Len(wire)] /\ wire'[i] = f
                BY <2>3, <2>4, <3>3
            <4> QED BY <2>5, <2>6, <3>3, <4>1
        <3> QED BY <2>3, <3>1, <3>2, <3>3
    <2> QED BY <1>0, <2>1, <2>2, <2>3, <2>6 DEF Framing, Busy
<1> QED BY <1>1, <1>2, <1>3 DEF SendKind

LEMMA FramingRecv ==
    ASSUME SenderType, Framing,
           (\E f \in Frame : WriteFrame(f)) \/ RecvKind \/ WaitKind
    PROVE  Framing'
<1>1. UNCHANGED <<wire, egress>>
    BY DEF WriteFrame, SendFrame, RecvKind, WaitKind, SenderSame
<1>2. Busy' => Busy /\ io'.path = io.path
    <2>1. CASE \E f \in Frame : WriteFrame(f)
        BY <2>1 DEF WriteFrame, ReceiverSame, Busy
    <2>2. CASE RecvKind
        BY <2>2 DEF RecvKind, RecvQuiet, RecvStop, RecvMove, RecvPush, Busy
    <2>3. CASE WaitKind
        BY <2>3 DEF WaitKind, RecvRoute, Busy
    <2> QED BY <2>1, <2>2, <2>3
<1> QED BY <1>1, <1>2 DEF Framing

LEMMA FramingRead ==
    ASSUME SenderType, Framing, HeaderKind \/ ChunkKind
    PROVE  Framing'
<1>0. /\ UNCHANGED egress /\ wire \in Seq(Piece) /\ wire # <<>> /\ wire' = Tail(wire) /\ Head(wire) = wire[1]
    BY DEF HeaderKind, ChunkKind, SenderSame, SenderType
<1>1. Busy' => io'.path = wire[1].path
    <2>1. CASE HeaderKind
        BY <1>0, <2>1 DEF HeaderKind, RecvRoute, Busy
    <2>2. CASE ChunkKind
        <3>1. 1 \in DOMAIN wire /\ wire[1].kind = "chunk" /\ Busy /\ io'.path = io.path
            BY <1>0, <2>2 DEF ChunkKind, Busy
        <3> QED BY <3>1 DEF Framing
    <2> QED BY <2>1, <2>2
<1>2. /\ \A i \in DOMAIN wire' : i \in Nat /\ i > 0 /\ i + 1 \in DOMAIN wire /\ wire'[i] = wire[i + 1]
      /\ \A i \in DOMAIN wire' : i # 1 => i - 1 \in DOMAIN wire' /\ (i - 1) + 1 = i
      /\ wire' = <<>> => Len(wire) = 1
      /\ wire' # <<>> => wire'[Len(wire')] = wire[Len(wire)]
    <2>1. /\ Len(wire) \in Nat /\ Len(wire) > 0 /\ Len(wire') = Len(wire) - 1 /\ wire' \in Seq(Piece)
          /\ DOMAIN wire = 1..Len(wire) /\ DOMAIN wire' = 1..Len(wire')
          /\ \A i \in 1..Len(wire') : wire'[i] = wire[i + 1]
        BY <1>0
    <2>2. wire' # <<>> => Len(wire') > 0 /\ Len(wire') \in 1..Len(wire') /\ Len(wire') + 1 = Len(wire)
        BY <2>1
    <2>3. wire' = <<>> => Len(wire) = 1
        BY <2>1
    <2>4. wire' # <<>> => wire'[Len(wire')] = wire[Len(wire)]
        BY <2>1, <2>2
    <2>5. \A i \in DOMAIN wire' : i # 1 => i - 1 \in DOMAIN wire' /\ (i - 1) + 1 = i
        BY <2>1
    <2> QED BY <2>1, <2>3, <2>4, <2>5
<1>3. ASSUME NEW i \in DOMAIN wire', wire'[i].kind = "chunk"
      PROVE  IF i = 1 THEN Busy' => io'.path = wire'[i].path ELSE wire'[i - 1].path = wire'[i].path
    <2>1. wire[(i + 1) - 1].path = wire[i + 1].path /\ (i + 1) - 1 = i
        BY <1>2, <1>3 DEF Framing
    <2>2. CASE i = 1
        BY <1>1, <1>2, <2>1, <2>2
    <2>3. CASE i # 1
        <3>1. wire'[i - 1] = wire[i]
            BY <1>2, <2>3
        <3> QED BY <1>2, <2>1, <2>3, <3>1
    <2> QED BY <2>2, <2>3
<1>4. ASSUME egress'.left > 0, egress'.left <= egress'.size
      PROVE  IF wire' = <<>> THEN Busy' => io'.path = egress'.path
             ELSE wire'[Len(wire')].path = egress'.path
    <2>1. wire[Len(wire)].path = egress.path
        BY <1>0, <1>4 DEF Framing
    <2> QED BY <1>0, <1>1, <1>2, <2>1
<1> QED BY <1>3, <1>4 DEF Framing

LEMMA FramingStep ==
    ASSUME TypeOK, Target, ReaderType, SenderType, Leaving, Framing, [ConnNext]_allVars
    PROVE  Framing'
BY StepKind, FramingSend, FramingRecv, FramingRead

-----------------------------------------------------------------------------
(* Chunks under way                                                        *)

LEMMA LoadFacts ==
    ASSUME SenderType, NEW p
    PROVE  /\ Total(QueueLoad(p)) \in Nat /\ InEgress(p) \in Nat /\ Total(WireLoad(p)) \in Nat
           /\ InIngress(p) \in Nat /\ UnderWay(p) \in Nat
           /\ QueueClear(p) => Total(QueueLoad(p)) = 0
           /\ ~EgressOn(p) => InEgress(p) = 0
           /\ WireClear(p) => Total(QueueLoad(p)) = 0 /\ InEgress(p) = 0 /\ Total(WireLoad(p)) = 0
           /\ UNCHANGED queue => Total(QueueLoad(p))' = Total(QueueLoad(p))
           /\ UNCHANGED wire => Total(WireLoad(p))' = Total(WireLoad(p))
           /\ UNCHANGED egress => InEgress(p)' = InEgress(p)
<1>0. /\ queue \in Seq(Frame) /\ wire \in Seq(Piece) /\ egress.left \in Nat /\ egress.size \in Nat
    BY BoundAssumption DEF SenderType, EgressRecord
<1>1. Total(QueueLoad(p)) \in Nat /\ (QueueClear(p) => Total(QueueLoad(p)) = 0)
    BY <1>0, QueueSum
<1>2. Total(WireLoad(p)) \in Nat /\ ((\A i \in DOMAIN wire : wire[i].path # p) => Total(WireLoad(p)) = 0)
    BY <1>0, WireSum
<1>3. InEgress(p) \in Nat /\ (~EgressOn(p) => InEgress(p) = 0)
    BY <1>0 DEF InEgress, EgressOn
<1>4. InIngress(p) \in Nat
    BY DEF InIngress
<1>5. ASSUME UNCHANGED queue PROVE Total(QueueLoad(p))' = Total(QueueLoad(p))
    <2>1. QueueLoad(p)' = QueueLoad(p)
        BY <1>5 DEF QueueLoad
    <2> QED BY <2>1 DEF Total, Units
<1>6. ASSUME UNCHANGED wire PROVE Total(WireLoad(p))' = Total(WireLoad(p))
    <2>1. WireLoad(p)' = WireLoad(p)
        BY <1>6 DEF WireLoad
    <2> QED BY <2>1 DEF Total, Units
<1>7. UNCHANGED egress => InEgress(p)' = InEgress(p)
    BY DEF InEgress
<1> QED BY <1>1, <1>2, <1>3, <1>4, <1>5, <1>6, <1>7 DEF UnderWay, WireClear, SenderClear

\* The sending half passes chunks on, unless it drops its queue.
LEMMA LoadSend ==
    ASSUME SenderType, SenderType', NEW p, SendKind
    PROVE  /\ UnderWay(p)' <= UnderWay(p) /\ UnderWay(p)' \in Nat
           /\ ~SendNoMore \/ QueueClear(p) => UnderWay(p)' = UnderWay(p)
<1> DEFINE Q == Total(QueueLoad(p))
           W == Total(WireLoad(p))
           E == InEgress(p)
           I == InIngress(p)
<1>0. /\ UNCHANGED io /\ queue \in Seq(Frame) /\ wire \in Seq(Piece) /\ egress.left \in Nat /\ egress.size \in Nat
      /\ egress.left <= egress.size + 1 /\ egress'.left \in Nat /\ egress'.size \in Nat
    BY BoundAssumption DEF SendKind, ReceiverSame, SenderType, EgressRecord
<1>1. /\ Q \in Nat /\ W \in Nat /\ E \in Nat /\ I \in Nat /\ I' = I
      /\ UNCHANGED queue => Q' = Q
      /\ UNCHANGED wire => W' = W
      /\ QueueClear(p) => Q = 0
    BY <1>0, LoadFacts DEF InIngress
<1>2. UnderWay(p) = Q + E + W + I /\ UnderWay(p)' = Q' + E' + W' + I'
    BY DEF UnderWay
<1>3. CASE SendQuiet
    <2>1. E' = E
        BY <1>0, <1>3 DEF SendQuiet, SameFrame, InEgress
    <2>2. Q' = Q /\ W' = W
        BY <1>1, <1>3 DEF SendQuiet
    <2> HIDE DEF Q, W, E, I
    <2> QED BY <1>1, <1>2, <2>1, <2>2
<1>4. CASE SendTake
    <2>1. Head(queue) \in Frame /\ queue # <<>> /\ queue' = Tail(queue)
        BY <1>0, <1>4 DEF SendTake
    <2>2. Head(queue).size \in Nat
        BY <2>1, BoundAssumption DEF Frame
    <2> DEFINE n == IF Head(queue).path = p THEN Head(queue).size ELSE 0
    <2>3. Q = Q' + n
        BY <1>0, <2>1, QueueSum
    <2>4. E = 0 /\ E' = n
        BY <1>0, <1>4, <2>2 DEF SendTake, InEgress
    <2>5. W' = W /\ n \in Nat
        BY <1>1, <1>4, <2>2 DEF SendTake
    <2>6. Q' \in Nat
        <3>1. queue' \in Seq(Frame)
            BY <1>0, <2>1
        <3>2. QueueLoad(p)' = Tail(QueueLoad(p))
            BY <1>0, <2>1 DEF QueueLoad
        <3>3. QueueLoad(p) \in Seq(0..MaxFrameChunks) /\ QueueLoad(p) # <<>>
            <4>1. QueueLoad(p) \in Seq(0..MaxFrameChunks)
                BY <1>0, QueueSum
            <4> QED BY <1>0, <2>1, <4>1 DEF QueueLoad
        <3>4. Tail(QueueLoad(p)) \in Seq(0..MaxFrameChunks)
            BY <3>3
        <3>5. Total(Tail(QueueLoad(p))) \in Nat
            BY <3>4, UnitsFinite, BoundAssumption
        <3> QED BY <3>2, <3>5 DEF Total, Units
    <2> HIDE DEF Q, W, E, I, n
    <2>7. Q' + E' + W' + I' = Q + E + W + I
        BY <1>1, <2>3, <2>4, <2>5, <2>6
    <2>8. UnderWay(p) \in Nat
        BY <1>1, <1>2
    <2> QED BY <1>2, <2>7, <2>8
<1>5. CASE SendPiece
    <2>1. PICK f \in Piece :
            /\ wire' = Append(wire, f) /\ f.path = egress.path
            /\ \/ f.kind = "header" /\ egress.left = egress.size + 1 /\ f.size = egress.size
               \/ f.kind = "chunk" /\ egress.left <= egress.size /\ f.size = 1
        BY <1>5 DEF SendPiece
    <2>2. W' = W + ChunkOf(f, p)
        BY <1>0, <2>1, WireSum
    <2>3. E = E' + ChunkOf(f, p) /\ E' \in Nat
        <3>1. /\ egress.left > 0 /\ egress'.left = egress.left - 1
              /\ egress'.left > 0 => egress'.path = egress.path /\ egress'.size = egress.size
            BY <1>5 DEF SendPiece
        <3>2. E' \in Nat
            BY <1>0 DEF InEgress
        <3>3. CASE f.kind = "header"
            <4>1. ChunkOf(f, p) = 0 /\ egress.left = egress.size + 1 /\ egress'.left = egress.size
                BY <1>0, <2>1, <3>1, <3>3 DEF ChunkOf
            <4>2. E = IF egress.path = p THEN egress.size ELSE 0
                BY <1>0, <4>1 DEF InEgress
            <4>3. CASE egress.size = 0
                BY <1>0, <4>1, <4>2, <4>3 DEF InEgress
            <4>4. CASE egress.size # 0
                <5>1. egress'.path = egress.path /\ egress'.size = egress.size
                    BY <1>0, <3>1, <4>1, <4>4
                <5> QED BY <1>0, <4>1, <4>2, <5>1 DEF InEgress
            <4> QED BY <4>3, <4>4
        <3>4. CASE f.kind = "chunk"
            BY <1>0, <2>1, <3>1, <3>2, <3>4 DEF InEgress, ChunkOf
        <3> QED BY <2>1, <3>2, <3>3, <3>4
    <2>4. Q' = Q /\ ChunkOf(f, p) \in Nat
        BY <1>1, <1>5 DEF SendPiece, ChunkOf
    <2> HIDE DEF Q, W, E, I
    <2> QED BY <1>1, <1>2, <2>2, <2>3, <2>4
<1>6. CASE SendNoMore
    <2>1. E' = E /\ W' = W
        BY <1>0, <1>1, <1>6 DEF SendNoMore, SameFrame, InEgress
    <2>2. Q' = 0
        <3>1. QueueLoad(p)' = <<>>
            BY <1>6 DEF SendNoMore, QueueLoad
        <3> QED BY <3>1, TotalEmpty DEF Total, Units
    <2> HIDE DEF Q, W, E, I
    <2> QED BY <1>1, <1>2, <1>6, <2>1, <2>2
<1> QED BY <1>3, <1>4, <1>5, <1>6 DEF SendKind

LEMMA FlowType ==
    ASSUME TypeOK, ReaderType, SenderType
    PROVE  \A p \in OutPath : /\ got[p] \in Nat /\ unread[p] \in Int /\ sent[p] \in Nat
                              /\ UnderWay(p) \in Nat /\ InIngress(p) \in Nat
<1>1. \A p : UnderWay(p) \in Nat /\ InIngress(p) \in Nat
    BY LoadFacts
<1> QED BY <1>1, ConnAssumption DEF TypeOK, ReaderType, SenderType

\* A path with a closing frame on its way is complete in what was sent.
LEMMA PendingClear ==
    ASSUME Order, NEW p, ClosePending(p)
    PROVE  QueueClear(p) /\ ~EgressOn(p)
BY DEF Order, WireOrder, IngressOrder, ClosePending, SenderClear, WireClear

LEMMA FlowSend ==
    ASSUME TypeOK, ReaderType, SenderType, SenderType', Leaving, Order, Flow, SendKind
    PROVE  Flow'
<1>0. UNCHANGED <<io, tx, got, unread, raced, drained, sent>>
    BY DEF SendKind, ReceiverSame, SendQuiet, SendTake, SendPiece, SendNoMore
<1>1. ASSUME NEW p \in OutPath
      PROVE  /\ Accounted(p)' <= Accounted(p) /\ Accounted(p) <= sent[p] /\ Accounted(p)' \in Int
             /\ ~SendNoMore \/ QueueClear(p) => Accounted(p)' = Accounted(p)
    <2>1. /\ UnderWay(p)' <= UnderWay(p) /\ UnderWay(p)' \in Nat
          /\ ~SendNoMore \/ QueueClear(p) => UnderWay(p)' = UnderWay(p)
        BY LoadSend
    <2> QED BY <1>0, <2>1, FlowType DEF Accounted, Flow, NoMore
<1>2. NoMore'
    <2> SUFFICES ASSUME NEW p \in OutPath PROVE Accounted(p)' <= sent[p]
        BY <1>0 DEF NoMore
    <2>1. Accounted(p) \in Int /\ sent[p] \in Int
        BY FlowType DEF Accounted
    <2> QED BY <1>1, <2>1
<1>3. NoLess'
    <2> SUFFICES ASSUME NEW p \in OutPath \ Late, Open,
                        inbox' = "open" \/ end' = "fin" \/ ClosePending(p)'
                 PROVE  Accounted(p)' = sent[p]
        BY <1>0 DEF NoLess, Late, Open
    <2>1. CASE SendNoMore
        <3>1. inbox' = "dropped" /\ UNCHANGED wire /\ (end' = "fin" => end = "fin")
            BY <2>1 DEF SendNoMore, EndOfDropped
        <3>2. ClosePending(p)' => ClosePending(p)
            BY <1>0, <3>1 DEF ClosePending
        <3>3. end = "fin" => QueueClear(p)
            BY DEF Leaving, QueueClear
        <3>4. QueueClear(p) /\ (end = "fin" \/ ClosePending(p))
            BY <3>1, <3>2, <3>3, PendingClear
        <3> QED BY <1>1, <3>4 DEF Flow, NoLess
    <2>2. CASE SendQuiet \/ SendTake \/ SendPiece
        <3>1. /\ inbox' = "open" => inbox = "open"
              /\ end' = "fin" => end = "fin" \/ inbox = "open"
              /\ ClosePending(p)' => ClosePending(p) \/ inbox = "open"
            <4>1. CASE SendQuiet
                BY <1>0, <4>1 DEF SendQuiet, ClosePending
            <4>2. CASE SendTake
                BY <1>0, <4>2 DEF SendTake, ClosePending
            <4>3. CASE SendPiece
                BY <4>3 DEF SendPiece
            <4> QED BY <2>2, <4>1, <4>2, <4>3
        <3>2. Accounted(p) = sent[p]
            BY <3>1 DEF Flow, NoLess
        <3>3. CASE ~SendNoMore
            BY <1>1, <3>2, <3>3
        <3> QED BY <2>1, <3>3
    <2> QED BY <2>1, <2>2 DEF SendKind
<1>4. Complete'
    BY <1>0 DEF Flow, Complete, Late
<1>5. CleanEnd'
    <2>1. Live = {} => Live' = {}
        BY DEF SendKind, SendQuiet, SendTake, SendPiece, SendNoMore, Live
    <2> QED BY <1>0, <2>1 DEF Flow, CleanEnd, Open
<1> QED BY <1>2, <1>3, <1>4, <1>5 DEF Flow

LEMMA FlowWrite ==
    ASSUME TypeOK, ReaderType, SenderType, Order, Flow, NEW f \in Frame, WriteFrame(f)
    PROVE  Flow'
<1>0. /\ UNCHANGED <<io, tx, got, unread, raced, drained, egress, wire, inbox, end>>
      /\ queue \in Seq(Frame) /\ queue' = Append(queue, f) /\ f.path \notin shut
      /\ inbox = "open" /\ Live # {} /\ sent' = [sent EXCEPT ![f.path] = @ + f.size]
      /\ f.size \in Nat /\ f.path \in OutPath
    BY BoundAssumption DEF WriteFrame, ReceiverSame, SendFrame, SenderType, Frame
<1>1. ASSUME NEW p \in OutPath
      PROVE  /\ Accounted(p)' = Accounted(p) + (IF f.path = p THEN f.size ELSE 0)
             /\ sent'[p] = sent[p] + (IF f.path = p THEN f.size ELSE 0)
             /\ Accounted(p) \in Int /\ sent[p] \in Int
    <2>1. Total(QueueLoad(p))' = Total(QueueLoad(p)) + (IF f.path = p THEN f.size ELSE 0)
        BY <1>0, QueueSum
    <2>2. /\ Total(WireLoad(p))' = Total(WireLoad(p)) /\ InEgress(p)' = InEgress(p) /\ InIngress(p)' = InIngress(p)
          /\ Total(QueueLoad(p)) \in Nat /\ Total(WireLoad(p)) \in Nat
          /\ InEgress(p) \in Nat /\ InIngress(p) \in Nat
        BY <1>0, LoadFacts DEF InIngress
    <2>3. UnderWay(p)' = UnderWay(p) + (IF f.path = p THEN f.size ELSE 0)
        BY <1>0, <2>1, <2>2 DEF UnderWay
    <2>4. got[p] \in Nat /\ unread[p] \in Int /\ sent[p] \in Nat /\ UnderWay(p) \in Nat
        BY FlowType
    <2>5. sent'[p] = sent[p] + (IF f.path = p THEN f.size ELSE 0)
        BY <1>0, <2>4 DEF SenderType
    <2> QED BY <1>0, <2>3, <2>4, <2>5 DEF Accounted
<1>2. NoMore'
    BY <1>0, <1>1 DEF Flow, NoMore
<1>3. NoLess'
    <2> SUFFICES ASSUME NEW p \in OutPath \ Late, Open PROVE Accounted(p)' = sent'[p]
        BY <1>0 DEF NoLess, Late, Open
    <2>1. Accounted(p) = sent[p]
        BY <1>0 DEF Flow, NoLess
    <2> QED BY <1>1, <2>1
<1>4. io.res # "ok"
    BY <1>0 DEF Flow, CleanEnd
<1>5. Complete'
    <2> SUFFICES ASSUME NEW p \in OutPath \ Late, tx[p] = "closed" PROVE got[p] + unread[p] = sent'[p]
        BY <1>0, <1>4 DEF Complete, Late
    <2>1. p # f.path
        BY <1>0 DEF Order, ClosedOrder
    <2> QED BY <1>0, <2>1 DEF Flow, Complete, SenderType
<1>6. CleanEnd'
    BY <1>0, <1>4 DEF CleanEnd
<1> QED BY <1>2, <1>3, <1>5, <1>6 DEF Flow

\* The receiving half passes chunks on to the reader, unless it stops.
LEMMA FlowRecv ==
    ASSUME TypeOK, TypeOK', ReaderType, ReaderType', SenderType, Leaving, Order, Flow, RecvKind
    PROVE  Flow'
<1>0. UNCHANGED <<writer, queue, sent, inbox, egress, end, wire>>
    BY DEF RecvKind, SenderSame
<1>1. ASSUME NEW p \in OutPath
      PROVE  /\ got[p] \in Nat /\ unread[p] \in Int /\ sent[p] \in Nat /\ UnderWay(p) \in Nat
             /\ got'[p] \in Nat /\ unread'[p] \in Int /\ InIngress(p) \in Nat /\ InIngress(p)' \in Nat
             /\ Accounted(p) <= sent[p]
             /\ UnderWay(p)' = UnderWay(p) - InIngress(p) + InIngress(p)'
    <2>1. /\ Total(QueueLoad(p))' = Total(QueueLoad(p)) /\ Total(WireLoad(p))' = Total(WireLoad(p))
          /\ InEgress(p)' = InEgress(p)
          /\ Total(QueueLoad(p)) \in Nat /\ Total(WireLoad(p)) \in Nat
          /\ InEgress(p) \in Nat /\ InIngress(p) \in Nat
        BY <1>0, LoadFacts
    <2>2. InIngress(p)' \in Nat
        BY DEF InIngress
    <2>3. UnderWay(p)' = UnderWay(p) - InIngress(p) + InIngress(p)'
        BY <2>1, <2>2 DEF UnderWay
    <2>4. got'[p] \in Nat /\ unread'[p] \in Int
        BY ConnAssumption DEF ReaderType, TypeOK
    <2> QED BY <2>1, <2>2, <2>3, <2>4, FlowType DEF Flow, NoMore
<1>2. ASSUME Even, TxKept, \A p \in OutPath : InIngress(p)' <= InIngress(p),
             io'.res = "ok" => /\ ~Open' /\ Live = {}
                               /\ \A p \in OutPath \ Late : got[p] + unread[p] = sent[p],
             Open' => /\ Open
                      /\ \A p \in OutPath : InIngress(p)' = InIngress(p) /\ (ClosePending(p)' => ClosePending(p))
      PROVE  Flow'
    <2>1. ASSUME NEW p \in OutPath
          PROVE  /\ got'[p] + unread'[p] = got[p] + unread[p]
                 /\ Accounted(p)' <= sent[p]
                 /\ InIngress(p)' = InIngress(p) => Accounted(p)' = Accounted(p)
        <3>1. got'[p] + unread'[p] = got[p] + unread[p] /\ InIngress(p)' <= InIngress(p)
            BY <1>2 DEF Even
        <3>2. Accounted(p)' = got[p] + unread[p] + UnderWay(p)'
            BY <3>1 DEF Accounted
        <3> QED BY <1>1, <3>1, <3>2 DEF Accounted
    <2>2. NoMore'
        BY <1>0, <2>1 DEF NoMore
    <2>3. Late' = Late
        BY <1>2 DEF Late, Even
    <2>4. NoLess'
        <3> SUFFICES ASSUME NEW p \in OutPath \ Late, Open',
                            inbox = "open" \/ end = "fin" \/ ClosePending(p)'
                     PROVE  Accounted(p)' = sent[p]
            BY <1>0, <2>3 DEF NoLess
        <3>1. Open /\ InIngress(p)' = InIngress(p) /\ (ClosePending(p)' => ClosePending(p))
            BY <1>2
        <3>2. Accounted(p) = sent[p]
            BY <3>1 DEF Flow, NoLess
        <3> QED BY <2>1, <3>1, <3>2
    <2>5. Complete'
        <3> SUFFICES ASSUME NEW p \in OutPath \ Late, tx'[p] = "closed" \/ io'.res = "ok"
                     PROVE  got'[p] + unread'[p] = sent[p]
            BY <1>0, <2>3 DEF Complete
        <3>1. tx[p] = "closed" \/ got[p] + unread[p] = sent[p]
            BY <1>2 DEF TxKept
        <3> QED BY <2>1, <3>1 DEF Flow, Complete
    <2>6. CleanEnd'
        BY <1>0, <1>2 DEF CleanEnd, Live
    <2> QED BY <2>2, <2>4, <2>5, <2>6 DEF Flow
<1>3. io.res = "ok" => ~Open /\ Live = {} /\ \A p \in OutPath \ Late : got[p] + unread[p] = sent[p]
    BY DEF Flow, CleanEnd, Complete
<1>4. CASE RecvQuiet
    <2>1. UNCHANGED io /\ TxKept /\ Even
        BY <1>4 DEF RecvQuiet
    <2>2. \A p \in OutPath : InIngress(p)' = InIngress(p) /\ (ClosePending(p)' => ClosePending(p))
        BY <1>0, <2>1 DEF InIngress, ClosePending
    <2>3. \A p \in OutPath : InIngress(p)' <= InIngress(p)
        BY <1>1, <2>2
    <2>4. Open' <=> Open
        BY <2>1 DEF Open
    <2> QED BY <1>2, <1>3, <2>1, <2>2, <2>3, <2>4
<1>5. CASE RecvMove
    <2>1. /\ io.pc = "send" /\ io'.pc = "push" /\ io'.path = io.path /\ io'.res = io.res
          /\ TxKept /\ Even
        BY <1>5 DEF RecvMove
    <2>2. \A p \in OutPath : InIngress(p)' = InIngress(p) /\ (ClosePending(p)' => ClosePending(p))
        BY <1>0, <2>1 DEF InIngress, ClosePending
    <2>3. \A p \in OutPath : InIngress(p)' <= InIngress(p)
        BY <1>1, <2>2
    <2>4. Open' /\ Open
        BY <2>1 DEF Open
    <2> QED BY <1>2, <1>3, <2>1, <2>2, <2>3, <2>4
<1>6. CASE RecvStop
    <2>1. /\ ~Open' /\ TxKept /\ Even
          /\ io'.res = "ok" => io.res = "ok" \/ ReadFin
        BY <1>6 DEF RecvStop, Open
    <2>2. \A p \in OutPath : InIngress(p)' = 0
        BY <1>6 DEF RecvStop, InIngress
    <2>3. \A p \in OutPath : InIngress(p)' <= InIngress(p)
        BY <1>1, <2>2
    <2>4. ASSUME ReadFin
          PROVE  Live = {} /\ \A p \in OutPath \ Late : got[p] + unread[p] = sent[p]
        <3>1. io.pc = "header" /\ end = "fin" /\ wire = <<>>
            BY <2>4 DEF ReadFin, IngressEnd
        <3>2. Live = {} /\ queue = <<>> /\ egress.left = 0
            BY <3>1 DEF Leaving
        <3> SUFFICES ASSUME NEW p \in OutPath \ Late PROVE got[p] + unread[p] = sent[p]
            BY <3>2
        <3>3. Accounted(p) = sent[p]
            BY <3>1 DEF Open, Flow, NoLess
        <3>4. WireClear(p)
            BY <3>1, <3>2 DEF WireClear, SenderClear, QueueClear, EgressOn
        <3>5. UnderWay(p) = 0
            <4>1. Total(QueueLoad(p)) = 0 /\ InEgress(p) = 0 /\ Total(WireLoad(p)) = 0
                BY <3>4, LoadFacts
            <4>2. InIngress(p) = 0
                BY <3>1 DEF InIngress
            <4> QED BY <4>1, <4>2 DEF UnderWay
        <3> QED BY <1>1, <3>3, <3>5 DEF Accounted
    <2> QED BY <1>2, <1>3, <2>1, <2>3, <2>4
<1>7. CASE RecvPush
    <2>1. /\ io.pc = "push" /\ TxKept /\ UNCHANGED got
          /\ io'.pc \in {"header", "data"} /\ io'.res \in {io.res, "none"}
          /\ raced \subseteq raced' /\ drained \subseteq drained'
          /\ \A p \in OutPath :
                /\ unread'[p] = unread[p] \/ (p = io.path /\ unread'[p] = unread[p] + 1)
                /\ p = io.path /\ p \notin raced' \cup drained' => unread'[p] = unread[p] + 1
        BY <1>7 DEF RecvPush
    <2>2. /\ \A p \in OutPath : InIngress(p)' = 0 /\ InIngress(p) = IF p = io.path THEN 1 ELSE 0
          /\ \A p \in OutPath : ClosePending(p)' => ClosePending(p)
          /\ Open /\ Open' /\ Late \subseteq Late'
        BY <1>0, <2>1 DEF InIngress, ClosePending, Open, Late
    <2>3. ASSUME NEW p \in OutPath
          PROVE  /\ Accounted(p)' <= sent[p]
                 /\ p \notin Late' => Accounted(p)' = Accounted(p)
        <3>1. Accounted(p)' = got[p] + unread'[p] + (UnderWay(p) - (IF p = io.path THEN 1 ELSE 0))
            BY <1>1, <2>1, <2>2 DEF Accounted
        <3>2. p \notin Late' => p # io.path \/ unread'[p] = unread[p] + 1
            BY <2>1 DEF Late
        <3>3. unread'[p] = unread[p] \/ (p = io.path /\ unread'[p] = unread[p] + 1)
            BY <2>1
        <3> QED BY <1>1, <3>1, <3>2, <3>3 DEF Accounted
    <2>4. NoMore'
        BY <1>0, <2>3 DEF NoMore
    <2>5. NoLess'
        <3> SUFFICES ASSUME NEW p \in OutPath \ Late',
                            inbox = "open" \/ end = "fin" \/ ClosePending(p)'
                     PROVE  Accounted(p)' = sent[p]
            BY <1>0 DEF NoLess
        <3>1. Accounted(p) = sent[p]
            BY <2>2 DEF Flow, NoLess
        <3> QED BY <2>3, <3>1
    <2>6. io'.res # "ok"
        BY <2>1, <2>2 DEF Flow, CleanEnd
    <2>7. Complete'
        <3> SUFFICES ASSUME NEW p \in OutPath \ Late', tx'[p] = "closed"
                     PROVE  got'[p] + unread'[p] = sent[p]
            BY <1>0, <2>6 DEF Complete
        <3>1. p # io.path /\ tx[p] = "closed"
            BY <2>1 DEF Order, ClosedOrder, IngressOn, Busy, TxKept
        <3> QED BY <2>1, <2>2, <3>1 DEF Flow, Complete
    <2>8. CleanEnd'
        BY <2>6 DEF CleanEnd
    <2> QED BY <2>4, <2>5, <2>7, <2>8 DEF Flow
<1> QED BY <1>4, <1>5, <1>6, <1>7 DEF RecvKind

\* Routing a frame moves no chunk, and the frame that closes a path finds all
\* of them delivered.
LEMMA FlowRoute ==
    ASSUME TypeOK, ReaderType, SenderType, Order, Order', Flow, WaitKind \/ HeaderKind
    PROVE  Flow'
<1>0. UNCHANGED <<writer, queue, sent, inbox, egress, end, got, unread, raced, drained>>
    BY DEF WaitKind, HeaderKind, SenderSame, RecvRoute
<1>1. PICK path, n :
        /\ RecvRoute(path, n) /\ io.pc \in {"wait", "header"}
        /\ n = 0 => ClosePending(path)
        /\ io'.pc = "wait" => io'.path = path /\ io'.rem = n
        /\ \A i \in DOMAIN wire' : \E j \in DOMAIN wire : wire'[i] = wire[j]
    <2>1. CASE WaitKind
        <3>1. RecvRoute(io.path, io.rem) /\ io.pc = "wait" /\ UNCHANGED wire
            BY <2>1 DEF WaitKind
        <3>2. io.rem = 0 => ClosePending(io.path)
            BY <3>1 DEF ClosePending
        <3> QED BY <3>1, <3>2 DEF RecvRoute
    <2>2. CASE HeaderKind
        <3>1. /\ RecvRoute(wire[1].path, wire[1].size) /\ io.pc = "header" /\ wire[1].kind = "header"
              /\ 1 \in DOMAIN wire /\ wire' = Tail(wire) /\ wire \in Seq(Piece) /\ wire # <<>>
            BY <2>2 DEF HeaderKind, SenderType
        <3>2. wire[1].size = 0 => ClosePending(wire[1].path)
            BY <3>1 DEF ClosePending
        <3>3. \A i \in DOMAIN wire' : i + 1 \in DOMAIN wire /\ wire'[i] = wire[i + 1]
            BY <3>1
        <3>4. \A i \in DOMAIN wire' : \E j \in DOMAIN wire : wire'[i] = wire[j]
            BY <3>3
        <3>5. io'.pc = "wait" => io'.path = wire[1].path /\ io'.rem = wire[1].size
            BY <3>1 DEF RecvRoute
        <3> QED BY <3>1, <3>2, <3>4, <3>5
    <2> QED BY <2>1, <2>2
<1>2. ASSUME NEW p \in OutPath, ClosePending(p)' PROVE ClosePending(p)
    <2>1. CASE \E i \in DOMAIN wire' : wire'[i].kind = "header" /\ wire'[i].size = 0 /\ wire'[i].path = p
        BY <1>1, <2>1 DEF ClosePending
    <2>2. CASE io'.pc = "wait" /\ io'.rem = 0 /\ io'.path = p
        BY <1>1, <2>2
    <2> QED BY <1>2, <2>1, <2>2 DEF ClosePending
<1>3. ASSUME NEW p \in OutPath
      PROVE  /\ UnderWay(p)' = UnderWay(p) /\ Accounted(p)' = Accounted(p)
             /\ InIngress(p)' = 0 /\ InIngress(p) = 0
    <2>1. InIngress(p)' = 0 /\ InIngress(p) = 0
        BY <1>1 DEF InIngress, RecvRoute
    <2>2. Total(WireLoad(p))' = Total(WireLoad(p))
        <3>1. CASE WaitKind
            BY <3>1, LoadFacts DEF WaitKind
        <3>2. CASE HeaderKind
            <4>1. /\ wire \in Seq(Piece) /\ wire # <<>> /\ wire' = Tail(wire) /\ ChunkOf(Head(wire), p) = 0
                BY <3>2 DEF HeaderKind, SenderType, ChunkOf
            <4>2. Total(WireLoad(p)) = Total(WireLoad(p))' + 0 /\ Total(WireLoad(p)) \in Nat
                BY <4>1, WireSum
            <4>3. Total(WireLoad(p))' \in Nat
                <5>1. WireLoad(p)' = Tail(WireLoad(p)) /\ WireLoad(p) # <<>>
                    BY <4>1 DEF WireLoad
                <5>2. WireLoad(p) \in Seq(0..1)
                    BY <4>1, WireSum
                <5>3. Tail(WireLoad(p)) \in Seq(0..1)
                    BY <5>1, <5>2
                <5>4. Total(Tail(WireLoad(p))) \in Nat
                    BY <5>3, UnitsFinite
                <5> QED BY <5>1, <5>4 DEF Total, Units
            <4> QED BY <4>2, <4>3
        <3> QED BY <3>1, <3>2
    <2>3. Total(QueueLoad(p))' = Total(QueueLoad(p)) /\ InEgress(p)' = InEgress(p)
        BY <1>0, LoadFacts
    <2>4. UnderWay(p)' = UnderWay(p)
        BY <2>1, <2>2, <2>3 DEF UnderWay
    <2> QED BY <1>0, <2>1, <2>4 DEF Accounted
<1>4. NoMore'
    BY <1>0, <1>3 DEF Flow, NoMore
<1>5. NoLess'
    <2> SUFFICES ASSUME NEW p \in OutPath \ Late,
                        inbox = "open" \/ end = "fin" \/ ClosePending(p)'
                 PROVE  Accounted(p)' = sent[p]
        BY <1>0 DEF NoLess, Late
    <2>1. Accounted(p) = sent[p]
        BY <1>1, <1>2 DEF Flow, NoLess, Open
    <2> QED BY <1>3, <2>1
<1>6. io'.res # "ok"
    BY <1>1 DEF RecvRoute, ErrorKind
<1>7. Complete'
    <2> SUFFICES ASSUME NEW p \in OutPath \ Late, tx'[p] = "closed"
                 PROVE  got[p] + unread[p] = sent[p]
        BY <1>0, <1>6 DEF Complete, Late
    <2>1. CASE tx[p] = "closed"
        BY <2>1 DEF Flow, Complete
    <2>2. CASE tx[p] # "closed"
        <3>1. p = path /\ n = 0
            BY <1>1, <2>2 DEF RecvRoute, TxKept
        <3>2. Accounted(p) = sent[p]
            BY <1>1, <3>1 DEF Flow, NoLess, Open
        <3>3. UnderWay(p)' = 0
            <4>1. WireClear(p)'
                BY DEF Order, ClosedOrder
            <4>2. Total(QueueLoad(p)) = 0 /\ InEgress(p) = 0
                <5>1. SenderClear(p)
                    BY <1>0, <4>1 DEF WireClear, SenderClear, QueueClear, EgressOn
                <5> QED BY <5>1, LoadFacts DEF SenderClear
            <4>3. Total(WireLoad(p))' = 0
                <5>1. \A i \in DOMAIN WireLoad(p)' : WireLoad(p)'[i] = 0
                    BY <4>1 DEF WireClear, WireLoad
                <5>2. Total(WireLoad(p)') = 0
                    BY <5>1, TotalZero
                <5> QED BY <5>2 DEF Total, Units
            <4>4. Total(QueueLoad(p))' = Total(QueueLoad(p)) /\ InEgress(p)' = InEgress(p)
                BY <1>0, LoadFacts
            <4> QED BY <1>3, <4>2, <4>3, <4>4 DEF UnderWay
        <3> QED BY <1>3, <3>2, <3>3, FlowType DEF Accounted
    <2> QED BY <2>1, <2>2
<1>8. CleanEnd'
    BY <1>6 DEF CleanEnd
<1> QED BY <1>4, <1>5, <1>7, <1>8 DEF Flow

\* A chunk is read: it is one of the frame that ingress works on.
LEMMA FlowChunk ==
    ASSUME TypeOK, ReaderType, SenderType, Framing, Flow, ChunkKind
    PROVE  Flow'
<1>0. /\ UNCHANGED <<writer, queue, sent, inbox, egress, end, got, unread, raced, drained, tx>>
      /\ wire \in Seq(Piece) /\ wire # <<>> /\ Head(wire) = wire[1] /\ wire[1].kind = "chunk" /\ 1 \in DOMAIN wire
      /\ wire' = Tail(wire) /\ io.pc = "data" /\ io'.pc = "send" /\ io'.path = io.path /\ io'.res = io.res
    BY DEF ChunkKind, SenderSame, SenderType
<1>1. io.path = wire[1].path
    BY <1>0 DEF Framing, Busy
<1>2. ASSUME NEW p \in OutPath
      PROVE  Accounted(p)' = Accounted(p) /\ (ClosePending(p)' => ClosePending(p))
    <2> DEFINE n == ChunkOf(Head(wire), p)
               W == Total(WireLoad(p))
    <2>1. InIngress(p)' = n /\ InIngress(p) = 0 /\ n \in Nat
        BY <1>0, <1>1 DEF InIngress, ChunkOf
    <2>2. W = W' + n /\ W \in Nat
        BY <1>0, WireSum
    <2>3. W' \in Nat
        <3>1. WireLoad(p)' = Tail(WireLoad(p)) /\ WireLoad(p) # <<>>
            BY <1>0 DEF WireLoad
        <3>2. WireLoad(p) \in Seq(0..1)
            BY <1>0, WireSum
        <3>3. Tail(WireLoad(p)) \in Seq(0..1)
            BY <3>1, <3>2
        <3>4. Total(Tail(WireLoad(p))) \in Nat
            BY <3>3, UnitsFinite
        <3> QED BY <3>1, <3>4 DEF Total, Units
    <2>4. /\ Total(QueueLoad(p))' = Total(QueueLoad(p)) /\ InEgress(p)' = InEgress(p)
          /\ Total(QueueLoad(p)) \in Nat /\ InEgress(p) \in Nat
        BY <1>0, LoadFacts
    <2>5. UnderWay(p) = Total(QueueLoad(p)) + InEgress(p) + W + InIngress(p)
          /\ UnderWay(p)' = Total(QueueLoad(p))' + InEgress(p)' + W' + InIngress(p)'
        BY DEF UnderWay
    <2>6. UnderWay(p)' = UnderWay(p)
        <3> HIDE DEF W, n
        <3> QED BY <2>1, <2>2, <2>3, <2>4, <2>5
    <2>7. \A i \in DOMAIN wire' : i + 1 \in DOMAIN wire /\ wire'[i] = wire[i + 1]
        BY <1>0
    <2>8. ClosePending(p)' => ClosePending(p)
        BY <1>0, <2>7 DEF ClosePending
    <2> QED BY <1>0, <2>6, <2>8 DEF Accounted
<1>3. Open /\ Open'
    BY <1>0 DEF Open
<1>4. NoMore'
    BY <1>0, <1>2 DEF Flow, NoMore
<1>5. NoLess'
    <2> SUFFICES ASSUME NEW p \in OutPath \ Late, inbox = "open" \/ end = "fin" \/ ClosePending(p)'
                 PROVE  Accounted(p)' = sent[p]
        BY <1>0 DEF NoLess, Late
    <2> QED BY <1>2, <1>3 DEF Flow, NoLess
<1>6. Complete' /\ CleanEnd'
    BY <1>0, <1>3 DEF Flow, Complete, CleanEnd, Late
<1> QED BY <1>4, <1>5, <1>6 DEF Flow

LEMMA FlowStep ==
    ASSUME TypeOK, TypeOK', Target, ReaderType, ReaderType', SenderType, SenderType', Leaving,
           Order, Order', Framing, Flow, [ConnNext]_allVars
    PROVE  Flow'
BY StepKind, FlowSend, FlowWrite, FlowRecv, FlowRoute, FlowChunk

-----------------------------------------------------------------------------
(* Readers that are late, or done                                          *)

LEMMA LateGoneStep ==
    ASSUME ReleaseInv, Ending, ReaderType, SenderType, LateGone, [ConnNext]_allVars
    PROVE  LateGone'
<1>0. /\ [Next]_vars /\ OutPath \subseteq Node /\ raced \subseteq Node /\ io.path \in Node
      /\ rx \in [Node -> {"none", "sub", "taken", "checked", "gone"}]
      /\ outcome \in [OutPath -> {"none", "end", "error"}]
    BY ConnIncoming, ConnAssumption DEF ReleaseInv, ElementInv, TypeInv, TypeOK, SubsTypeOK, TaskTypeOK, ReaderType
<1>1. \A p \in Node : rx[p] \in {"checked", "gone"} => rx'[p] \in {rx[p], "gone"}
    BY <1>0, NextRelease DEF Gone
<1>2. /\ \A p \in raced' : p \in raced \/ (p = io.path /\ rx[p] \in {"checked", "gone"})
      /\ drained' # {} => drained # {} \/ unclaimed = "closed"
      /\ unclaimed = "closed" => unclaimed' = "closed"
    <2>1. CASE UNCHANGED <<raced, drained, unclaimed>>
        BY <2>1
    <2>2. ASSUME NEW h \in Handle, HandleStep(h)
          PROVE  UNCHANGED <<raced, drained, unclaimed>>
        BY <2>2
        DEF HandleStep, IndexSkip, IndexTake, IndexNotFound, TakeReader, ReadChunk, ReadRest, ReadEof,
            ReadError, ReadEnd, DropClose, DropRelease, DropFinish, Remove, subsVars, history
    <2>3. ASSUME NEW path, NEW n, NEW granted, Route(path, n, granted)
          PROVE  UNCHANGED unclaimed
        BY <2>3 DEF Route
    <2>4. CASE PeerStep
        BY <2>1, <2>3, <2>4
        DEF PeerStep, IngressFrame, IngressUnknown, IngressData, IngressEnd, IngressBroken, IngressUnchanged,
            subsVars, history
    <2>5. CASE IngressPush
        <3>1. /\ UNCHANGED unclaimed
              /\ raced' = IF rx[io.path] \in {"checked", "gone"} THEN raced \cup {io.path} ELSE raced
              /\ drained' = IF task = "draining" THEN drained \cup {io.path} ELSE drained
            BY <2>5 DEF IngressPush, subsVars
        <3>2. task = "draining" => unclaimed = "closed"
            BY DEF Ending
        <3> QED BY <3>1, <3>2
    <2>6. CASE CloseRx
        BY <2>6 DEF CloseRx, CloseReceivers, history
    <2>7. CASE IngressStep
        BY <2>1, <2>3, <2>5, <2>6, <2>7
        DEF IngressStep, IngressPermit, IngressIndexed, IngressClosed, IngressReserve, IngressFailed,
            SetErr, CloseTx, IngressUnchanged, subsVars, history
    <2>8. CASE Abort \/ UNCHANGED vars
        BY <2>1, <2>8 DEF Abort, vars, subsVars, history
    <2> QED BY <1>0, <2>1, <2>2, <2>4, <2>7, <2>8 DEF Next
<1>3. ASSUME NEW p \in OutPath, outcome'[p] # "none"
      PROVE  rx'[p] = "gone"
    <2>1. CASE \E h \in Handle : handle[h].path = p /\ ReadEnd(h)
        BY <1>0, <2>1 DEF ReadEnd
    <2>2. CASE outcome'[p] = outcome[p]
        BY <1>0, <1>1, <1>3, <2>2 DEF LateGone
    <2>3. CASE ReceiverStep
        BY <2>1, <2>2, <2>3 DEF ReceiverStep, ReadEof, ReadError
    <2>4. ~ReceiverStep => UNCHANGED outcome
        BY DEF ConnNext, SenderStep, Write, ReadFrame, ReadData, ReadFin, ReadAbort, ReadWire, connVars, allVars
    <2> QED BY <2>2, <2>3, <2>4
<1>4. \A p \in raced' : rx'[p] \in {"checked", "gone"}
    BY <1>0, <1>1, <1>2 DEF LateGone
<1>5. drained' # {} => unclaimed' = "closed"
    BY <1>2 DEF LateGone
<1> QED BY <1>3, <1>4, <1>5 DEF LateGone

-----------------------------------------------------------------------------
(* What a connection promises                                              *)

LEMMA ConnStep ==
    ASSUME ConnInv, [ConnNext]_allVars
    PROVE  ConnInv'
<1> USE DEF ConnInv
<1>1. DataInv'
    BY ConnIncoming, NextData
<1>2. TypeOK /\ TypeOK' /\ Target /\ ReleaseInv /\ Ending
    BY <1>1 DEF DataInv, ReleaseInv, ElementInv, TypeInv
<1>3. (SenderType /\ Leaving)' /\ ReaderType'
    BY <1>2, SenderTypeStep, ReaderTypeStep
<1>4. Order' /\ Framing' /\ NoBlame'
    BY <1>2, OrderStep, FramingStep, NoBlameStep
<1>5. Flow'
    BY <1>2, <1>3, <1>4, FlowStep
<1>6. LateGone'
    BY <1>2, LateGoneStep
<1> QED BY <1>1, <1>3, <1>4, <1>5, <1>6

LEMMA InitConn == ConnInit => ConnInv
<1> SUFFICES ASSUME ConnInit PROVE ConnInv
    OBVIOUS
<1> USE BoundAssumption, OutBoundAssumption, WriterAssumption, ConnAssumption
<1>1. DataInv
    BY InitData DEF ConnInit
<1>2. /\ writer = [w \in Writer |-> IF w = Origin THEN [NoWriter EXCEPT !.st = "live"] ELSE NoWriter]
      /\ queue = <<>> /\ inbox = "open" /\ egress = Waiting /\ wire = <<>> /\ end = "open"
      /\ sent = [p \in OutPath |-> 0] /\ shut = {}
      /\ got = [p \in OutPath |-> 0] /\ outcome = [p \in OutPath |-> "none"]
    BY DEF ConnInit, OutInit
<1>3. /\ tx = [p \in Node |-> IF p \in subs THEN "open" ELSE "none"]
      /\ io.pc = "header" /\ io.res = "none" /\ err = "none"
      /\ unread = [p \in Node |-> 0] /\ raced = {} /\ drained = {}
    BY DEF ConnInit, Init, Idle
<1>4. egress \in EgressRecord /\ egress.left = 0 /\ egress.size = 0 /\ egress.pc = "recv"
    BY <1>2 DEF Waiting, EgressRecord
<1>5. SenderType
    <2>1. writer \in [Writer -> [st : {"free", "live"}, path : OutPath, error : {"none"}]]
        BY <1>2 DEF NoWriter
    <2> QED BY <1>2, <1>4, <2>1 DEF SenderType
<1>6. ReaderType /\ Leaving
    BY <1>2, <1>3, <1>4 DEF ReaderType, Busy, Leaving
<1>7. Order /\ Framing
    BY <1>2, <1>3, <1>4
    DEF Order, QueueOrder, EgressOrder, WireOrder, IngressOrder, ClosedOrder, Framing, Busy
<1>8. Flow
    <2>1. ASSUME NEW p \in OutPath PROVE Accounted(p) = 0
        <3>1. WireClear(p)
            BY <1>2, <1>4 DEF WireClear, SenderClear, QueueClear, EgressOn
        <3>2. Total(QueueLoad(p)) = 0 /\ InEgress(p) = 0 /\ Total(WireLoad(p)) = 0
            BY <1>5, <3>1, LoadFacts
        <3>3. InIngress(p) = 0 /\ got[p] = 0 /\ unread[p] = 0
            BY <1>2, <1>3 DEF InIngress
        <3> QED BY <3>2, <3>3 DEF UnderWay, Accounted
    <2>2. NoMore /\ NoLess
        BY <1>2, <2>1 DEF NoMore, NoLess
    <2>3. Complete /\ CleanEnd
        BY <1>2, <1>3 DEF Complete, CleanEnd
    <2> QED BY <2>2, <2>3 DEF Flow
<1>9. LateGone /\ NoBlame
    BY <1>2, <1>3 DEF LateGone, NoBlame
<1> QED BY <1>1, <1>5, <1>6, <1>7, <1>8, <1>9 DEF ConnInv

\* The inductive invariant of a connection: every step of either peer, of egress,
\* of ingress and of the transport between them preserves it.
THEOREM ConnectionHolds == ConnSpec => []ConnInv
<1>1. ConnInv /\ [ConnNext]_allVars => ConnInv'
    BY ConnStep
<1> QED BY <1>1, InitConn, PTL DEF ConnSpec

\* The receiving half of a connection is Incoming with a peer that is not
\* arbitrary: all that is proved of Incoming holds of it.
THEOREM ReceiverIsIncoming == ConnSpec => Spec
<1>1. ConnInit => Init
    BY DEF ConnInit
<1>2. ConnInv /\ [ConnNext]_allVars => [Next]_vars
    BY ConnIncoming DEF ConnInv
<1> QED BY <1>1, <1>2, ConnectionHolds, PTL DEF ConnSpec, Spec

\* Ingress never blames the peer: writers that respect the protocol are not
\* refused, whatever the receiving application indexes, skips or drops, and
\* however long a frame waits for an element to be indexed.
THEOREM PeerIsNotBlamed == ConnSpec => []NoBlame
<1>1. ConnInv => NoBlame
    BY DEF ConnInv
<1> QED BY <1>1, ConnectionHolds, PTL

\* `finished` of the receiving peer reports success only if everything sent
\* was read, but for data that raced with the drop of its handle or arrived
\* after the last one.
THEOREM SuccessMeansDelivered == ConnSpec => []OkMeansDelivered
<1>1. ASSUME ConnInv, done = "ok", raced = {}, drained = {}
      PROVE  got = sent
    <2>1. io.res = "ok" /\ \A p \in OutPath : unread[p] = 0
        BY <1>1, ConnAssumption DEF ConnInv, DataInv, OkMeansProcessed
    <2>2. \A p \in OutPath : got[p] + unread[p] = sent[p]
        BY <1>1, <2>1 DEF ConnInv, Flow, Complete, Late
    <2>3. got \in [OutPath -> Nat] /\ sent \in [OutPath -> Nat]
        BY <1>1 DEF ConnInv, ReaderType, SenderType
    <2>4. \A p \in OutPath : got[p] = sent[p]
        BY <2>1, <2>2, <2>3
    <2> QED BY <2>3, <2>4
<1>2. ConnInv => OkMeansDelivered
    BY <1>1 DEF OkMeansDelivered
<1> QED BY <1>2, ConnectionHolds, PTL

\* A read that ends a stream ends one, and nothing else happens.
LEMMA ReadEndStep ==
    ASSUME ConnInv, ReceiverStep, NEW h \in Handle, ReadEnd(h)
    PROVE  /\ UNCHANGED <<sent, shut, writer, got>>
           /\ handle[h].path \in OutPath => outcome[handle[h].path] = "none"
           /\ \A p \in OutPath \ {handle[h].path} : outcome'[p] = outcome[p]
<1> DEFINE path == handle[h].path
<1>0. /\ rx \in [Node -> {"none", "sub", "taken", "checked", "gone"}] /\ OutPath \subseteq Node /\ path \in Node
      /\ got \in [OutPath -> Nat] /\ unread \in [Node -> Int]
    BY ConnAssumption
    DEF ConnInv, DataInv, ReleaseInv, ElementInv, TypeInv, TypeOK, SubsTypeOK, HandleTypeOK, ReaderType
<1>1. UNCHANGED <<sent, shut, writer, unread>> /\ rx' = [rx EXCEPT ![path] = "gone"]
    BY DEF ReceiverStep, ReadEnd, outVars, handleVars, history
<1>2. \A g \in Handle : handle[g].rx => rx[handle[g].path] = "taken"
    BY DEF ConnInv, DataInv, ReleaseInv, Dropped, Kept
<1>3. got' = got
    <2>1. \A p \in OutPath : unread[p] \in Int /\ unread'[p] = unread[p]
        BY <1>0, <1>1
    <2>2. got' = [p \in OutPath |-> IF unread'[p] < unread[p] THEN got[p] + 1 ELSE got[p]]
        BY DEF ReceiverStep
    <2>3. \A p \in OutPath : got'[p] = got[p]
        BY <2>1, <2>2
    <2> QED BY <1>0, <2>2, <2>3
<1>4. path \in OutPath => outcome[path] = "none"
    BY <1>2 DEF ReadEnd, ConnInv, LateGone
<1>5. ASSUME NEW p \in OutPath \ {path}, NEW g \in Handle, handle[g].path = p, ReadEnd(g)
      PROVE  FALSE
    <2>1. rx[p] = "taken" /\ rx'[p] = "gone"
        BY <1>0, <1>2, <1>5 DEF ReadEnd
    <2> QED BY <1>0, <1>1, <1>5, <2>1
<1>6. \A p \in OutPath \ {path} : outcome'[p] = outcome[p]
    BY <1>5 DEF ReceiverStep, ReadEof, ReadError
<1> QED BY <1>1, <1>3, <1>4, <1>6

\* Every step of a connection is one that Delivery allows.
LEMMA DeliveryStep ==
    ASSUME ConnInv, [ConnNext]_allVars
    PROVE  [Promise!Next]_(Promise!vars)
<1> USE DEF Promise!vars
<1>0. /\ got \in [OutPath -> Nat] /\ outcome \in [OutPath -> {"none", "end", "error"}]
      /\ sent \in [OutPath -> Nat] /\ unread \in [Node -> Int] /\ OutPath \subseteq Node
      /\ \A h \in Handle : handle[h].path \in Node
    BY ConnAssumption
    DEF ConnInv, ReaderType, SenderType, DataInv, ReleaseInv, ElementInv, TypeInv, TypeOK, HandleTypeOK
<1>1. CASE UNCHANGED <<sent, shut, got, outcome, writer>>
    BY <1>1 DEF Live
<1>2. CASE SenderStep
    <2>1. UNCHANGED <<sent, shut, got, outcome>> /\ (Live = {} => Live' = {})
        <3>1. UNCHANGED <<connVars, sent>> /\ (SendQuiet \/ SendTake \/ SendPiece \/ SendNoMore)
            BY <1>2, SenderKind DEF ConnInv
        <3> QED BY <3>1 DEF connVars, SendQuiet, SendTake, SendPiece, SendNoMore, Live
    <2>2. CASE Live # {} /\ Live' = {}
        BY <2>1, <2>2 DEF Promise!Next, Promise!Quit
    <2>3. CASE (Live = {}) = (Live' = {})
        BY <2>1, <2>3
    <2> QED BY <2>1, <2>2, <2>3
<1>3. ASSUME NEW w \in Writer, NEW n \in 0..MaxFrameChunks, Write(w, n)
      PROVE  Promise!Next
    <2> DEFINE p == writer[w].path
    <2>1. /\ p \in OutPath /\ p \notin shut /\ UNCHANGED <<writer, got, outcome>> /\ Live # {}
          /\ sent' = [sent EXCEPT ![p] = @ + n] /\ n \in Nat
          /\ shut' = IF n = 0 THEN shut \cup {p} ELSE shut
        BY <1>3, BoundAssumption DEF Write, SendReserved, Live, ConnInv, SenderType
    <2>2. (Live' = {}) = (Live = {})
        BY <2>1 DEF Live
    <2>3. CASE n = 0
        <3>1. sent' = sent
            BY <1>0, <2>1, <2>3
        <3>2. Promise!Close(p)
            BY <2>1, <2>2, <2>3, <3>1 DEF Promise!Close
        <3> QED BY <2>1, <3>2 DEF Promise!Next
    <2>4. CASE n # 0
        <3>1. n \in 1..MaxFrameChunks /\ shut' = shut
            BY <2>1, <2>4, BoundAssumption
        <3>2. \E m \in 1..MaxFrameChunks : sent' = [sent EXCEPT ![p] = @ + m]
            BY <2>1, <3>1
        <3>3. Promise!Send(p)
            BY <2>1, <2>2, <3>1, <3>2 DEF Promise!Send
        <3> QED BY <2>1, <3>3 DEF Promise!Next
    <2> QED BY <2>3, <2>4
<1>4. ASSUME ReceiverStep, NEW h \in Handle, ReadEof(h)
      PROVE  [Promise!Next]_(Promise!vars)
    <2> DEFINE p == handle[h].path
    <2>1. ReadEnd(h) /\ handle[h].st = "live"
        BY <1>4 DEF ReadEof, ReadEnd
    <2>2. /\ UNCHANGED <<sent, shut, writer, got>> /\ (p \in OutPath => outcome[p] = "none")
          /\ \A q \in OutPath \ {p} : outcome'[q] = outcome[q]
        BY <1>4, <2>1, ReadEndStep
    <2>3. CASE p \notin OutPath
        <3>1. outcome' = outcome
            BY <1>0, <1>4, <2>2, <2>3 DEF ReceiverStep
        <3> QED BY <1>1, <2>2, <3>1
    <2>4. CASE p \in OutPath
        <3>1. /\ tx[p] = "closed" \/ io.res = "ok"
              /\ unread[p] = 0
            BY <1>4, EofFacts DEF ConnInv
        <3>2. p \notin Late
            <4>1. p \notin raced
                BY <2>1 DEF ReadEnd, ConnInv, LateGone, DataInv, ReleaseInv, Dropped, Kept
            <4>2. drained = {}
                BY <2>1 DEF ConnInv, LateGone, DataInv, ReleaseInv, Dropped, Closing, AllDropped
            <4> QED BY <4>1, <4>2 DEF Late
        <3>3. got[p] + unread[p] = sent[p] /\ (p \in shut \/ Live = {})
            BY <2>4, <3>1, <3>2 DEF ConnInv, Flow, Complete, CleanEnd, Order, ClosedOrder
        <3>4. got[p] = sent[p]
            BY <1>0, <2>4, <3>1, <3>3
        <3>5. outcome' = [outcome EXCEPT ![p] = "end"]
            <4>1. outcome'[p] = "end"
                BY <1>4, <2>4 DEF ReceiverStep
            <4>2. outcome' = [q \in OutPath |-> outcome'[q]]
                BY <1>4 DEF ReceiverStep
            <4> QED BY <1>0, <2>2, <4>1, <4>2
        <3>6. (Live' = {}) = (Live = {})
            BY <2>2 DEF Live
        <3>7. Promise!End(p)
            BY <2>2, <2>4, <3>3, <3>4, <3>5, <3>6 DEF Promise!End
        <3> QED BY <2>4, <3>7 DEF Promise!Next
    <2> QED BY <2>3, <2>4
<1>5. ASSUME ReceiverStep, NEW h \in Handle, ReadError(h)
      PROVE  [Promise!Next]_(Promise!vars)
    <2> DEFINE p == handle[h].path
    <2>1. ReadEnd(h) /\ err # "none" /\ tx[p] # "closed"
        BY <1>5 DEF ReadError
    <2>2. /\ UNCHANGED <<sent, shut, writer, got>> /\ (p \in OutPath => outcome[p] = "none")
          /\ \A q \in OutPath \ {p} : outcome'[q] = outcome[q]
        BY <1>5, <2>1, ReadEndStep
    <2>3. CASE p \notin OutPath
        <3>1. outcome' = outcome
            BY <1>0, <1>5, <2>2, <2>3 DEF ReceiverStep
        <3> QED BY <1>1, <2>2, <3>1
    <2>4. CASE p \in OutPath
        <3>1. ~ \E g \in Handle : handle[g].path = p /\ ReadEof(g)
            BY <2>1 DEF ReadEof
        <3>2. outcome' = [outcome EXCEPT ![p] = "error"]
            <4>1. outcome'[p] = "error"
                BY <1>5, <2>4, <3>1 DEF ReceiverStep
            <4>2. outcome' = [q \in OutPath |-> outcome'[q]]
                BY <1>5 DEF ReceiverStep
            <4> QED BY <1>0, <2>2, <4>1, <4>2
        <3>3. (Live' = {}) = (Live = {})
            BY <2>2 DEF Live
        <3>4. Promise!Fail(p)
            BY <2>2, <2>4, <3>2, <3>3 DEF Promise!Fail
        <3> QED BY <2>4, <3>4 DEF Promise!Next
    <2> QED BY <2>3, <2>4
<1>6. ASSUME ReceiverStep, NEW h \in Handle, ReadRest(h)
      PROVE  [Promise!Next]_(Promise!vars)
    <2> DEFINE p == handle[h].path
    <2>1. /\ handle[h].rx /\ rx[p] = "taken" /\ unread[p] = chan[p] + 1 /\ chan[p] \in Nat
        BY <1>6, BoundAssumption
        DEF ReadRest, ConnInv, DataInv, Stock, Owned, Balance, OwnUnread, Loaded, ReleaseInv, Dropped, Kept,
            ElementInv, TypeInv, TypeOK, HandleTypeOK
    <2>2. /\ UNCHANGED <<sent, shut, writer, rx>> /\ unread' = [unread EXCEPT ![p] = @ - 1]
          /\ got' = [q \in OutPath |-> IF unread'[q] < unread[q] THEN got[q] + 1 ELSE got[q]]
        BY <1>6 DEF ReceiverStep, ReadRest, outVars, handleVars, subsVars
    <2>3. outcome' = outcome
        <3>1. ASSUME NEW g \in Handle, ReadEnd(g) PROVE FALSE
            <4>1. UNCHANGED unread
                BY <3>1 DEF ReadEnd, history
            <4> QED BY <1>0, <2>2, <4>1
        <3> QED BY <1>0, <1>6, <3>1 DEF ReceiverStep, ReadEof, ReadError
    <2>4. \A q \in OutPath : got'[q] = IF q = p THEN got[q] + 1 ELSE got[q]
        BY <1>0, <2>2
    <2>5. CASE p \notin OutPath
        <3>1. got' = got
            BY <1>0, <2>2, <2>4, <2>5
        <3> QED BY <1>1, <2>2, <2>3, <3>1
    <2>6. CASE p \in OutPath
        <3>1. got' = [got EXCEPT ![p] = @ + 1]
            BY <1>0, <2>2, <2>4
        <3>2. outcome[p] = "none"
            BY <2>1, <2>6 DEF ConnInv, LateGone
        <3>3. got[p] < sent[p]
            <4>1. Accounted(p) <= sent[p] /\ UnderWay(p) \in Nat
                BY <2>6, LoadFacts DEF ConnInv, Flow, NoMore
            <4> QED BY <1>0, <2>1, <2>6, <4>1 DEF Accounted
        <3>4. (Live' = {}) = (Live = {})
            BY <2>2 DEF Live
        <3>5. Promise!Receive(p)
            BY <2>2, <2>3, <3>1, <3>2, <3>3, <3>4 DEF Promise!Receive
        <3> QED BY <2>6, <3>5 DEF Promise!Next
    <2> QED BY <2>5, <2>6
<1>7. ASSUME ReceiverStep, \A h \in Handle : ~ReadEof(h) /\ ~ReadError(h) /\ ~ReadRest(h)
      PROVE  [Promise!Next]_(Promise!vars)
    <2>1. outcome' = outcome
        BY <1>0, <1>7 DEF ReceiverStep
    <2>2. \A p \in OutPath : unread[p] \in Int /\ (unread'[p] = unread[p] \/ unread'[p] = unread[p] + 1)
        <3>1. CASE \E h \in Handle : HandleStep(h)
            <4> PICK h \in Handle : HandleStep(h)
                BY <3>1
            <4>1. ASSUME NEW g \in Handle, NEW path \in AppPath, IndexSkip(h, g, path)
                  PROVE  unread' = unread
                BY <4>1 DEF IndexSkip, history
            <4>2. ASSUME NEW g \in Handle, IndexTake(h, g)
                  PROVE  unread' = unread
                BY <4>2 DEF IndexTake, history
            <4>3. ASSUME NEW g \in Handle, IndexNotFound(h, g)
                  PROVE  unread' = unread
                BY <4>3 DEF IndexNotFound, history
            <4>4. ASSUME NEW g \in Handle, TakeReader(h, g)
                  PROVE  unread' = unread
                BY <4>4 DEF TakeReader, history
            <4>5. ASSUME ReadChunk(h)
                  PROVE  unread' = unread
                BY <4>5 DEF ReadChunk, history
            <4>6. ASSUME DropClose(h)
                  PROVE  unread' = unread
                BY <4>6 DEF DropClose, history
            <4>7. ASSUME DropRelease(h)
                  PROVE  unread' = unread
                BY <4>7 DEF DropRelease, history
            <4>8. ASSUME DropFinish(h)
                  PROVE  unread' = unread
                BY <4>8 DEF DropFinish, history
            <4>9. unread' = unread
                BY <1>7, <4>1, <4>2, <4>3, <4>4, <4>5, <4>6, <4>7, <4>8 DEF HandleStep
            <4> QED BY <1>0, <4>9
        <3>2. CASE IngressPush
            <4>1. unread' = unread \/ unread' = [unread EXCEPT ![io.path] = @ + 1]
                BY <3>2 DEF IngressPush
            <4> QED BY <1>0, <4>1
        <3>3. CASE IngressStep \/ Abort
            BY <1>0, <3>2, <3>3
            DEF IngressStep, IngressPermit, IngressIndexed, IngressClosed, IngressReserve, IngressFailed,
                SetErr, CloseTx, CloseRx, IngressUnchanged, Abort, history
        <3> QED BY <1>7, <3>1, <3>3 DEF ReceiverStep
    <2>3. got' = got
        <3>1. got' = [p \in OutPath |-> IF unread'[p] < unread[p] THEN got[p] + 1 ELSE got[p]]
            BY <1>7 DEF ReceiverStep
        <3>2. \A p \in OutPath : got'[p] = got[p]
            BY <2>2, <3>1
        <3> QED BY <1>0, <3>1, <3>2
    <2>4. UNCHANGED <<sent, shut, writer>>
        BY <1>7 DEF ReceiverStep, outVars, handleVars
    <2> QED BY <1>1, <2>1, <2>3, <2>4
<1>8. CASE ReadFrame \/ ReadData \/ ReadFin \/ ReadAbort \/ UNCHANGED allVars
    <2>1. UNCHANGED <<sent, shut, got, outcome, writer>>
        BY <1>8 DEF ReadFrame, ReadData, ReadFin, ReadAbort, ReadWire, allVars, outVars, handleVars, connVars
    <2> QED BY <1>1, <2>1
<1> QED BY <1>2, <1>3, <1>4, <1>5, <1>6, <1>7, <1>8 DEF ConnNext

\* A connection keeps the promise of Delivery: whatever the transport does and
\* however the steps of both peers interleave, the reader of a path receives
\* only what was sent, and its end only after all of it.
THEOREM PromiseIsKept == ConnSpec => Delivered
<1>1. ConnInit => Promise!Init
    <2> SUFFICES ASSUME ConnInit PROVE Promise!Init
        OBVIOUS
    <2>1. Origin \in Live
        BY WriterAssumption DEF ConnInit, OutInit, Live, NoWriter
    <2> QED BY <2>1 DEF ConnInit, OutInit, Promise!Init
<1>2. ConnInv /\ [ConnNext]_allVars => [Promise!Next]_(Promise!vars)
    BY DeliveryStep
<1> QED BY <1>1, <1>2, ConnectionHolds, PTL DEF ConnSpec, Delivered, Promise!Spec
=============================================================================
