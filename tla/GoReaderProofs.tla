--------------------------- MODULE GoReaderProofs ---------------------------
(***************************************************************************)
(* The Go frame reader, for every declaration, peer and application and    *)
(* any number of readers: its goroutine does not sleep through what it     *)
(* waits for, success means that everything received was read, and an end  *)
(* of stream is the true one.                                              *)
(***************************************************************************)
EXTENDS GoReader, PatternFacts

Pc == {"loop", "read", "route", "data", "send", "check", "stop", "close", "finish", "wait", "end", "over"}
Error == {"none", "ctx", "unprocessed", "protocol", "io"}
HandleRecord ==
    [st : {"free", "live", "left", "dropped"}, path : Node, sub : BOOLEAN, buf : BOOLEAN,
     last : BOOLEAN, late : BOOLEAN]
SubRecord == [st : {"none", "in", "out"}, ch : Nat, shut : BOOLEAN, dropped : BOOLEAN, taken : BOOLEAN]

\* The shape of the state.
HandleType == handle \in [Handle -> HandleRecord] /\ \A h \in Handle : handle[h].sub => handle[h].path \in Path
SubsType == subs \in [Path -> SubRecord] /\ outcome \in [Path -> {"none", "eof", "err"}]
CountType ==
    /\ DOMAIN count \subseteq Element /\ unclaimed \subseteq DOMAIN count
    /\ \A e \in DOMAIN count : count[e] \in Int
    /\ next \in [{Container(e) : e \in Element} -> Nat]
FlagType == {failed, done, drained, closing, asleep, over} \subseteq BOOLEAN
IoType ==
    /\ io.pc \in Pc /\ io.res \in Error /\ err \in Error
    /\ io = [pc |-> io.pc, path |-> io.path, n |-> io.n, res |-> io.res]
    /\ end \in {"open", "nil", "err"} /\ ctx \in {"live", "done", "told"}
TypeInv == HandleType /\ SubsType /\ CountType /\ FlagType /\ IoType

\* The goroutine sleeps in two places only.
Awake == (asleep => io.pc \in {"route", "wait"}) /\ NoLostWakeup

\* How the goroutine ends: with an error, which it publishes, or because the
\* peer ended the stream.
Ending ==
    /\ io.pc \in {"stop", "close"} => io.res # "none"
    /\ io.pc \notin {"stop", "close", "finish", "end", "over"} => io.res = "none"
    /\ io.pc \in {"close", "finish"} /\ io.res # "none" => err # "none"
    /\ io.pc \in {"finish", "wait", "end", "over"} \/ done => over \/ err # "none"
    /\ io.res = "ctx" \/ err = "ctx" => ctx # "live"
    /\ end = "nil" /\ ctx = "live" => io.pc = "over" /\ io.res = "none"
    /\ io.pc = "over" => end # "open"

\* A chunk that nobody will read is noticed, by who drops its channel or by the goroutine.
Busy == io.pc \in {"data", "send", "check"} => io.path \in Path /\ subs[io.path].st # "none"
Dropped ==
    \A p \in Path :
        /\ subs[p].st = "none" => subs[p].ch = 0
        /\ subs[p].st = "out" \/ (subs[p].st = "in" /\ drained) => subs[p].dropped
Noticed ==
    \A p \in Path :
        subs[p].dropped /\ subs[p].ch > 0 => failed \/ io.res # "none" \/ (io.pc = "check" /\ io.path = p)
Success == io.pc \in {"end", "over"} /\ io.res = "none" /\ ctx = "live"
Empty == Success => \A p \in Path : subs[p].ch = 0
Parts ==
    \A h \in Handle :
        /\ handle[h].buf => handle[h].sub
        /\ handle[h].st = "dropped" /\ handle[h].buf /\ ~handle[h].late =>
             failed /\ ~(io.pc = "end" /\ Success) /\ ~(end = "nil" /\ ctx = "live")
ReadInv == TypeInv /\ Ending /\ Busy /\ Dropped /\ Noticed /\ Empty /\ Parts

\* The readers of an element are counted, and what is released stays so.
Holds(h) == handle[h].st \in {"live", "left"}
Holders(e) == {h \in Handle : Holds(h) /\ e \in Elements[handle[h].path]}
Counted ==
    /\ \A e \in DOMAIN count : count[e] = Cardinality(Holders(e))
    /\ \A h \in Handle : Holds(h) => Elements[handle[h].path] \subseteq DOMAIN count
    /\ \A e \in unclaimed : count[e] = 0
    /\ \A e \in DOMAIN count : count[e] > 0 => Position(e) < next[Container(e)]
Lost == \A p \in Path : subs[p].st = "out" => \E e \in Elements[p] : Released(e)
Owned == \A h \in Handle : Holds(h) /\ handle[h].sub => subs[handle[h].path].st = "in"
Shut == \A p \in Path : subs[p].st = "in" /\ subs[p].shut => p \in closed \/ done
EofInv == Counted /\ Lost /\ Owned /\ Shut

-----------------------------------------------------------------------------
\* What a step does to a subscription: nothing that matters, creates it, removes
\* it, or drops its channel.
Kept(p) ==
    subs'[p].st = subs[p].st /\ subs'[p].ch = subs[p].ch /\ subs'[p].dropped = subs[p].dropped
New(p) == subs[p].st = "none" /\ subs'[p].st = "in" /\ subs'[p].ch = subs[p].ch /\ subs'[p].dropped = drained
Gone(p) == subs[p].st = "in" /\ subs'[p].st = "out" /\ subs'[p].ch = subs[p].ch /\ subs'[p].dropped
Drop(p) == subs'[p].st = subs[p].st /\ subs'[p].ch = subs[p].ch /\ subs'[p].dropped
Seen(p) == subs[p].ch > 0 => failed'

\* The root is a path, and its reader claims no element.
LEMMA RootFacts == <<>> \in Path /\ Elements[<<>>] = {}
<1>1. Matches(<<>>, <<>>)
    BY DEF Matches
<1>2. IsDeclared[<<>>]
    BY <1>1, NodeRoot DEF IsDeclared
<1> QED BY <1>2, NodeRoot DEF Path

LEMMA ElementInNode ==
    ASSUME NEW e \in Element
    PROVE  e \in Node /\ IsElement(e) /\ Position(e) \in Nat /\ Container(e) \in Node
BY ElementFacts DEF Element

LEMMA FailFacts ==
    ASSUME NEW b \in BOOLEAN, TypeInv, FailIf(b)
    PROVE  /\ failed' \in BOOLEAN /\ closing' \in BOOLEAN /\ err' \in Error
           /\ (failed \/ b) => failed'
           /\ err' = err \/ (err = "none" /\ err' = "unprocessed")
           /\ failed => closing' = closing
BY DEF FailIf, TypeInv, FlagType, IoType, Error

\* The unclaimed elements that IndexReader releases.
Skipped(path) ==
    {s \in unclaimed : \E e \in Elements[path] :
        /\ Container(s) = Container(e)
        /\ next[Container(e)] <= Position(s) /\ Position(s) < Position(e)}

LEMMA RemovedFacts ==
    ASSUME TypeInv, NEW es
    PROVE  /\ Removed(es) \in [Path -> SubRecord]
           /\ \A p \in Path \ PathsWithin(es) : Removed(es)[p] = subs[p]
           /\ \A p \in PathsWithin(es) :
                /\ subs[p].st = "in" /\ Removed(es)[p].st = "out" /\ Removed(es)[p].dropped
                /\ Removed(es)[p].ch = subs[p].ch /\ Removed(es)[p].shut = subs[p].shut
                /\ Removed(es)[p].taken = subs[p].taken
<1>1. subs \in [Path -> SubRecord]
    BY DEF TypeInv, SubsType
<1> QED BY <1>1 DEF Removed, PathsWithin, SubRecord

LEMMA SubscribeFacts ==
    ASSUME TypeInv, NEW ss \in [Path -> SubRecord], NEW path \in Path
    PROVE  /\ Subscribe(ss, path) \in [Path -> SubRecord]
           /\ \A p \in Path \ {path} : Subscribe(ss, path)[p] = ss[p]
           /\ ss[path].st # "none" => Subscribe(ss, path) = ss
           /\ LET new == Subscribe(ss, path)[path] IN
                /\ new.st # "none" /\ new.ch = ss[path].ch /\ new.taken = ss[path].taken
                /\ ss[path].st = "none" => new.st = "in" /\ new.shut = done /\ new.dropped = drained
<1>1. done \in BOOLEAN /\ drained \in BOOLEAN
    BY DEF TypeInv, FlagType
<1> QED BY <1>1 DEF Subscribe, SubRecord

LEMMA IndexSubs ==
    ASSUME TypeInv, NEW h \in Handle, NEW g \in Handle, NEW path \in AppPath, IndexReader(h, g, path)
    PROVE  /\ subs' \in [Path -> SubRecord]
           /\ \A p \in Path : Kept(p) \/ (New(p) /\ p = path)
                              \/ (Gone(p) /\ Seen(p) /\ p \in PathsWithin(Skipped(path)))
           /\ failed => failed'
<1> DEFINE rest == Removed(Skipped(path))
           b == Unread(PathsWithin(Skipped(path)))
<1>1. /\ FailIf(b)
      /\ subs' = IF IsDeclared[path] THEN [Subscribe(rest, path) EXCEPT ![path].taken = TRUE] ELSE rest
    BY DEF IndexReader, Skipped
<1>2. b \in BOOLEAN
    BY DEF Unread
<1>3. (failed \/ b) => failed'
    BY <1>1, <1>2, FailFacts
<1>4. \A p \in PathsWithin(Skipped(path)) : Seen(p)
    BY <1>3 DEF Unread, Seen
<1>5. /\ rest \in [Path -> SubRecord]
      /\ \A p \in Path \ PathsWithin(Skipped(path)) : rest[p] = subs[p]
      /\ \A p \in PathsWithin(Skipped(path)) :
           subs[p].st = "in" /\ rest[p].st = "out" /\ rest[p].dropped /\ rest[p].ch = subs[p].ch
    BY RemovedFacts
<1>6. path \in Node
    BY GoReaderAssumption
<1> HIDE DEF rest, b
<1>7. CASE ~IsDeclared[path]
    BY <1>1, <1>3, <1>4, <1>5, <1>7 DEF Kept, Gone
<1>8. CASE IsDeclared[path]
    <2>1. path \in Path
        BY <1>6, <1>8 DEF Path
    <2> DEFINE new == Subscribe(rest, path)
    <2>2. /\ new \in [Path -> SubRecord]
          /\ \A p \in Path \ {path} : new[p] = rest[p]
          /\ rest[path].st # "none" => new = rest
          /\ new[path].st # "none" /\ new[path].ch = rest[path].ch
          /\ rest[path].st = "none" => new[path].st = "in" /\ new[path].dropped = drained
        BY <1>5, <2>1, SubscribeFacts
    <2> HIDE DEF new
    <2>3. subs' = [new EXCEPT ![path].taken = TRUE]
        BY <1>1, <1>8 DEF new
    <2>4. /\ subs' \in [Path -> SubRecord]
          /\ \A p \in Path : subs'[p].st = new[p].st /\ subs'[p].ch = new[p].ch /\ subs'[p].dropped = new[p].dropped
        BY <2>1, <2>2, <2>3 DEF SubRecord
    <2>5. ASSUME NEW p \in Path, p # path
          PROVE  Kept(p) \/ (Gone(p) /\ Seen(p) /\ p \in PathsWithin(Skipped(path)))
        BY <1>4, <1>5, <2>2, <2>4, <2>5 DEF Kept, Gone
    <2>6. CASE rest[path].st = "none"
        <3>1. path \notin PathsWithin(Skipped(path)) /\ rest[path] = subs[path]
            BY <1>5, <2>1, <2>6
        <3>2. New(path)
            BY <2>1, <2>2, <2>4, <2>6, <3>1 DEF New
        <3> QED BY <1>3, <2>4, <2>5, <3>2
    <2>7. CASE rest[path].st # "none"
        <3>1. Kept(path) \/ (Gone(path) /\ Seen(path) /\ path \in PathsWithin(Skipped(path)))
            BY <1>4, <1>5, <2>1, <2>2, <2>4, <2>7 DEF Kept, Gone
        <3> QED BY <1>3, <2>4, <2>5, <3>1
    <2> QED BY <2>6, <2>7
<1> QED BY <1>7, <1>8

\* What Release(h) removes.
Zero(h) == {e \in Elements[handle[h].path] : Exists(e) /\ count[e] = 1}
Freed(h) == IF Zero(h) = {} THEN {} ELSE {Outermost(Zero(h))}

LEMMA ReleaseSubs ==
    ASSUME TypeInv, NEW h \in Handle, Release(h)
    PROVE  /\ subs' \in [Path -> SubRecord]
           /\ \A p \in Path : Kept(p) \/ (Drop(p) /\ Seen(p))
                              \/ (Gone(p) /\ Seen(p) /\ p \in PathsWithin(Freed(h)))
           /\ handle[h].last => \A p \in Path : subs'[p].st = "in" => subs'[p].dropped
           /\ failed => failed'
           /\ handle[h].sub /\ handle[h].buf => failed'
<1> DEFINE q == handle[h].path
           rest == Removed(Freed(h))
           b == \/ handle[h].sub /\ (handle[h].buf \/ subs[q].ch > 0)
                \/ Unread(PathsWithin(Freed(h)))
                \/ handle[h].last /\ \E p \in Path : subs[p].st = "in" /\ subs[p].ch > 0
           drop(p) == (p = q /\ handle[h].sub) \/ (handle[h].last /\ rest[p].st = "in")
<1>1. /\ FailIf(b)
      /\ subs' = [p \in Path |-> IF drop(p) THEN [rest[p] EXCEPT !.dropped = TRUE] ELSE rest[p]]
    BY DEF Release, Freed, Zero
<1>2. handle[h].sub \in BOOLEAN /\ handle[h].buf \in BOOLEAN /\ handle[h].last \in BOOLEAN
    BY DEF TypeInv, HandleType, HandleRecord
<1>3. b \in BOOLEAN
    BY <1>2 DEF Unread
<1>4. (failed \/ b) => failed'
    BY <1>1, <1>3, FailFacts
<1>5. /\ rest \in [Path -> SubRecord]
      /\ \A p \in Path \ PathsWithin(Freed(h)) : rest[p] = subs[p]
      /\ \A p \in PathsWithin(Freed(h)) :
           subs[p].st = "in" /\ rest[p].st = "out" /\ rest[p].dropped /\ rest[p].ch = subs[p].ch
    BY RemovedFacts
<1>6. \A p \in PathsWithin(Freed(h)) : Seen(p)
    BY <1>4 DEF Unread, Seen
<1>7. handle[h].sub /\ handle[h].buf => failed'
    BY <1>4
<1>8. ASSUME NEW p \in Path, drop(p), p \notin PathsWithin(Freed(h)) PROVE Seen(p)
    BY <1>4, <1>5, <1>8 DEF Seen
<1> HIDE DEF rest, b
<1>9. subs' \in [Path -> SubRecord]
    BY <1>1, <1>5 DEF SubRecord
<1>10. ASSUME NEW p \in Path
       PROVE  Kept(p) \/ (Drop(p) /\ Seen(p)) \/ (Gone(p) /\ Seen(p) /\ p \in PathsWithin(Freed(h)))
    <2>0. rest[p] \in SubRecord
        BY <1>5
    <2>1. subs'[p].st = rest[p].st /\ subs'[p].ch = rest[p].ch
        BY <1>1, <2>0 DEF SubRecord
    <2>2. IF drop(p) THEN subs'[p].dropped ELSE subs'[p] = rest[p]
        BY <1>1, <2>0 DEF SubRecord
    <2>3. CASE p \in PathsWithin(Freed(h))
        BY <1>5, <1>6, <2>1, <2>2, <2>3 DEF Gone
    <2>4. CASE p \notin PathsWithin(Freed(h)) /\ drop(p)
        BY <1>5, <1>8, <2>1, <2>2, <2>4 DEF Drop
    <2>5. CASE p \notin PathsWithin(Freed(h)) /\ ~drop(p)
        BY <1>5, <2>1, <2>2, <2>5 DEF Kept
    <2> QED BY <2>3, <2>4, <2>5
<1>11. ASSUME handle[h].last, NEW p \in Path, subs'[p].st = "in" PROVE subs'[p].dropped
    <2>0. rest[p] \in SubRecord
        BY <1>5
    <2>1. subs'[p].st = rest[p].st
        BY <1>1, <2>0 DEF SubRecord
    <2> QED BY <1>1, <1>11, <2>0, <2>1 DEF SubRecord
<1> QED BY <1>4, <1>7, <1>9, <1>10, <1>11

\* How the goroutine goes on after a frame was routed.
Stopped == \E e \in Error \ {"none"} : Stop(e) /\ (e = "ctx" => ctx # "live")
Looping == io' = [io EXCEPT !.pc = "loop"]
Receiving == io' = [io EXCEPT !.pc = "data"] /\ io.path \in Path /\ subs'[io.path].st # "none"

LEMMA AcceptFacts ==
    ASSUME TypeInv, NEW ss \in [Path -> SubRecord], io.path \in Path, ss[io.path].st # "none", Accept(ss)
    PROVE  /\ subs' \in [Path -> SubRecord]
           /\ \A p \in Path : subs'[p].st = ss[p].st /\ subs'[p].ch = ss[p].ch /\ subs'[p].dropped = ss[p].dropped
           /\ Stopped \/ Looping \/ Receiving
           /\ \/ subs' = ss /\ UNCHANGED closed
              \/ closed' = closed \cup {io.path} /\ \A p \in Path \ {io.path} : subs'[p] = ss[p]
<1>1. ErrDropped \in Error \ {"none", "ctx"}
    BY DEF ErrDropped, Error
<1>2. CASE io.path \in closed
    <2>1. Stop("protocol") /\ subs' = ss /\ UNCHANGED closed
        BY <1>2 DEF Accept
    <2>2. Stopped
        BY <2>1 DEF Stopped, Error
    <2> QED BY <2>1, <2>2
<1>3. CASE io.path \notin closed /\ io.n = 0
    <2>1. subs' = [ss EXCEPT ![io.path].shut = TRUE] /\ closed' = closed \cup {io.path} /\ Looping
        BY <1>3 DEF Accept, Looping
    <2>2. subs' \in [Path -> SubRecord] /\ \A p \in Path \ {io.path} : subs'[p] = ss[p]
        BY <2>1 DEF SubRecord
    <2>3. \A p \in Path : subs'[p].st = ss[p].st /\ subs'[p].ch = ss[p].ch /\ subs'[p].dropped = ss[p].dropped
        BY <2>1 DEF SubRecord
    <2> QED BY <2>1, <2>2, <2>3
<1>4. CASE io.path \notin closed /\ io.n # 0
    <2>1. /\ subs' = ss /\ UNCHANGED closed
          /\ IF ss[io.path].dropped THEN Stop(ErrDropped) ELSE io' = [io EXCEPT !.pc = "data"]
        BY <1>4 DEF Accept
    <2>2. Stopped \/ Receiving
        BY <1>1, <2>1 DEF Stopped, Receiving
    <2> QED BY <2>1, <2>2
<1> QED BY <1>2, <1>3, <1>4

\* The frame is routed to a subscription, refused, or waits.
Refused == Stopped /\ UNCHANGED <<subs, closed, count, unclaimed, asleep>>
Waits == /\ asleep' = TRUE /\ UNCHANGED <<subs, closed, count, unclaimed, io>>
         /\ ~failed /\ ~drained /\ ctx = "live" /\ ~InNest(io.path) /\ ~Room(io.path)
Found == InNest(io.path) /\ Accept(subs) /\ UNCHANGED <<count, unclaimed, asleep>>
Created ==
    /\ io.path \in Path /\ subs[io.path].st # "in" /\ \A e \in Elements[io.path] : ~Released(e)
    /\ count' = [e \in DOMAIN count \cup Missing(io.path) |-> IF Exists(e) THEN count[e] ELSE 0]
    /\ unclaimed' = unclaimed \cup Missing(io.path)
    /\ Accept(Subscribe(subs, io.path))
    /\ UNCHANGED asleep

LEMMA RouteCases ==
    ASSUME TypeInv, IngressRoute
    PROVE  Refused \/ Waits \/ Found \/ Created
<1> DEFINE p == io.path
           unknown == ~InNest(p) /\ (p \notin Path \/ (p \in Path /\ \E e \in Elements[p] : Released(e)))
<1>1. CASE InNest(p)
    <2>1. ~unknown
        BY <1>1
    <2> QED BY <1>1, <2>1 DEF IngressRoute, Found
<1>2. CASE unknown
    <2>1. Stop("protocol") /\ UNCHANGED <<subs, closed, count, unclaimed, asleep>>
        BY <1>2 DEF IngressRoute
    <2> QED BY <2>1 DEF Refused, Stopped, Error
<1>3. CASE ~InNest(p) /\ ~unknown
    <2>1. p \in Path /\ subs[p].st # "in" /\ \A e \in Elements[p] : ~Released(e)
        BY <1>3 DEF InNest
    <2>2. IF Room(p)
          THEN /\ count' = [e \in DOMAIN count \cup Missing(p) |-> IF Exists(e) THEN count[e] ELSE 0]
               /\ unclaimed' = unclaimed \cup Missing(p)
               /\ Accept(Subscribe(subs, p))
               /\ UNCHANGED asleep
          ELSE /\ UNCHANGED <<subs, closed, count, unclaimed>>
               /\ IF drained THEN Stop("protocol") /\ UNCHANGED asleep
                  ELSE IF failed THEN Stop("unprocessed") /\ UNCHANGED asleep
                  ELSE IF ctx # "live" THEN Stop("ctx") /\ UNCHANGED asleep
                  ELSE asleep' = TRUE /\ UNCHANGED io
        BY <1>3 DEF IngressRoute
    <2>3. CASE Room(p)
        BY <2>1, <2>2, <2>3 DEF Created
    <2>4. CASE ~Room(p)
        BY <1>3, <2>2, <2>4 DEF Refused, Waits, Stopped, Error
    <2> QED BY <2>3, <2>4
<1> QED BY <1>1, <1>2, <1>3

LEMMA RouteSubs ==
    ASSUME TypeInv, IngressRoute
    PROVE  /\ subs' \in [Path -> SubRecord]
           /\ \A p \in Path : Kept(p) \/ (New(p) /\ p = io.path)
           /\ Stopped \/ Looping \/ Receiving \/ Waits
           /\ asleep' # asleep => Waits
<1>0. subs \in [Path -> SubRecord]
    BY DEF TypeInv, SubsType
<1>1. CASE Refused
    BY <1>0, <1>1 DEF Refused, Kept
<1>2. CASE Waits
    BY <1>0, <1>2 DEF Waits, Kept
<1>3. CASE Found
    <2>1. io.path \in Path /\ subs[io.path].st # "none" /\ Accept(subs) /\ UNCHANGED asleep
        BY <1>3 DEF Found, InNest
    <2> QED BY <1>0, <2>1, AcceptFacts DEF Kept
<1>4. CASE Created
    <2> DEFINE ss == Subscribe(subs, io.path)
    <2>1. io.path \in Path /\ Accept(ss) /\ UNCHANGED asleep
        BY <1>4 DEF Created
    <2>2. /\ ss \in [Path -> SubRecord]
          /\ \A p \in Path \ {io.path} : ss[p] = subs[p]
          /\ subs[io.path].st # "none" => ss = subs
          /\ ss[io.path].st # "none" /\ ss[io.path].ch = subs[io.path].ch
          /\ subs[io.path].st = "none" => ss[io.path].st = "in" /\ ss[io.path].dropped = drained
        BY <1>0, <2>1, SubscribeFacts
    <2> HIDE DEF ss
    <2>3. /\ subs' \in [Path -> SubRecord]
          /\ \A p \in Path : subs'[p].st = ss[p].st /\ subs'[p].ch = ss[p].ch /\ subs'[p].dropped = ss[p].dropped
          /\ Stopped \/ Looping \/ Receiving
        BY <2>1, <2>2, AcceptFacts
    <2>4. ASSUME NEW p \in Path PROVE Kept(p) \/ (New(p) /\ p = io.path)
        BY <2>1, <2>2, <2>3 DEF Kept, New
    <2> QED BY <2>1, <2>3, <2>4
<1> QED BY <1>1, <1>2, <1>3, <1>4, RouteCases

-----------------------------------------------------------------------------
(* Types                                                                   *)

\* The steps that leave the readers, their elements and the failure alone.
IoStep == PeerStep \/ IngressBroken \/ IngressStep

LEMMA IoUnchanged ==
    ASSUME IoStep
    PROVE  UNCHANGED <<handle, readers, failed, closing, drained, ctx, next>>
BY DEF IoStep, PeerStep, IngressStep, IngressUnchanged, subVars, IngressFrame, IngressEnd, IngressData,
    IngressBroken, IngressLoop, IngressRoute, IngressSend, IngressCancel, IngressCheck, IngressStop,
    IngressClose, IngressFinish, IngressWait, IngressOver

LEMMA HandleTypeStep ==
    ASSUME TypeInv, Next
    PROVE  HandleType'
<1>0. /\ handle \in [Handle -> HandleRecord]
      /\ \A h \in Handle : handle[h].sub => handle[h].path \in Path
    BY DEF TypeInv, HandleType
<1>1. ASSUME NEW h \in Handle, NEW g \in Handle, NEW path \in AppPath, IndexReader(h, g, path)
      PROVE  HandleType'
    <2> DEFINE free == IsDeclared[path] /\ ~subs[path].taken
               new == [Free EXCEPT !.st = "live", !.path = path, !.sub = free]
    <2>1. handle' = [handle EXCEPT ![g] = new] /\ path \in Node
        BY <1>1, GoReaderAssumption DEF IndexReader
    <2>2. free \in BOOLEAN /\ (free => path \in Path)
        BY <2>1 DEF Path, IsDeclared
    <2> HIDE DEF free
    <2>3. new \in HandleRecord /\ new.path = path /\ new.sub = free
        BY <2>1, <2>2 DEF Free, HandleRecord
    <2> HIDE DEF new
    <2> QED BY <1>0, <2>1, <2>2, <2>3 DEF HandleType
<1>2. ASSUME NEW h \in Handle, ReadBuf(h) PROVE HandleType'
    BY <1>0, <1>2 DEF ReadBuf, HandleType, HandleRecord
<1>3. ASSUME NEW h \in Handle, NEW part \in BOOLEAN, ReadChunk(h, part) PROVE HandleType'
    BY <1>0, <1>3 DEF ReadChunk, HandleType, HandleRecord
<1>4. ASSUME NEW h \in Handle, Leave(h) PROVE HandleType'
    BY <1>0, <1>4 DEF Leave, HandleType, HandleRecord
<1>5. ASSUME NEW h \in Handle, Release(h) PROVE HandleType'
    <2> DEFINE late == end = "nil" \/ (io.pc = "end" /\ io.res = "none")
    <2>1. handle' = [handle EXCEPT ![h].st = "dropped", ![h].late = late]
        BY <1>5 DEF Release
    <2>2. late \in BOOLEAN
        OBVIOUS
    <2> HIDE DEF late
    <2> QED BY <1>0, <2>1, <2>2 DEF HandleType, HandleRecord
<1>6. ASSUME UNCHANGED handle PROVE HandleType'
    BY <1>0, <1>6 DEF HandleType
<1>7. ASSUME NEW h \in Handle, ReadClosed(h) PROVE UNCHANGED handle
    BY <1>7 DEF ReadClosed
<1>8. CASE FailClose \/ CtxDone \/ CtxTold
    BY <1>6, <1>8 DEF FailClose, CtxDone, CtxTold
<1>9. CASE IoStep
    BY <1>6, <1>9, IoUnchanged
<1> QED BY <1>1, <1>2, <1>3, <1>4, <1>5, <1>6, <1>7, <1>8, <1>9 DEF Next, HandleStep, IoStep

LEMMA SubsTypeStep ==
    ASSUME TypeInv, Busy, Next
    PROVE  SubsType'
<1>0. /\ subs \in [Path -> SubRecord] /\ outcome \in [Path -> {"none", "eof", "err"}]
      /\ \A h \in Handle : handle[h].sub => handle[h].path \in Path
    BY DEF TypeInv, SubsType, HandleType
<1>1. ASSUME NEW h \in Handle, NEW g \in Handle, NEW path \in AppPath, IndexReader(h, g, path)
      PROVE  SubsType'
    <2>1. UNCHANGED outcome
        BY <1>1 DEF IndexReader, history
    <2> QED BY <1>0, <1>1, <2>1, IndexSubs DEF SubsType
<1>2. ASSUME NEW h \in Handle, Release(h) PROVE SubsType'
    <2>1. UNCHANGED outcome
        BY <1>2 DEF Release, history
    <2> QED BY <1>0, <1>2, <2>1, ReleaseSubs DEF SubsType
<1>3. ASSUME NEW h \in Handle, NEW part \in BOOLEAN, ReadChunk(h, part) PROVE SubsType'
    BY <1>0, <1>3 DEF ReadChunk, SubsType, SubRecord, history
<1>4. ASSUME NEW h \in Handle, ReadClosed(h) PROVE SubsType'
    BY <1>0, <1>4 DEF ReadClosed, SubsType, ClosedErr, subVars
<1>5. CASE IngressRoute
    <2>1. UNCHANGED outcome
        BY <1>5 DEF IngressRoute, history
    <2> QED BY <1>0, <1>5, <2>1, RouteSubs DEF SubsType
<1>6. CASE IngressSend
    <2>1. io.path \in Path
        BY <1>6 DEF IngressSend, Busy
    <2> QED BY <1>0, <1>6, <2>1 DEF IngressSend, SubsType, SubRecord, history
<1>7. CASE IngressFinish
    BY <1>0, <1>7 DEF IngressFinish, SubsType, SubRecord, history
<1>8. ASSUME UNCHANGED <<subs, outcome>> PROVE SubsType'
    BY <1>0, <1>8 DEF SubsType
<1>9. CASE PeerStep \/ IngressBroken
    BY <1>8, <1>9 DEF PeerStep, IngressFrame, IngressEnd, IngressData, IngressBroken, subVars, history
<1>10. CASE IngressLoop \/ IngressCancel \/ IngressCheck \/ IngressStop \/ IngressClose \/ IngressWait \/ IngressOver
    BY <1>8, <1>10
    DEF IngressLoop, IngressCancel, IngressCheck, IngressStop, IngressClose, IngressWait, IngressOver, subVars, history
<1>11. CASE FailClose \/ CtxDone \/ CtxTold
    BY <1>8, <1>11 DEF FailClose, CtxDone, CtxTold, subVars, history
<1>12. ASSUME NEW h \in Handle, ReadBuf(h) \/ Leave(h) PROVE SubsType'
    BY <1>8, <1>12 DEF ReadBuf, Leave, subVars, history
<1> QED
    BY <1>1, <1>2, <1>3, <1>4, <1>5, <1>6, <1>7, <1>9, <1>10, <1>11, <1>12 DEF Next, HandleStep, IngressStep

LEMMA CountTypeStep ==
    ASSUME TypeInv, Next
    PROVE  CountType'
<1>0. /\ DOMAIN count \subseteq Element /\ unclaimed \subseteq DOMAIN count
      /\ \A e \in DOMAIN count : count[e] \in Int
      /\ next \in [{Container(e) : e \in Element} -> Nat]
    BY DEF TypeInv, CountType
<1>1. ASSUME NEW h \in Handle, NEW g \in Handle, NEW path \in AppPath, IndexReader(h, g, path)
      PROVE  CountType'
    <2> DEFINE es == Elements[path]
               skip == Skipped(path)
               kept == {e \in DOMAIN count : ~Within(e, skip)}
               here(c) == {Position(e) + 1 : e \in {e \in es : Container(e) = c}}
    <2>1. path \in Node /\ es \subseteq Element /\ \A e \in es : Position(e) \in Nat
        BY GoReaderAssumption, ElementFacts DEF Element
    <2>2. /\ count' = [e \in kept \cup es |-> (IF e \in kept THEN count[e] ELSE 0) + (IF e \in es THEN 1 ELSE 0)]
          /\ unclaimed' = {e \in unclaimed : ~Within(e, skip)} \ es
          /\ next' = [c \in DOMAIN next |->
                        IF here(c) # {} /\ next[c] < CHOOSE n \in here(c) : TRUE
                        THEN CHOOSE n \in here(c) : TRUE ELSE RemovedNext(skip)[c]]
        BY <1>1 DEF IndexReader, Skipped
    <2>3. \A c \in DOMAIN next : here(c) # {} => (CHOOSE n \in here(c) : TRUE) \in Nat
        <3>1. \A c : here(c) \subseteq Nat
            BY <2>1
        <3> QED BY <3>1
    <2>4. \A c \in DOMAIN next : RemovedNext(skip)[c] \in Nat
        BY <1>0 DEF RemovedNext
    <2>5. kept \subseteq DOMAIN count
        OBVIOUS
    <2> HIDE DEF es, skip, here
    <2>6. next' \in [{Container(e) : e \in Element} -> Nat]
        BY <1>0, <2>2, <2>3, <2>4
    <2>7. unclaimed' \subseteq DOMAIN count'
        BY <1>0, <2>2
    <2> HIDE DEF kept
    <2>8. DOMAIN count' \subseteq Element /\ \A e \in DOMAIN count' : count'[e] \in Int
        BY <1>0, <2>1, <2>2, <2>5
    <2> QED BY <2>6, <2>7, <2>8 DEF CountType
<1>2. ASSUME NEW h \in Handle, Release(h) PROVE CountType'
    <2> DEFINE es == Elements[handle[h].path]
    <2>1. /\ count' = [e \in {e \in DOMAIN count : ~Within(e, Freed(h))} |->
                         IF e \in es THEN count[e] - 1 ELSE count[e]]
          /\ unclaimed' = {e \in unclaimed : ~Within(e, Freed(h))}
          /\ next' = RemovedNext(Freed(h))
        BY <1>2 DEF Release, Freed, Zero
    <2> QED BY <1>0, <2>1 DEF CountType, RemovedNext
<1>5. CASE IngressRoute
    <2>1. UNCHANGED next
        BY <1>5 DEF IngressRoute
    <2>2. CASE UNCHANGED <<count, unclaimed>>
        BY <1>0, <2>1, <2>2 DEF CountType
    <2>3. CASE Created
        <3> DEFINE m == Missing(io.path)
        <3>1. /\ count' = [e \in DOMAIN count \cup m |-> IF Exists(e) THEN count[e] ELSE 0]
              /\ unclaimed' = unclaimed \cup m
            BY <2>3 DEF Created
        <3>2. m \subseteq Element
            BY <2>3 DEF Created, Missing, Element, Path
        <3> HIDE DEF m
        <3> QED BY <1>0, <2>1, <3>1, <3>2 DEF CountType, Exists
    <2> QED BY <1>5, <2>2, <2>3, RouteCases DEF Refused, Waits, Found
<1>8. ASSUME UNCHANGED <<count, unclaimed, next>> PROVE CountType'
    BY <1>0, <1>8 DEF CountType
<1>9. CASE PeerStep \/ IngressBroken
    BY <1>8, <1>9 DEF PeerStep, IngressFrame, IngressEnd, IngressData, IngressBroken, subVars
<1>10. CASE IngressLoop \/ IngressCancel \/ IngressCheck \/ IngressStop \/ IngressClose \/ IngressWait \/ IngressOver
            \/ IngressSend \/ IngressFinish
    BY <1>8, <1>10
    DEF IngressLoop, IngressCancel, IngressCheck, IngressStop, IngressClose, IngressWait, IngressOver, subVars,
        IngressSend, IngressFinish
<1>11. CASE FailClose \/ CtxDone \/ CtxTold
    BY <1>8, <1>11 DEF FailClose, CtxDone, CtxTold, subVars
<1>12. ASSUME NEW h \in Handle, ReadBuf(h) \/ ReadClosed(h) \/ Leave(h) PROVE CountType'
    BY <1>8, <1>12 DEF ReadBuf, ReadClosed, Leave, subVars
<1>13. ASSUME NEW h \in Handle, NEW part \in BOOLEAN, ReadChunk(h, part) PROVE CountType'
    BY <1>8, <1>13 DEF ReadChunk
<1> QED
    BY <1>1, <1>2, <1>5, <1>9, <1>10, <1>11, <1>12, <1>13 DEF Next, HandleStep, IngressStep

\* What Index and Release do to the failure.
Claims(h) == \/ \E g \in Handle, path \in AppPath : IndexReader(h, g, path)
             \/ Release(h)

LEMMA ClaimFacts ==
    ASSUME TypeInv, NEW h \in Handle, Claims(h)
    PROVE  /\ failed' \in BOOLEAN /\ closing' \in BOOLEAN /\ err' \in Error /\ drained' \in BOOLEAN
           /\ failed => failed'
           /\ err' = err \/ (err = "none" /\ err' = "unprocessed")
           /\ asleep' = FALSE
           /\ UNCHANGED <<done, end, io, ctx, over, outcome>>
<1>0. FlagType /\ IoType /\ handle[h].last \in BOOLEAN
    BY DEF TypeInv, HandleType, HandleRecord
<1>1. CASE Release(h)
    <2> DEFINE q == handle[h].path
               b == \/ handle[h].sub /\ (handle[h].buf \/ subs[q].ch > 0)
                    \/ Unread(PathsWithin(Freed(h)))
                    \/ handle[h].last /\ \E p \in Path : subs[p].st = "in" /\ subs[p].ch > 0
    <2>1. FailIf(b)
        BY <1>1 DEF Release, Freed, Zero
    <2>2. b \in BOOLEAN
        BY DEF TypeInv, HandleType, HandleRecord
    <2> HIDE DEF b
    <2>3. drained' = (drained \/ handle[h].last) /\ asleep' = FALSE /\ UNCHANGED <<done, end, io, ctx, over, outcome>>
        BY <1>1 DEF Release, Broadcast, history
    <2> QED BY <1>0, <2>1, <2>2, <2>3, FailFacts DEF FlagType
<1>2. ASSUME NEW g \in Handle, NEW path \in AppPath, IndexReader(h, g, path)
      PROVE  /\ FailIf(Unread(PathsWithin(Skipped(path)))) /\ asleep' = FALSE
             /\ UNCHANGED <<drained, done, end, io, ctx, over, outcome>>
    BY <1>2 DEF IndexReader, Skipped, Broadcast, history
<1>3. ASSUME NEW path PROVE Unread(PathsWithin(Skipped(path))) \in BOOLEAN
    BY DEF Unread
<1>4. CASE \E g \in Handle, path \in AppPath : IndexReader(h, g, path)
    <2>1. PICK g \in Handle, path \in AppPath : IndexReader(h, g, path)
        BY <1>4
    <2>2. FailIf(Unread(PathsWithin(Skipped(path)))) /\ asleep' = FALSE
          /\ UNCHANGED <<drained, done, end, io, ctx, over, outcome>>
        BY <1>2, <2>1
    <2> QED BY <1>0, <1>3, <2>2, FailFacts DEF FlagType
<1> QED BY <1>1, <1>4 DEF Claims

\* A reader that only reads or leaves.
Reads(h) == ReadBuf(h) \/ (\E part \in BOOLEAN : ReadChunk(h, part)) \/ ReadClosed(h) \/ Leave(h)

LEMMA ReadFacts ==
    ASSUME TypeInv, NEW h \in Handle, Reads(h)
    PROVE  UNCHANGED <<failed, err, closing, closed, count, unclaimed, next, done, drained, end, io, asleep, ctx, over>>
BY DEF Reads, ReadBuf, ReadChunk, ReadClosed, Leave, subVars, failVars, history

LEMMA HandleCases ==
    ASSUME NEW h \in Handle, HandleStep(h)
    PROVE  Claims(h) \/ Reads(h)
BY DEF HandleStep, Claims, Reads

LEMMA FlagTypeStep ==
    ASSUME TypeInv, Next
    PROVE  FlagType'
<1>0. {failed, done, drained, closing, asleep, over} \subseteq BOOLEAN
    BY DEF TypeInv, FlagType
<1>1. ASSUME NEW h \in Handle, Claims(h) PROVE FlagType'
    BY <1>0, <1>1, ClaimFacts DEF FlagType
<1>2. ASSUME NEW h \in Handle, Reads(h) PROVE FlagType'
    BY <1>0, <1>2, ReadFacts DEF FlagType
<1>3. CASE FailClose \/ CtxDone \/ CtxTold
    BY <1>0, <1>3 DEF FailClose, CtxDone, CtxTold, FlagType, failVars, history
<1>4. CASE IngressRoute
    <2>1. asleep' \in BOOLEAN /\ UNCHANGED <<done, over>>
        BY <1>0, <1>4, RouteSubs DEF IngressRoute, Waits, history
    <2>2. UNCHANGED <<failed, drained, closing>>
        BY <1>4, IoUnchanged DEF IoStep, IngressStep
    <2> QED BY <1>0, <2>1, <2>2 DEF FlagType
<1>5. CASE IoStep /\ ~IngressRoute
    <2>1. asleep' \in BOOLEAN /\ done' \in BOOLEAN /\ over' \in BOOLEAN
        BY <1>0, <1>5
        DEF IoStep, PeerStep, IngressStep, IngressFrame, IngressEnd, IngressData, IngressBroken, IngressLoop,
            IngressSend, IngressCancel, IngressCheck, IngressStop, IngressClose, IngressFinish, IngressWait,
            IngressOver, history
    <2>2. UNCHANGED <<failed, drained, closing>>
        BY <1>5, IoUnchanged
    <2> QED BY <1>0, <2>1, <2>2 DEF FlagType
<1> QED BY <1>1, <1>2, <1>3, <1>4, <1>5, HandleCases DEF Next, IoStep, IngressStep

\* The goroutine goes to one of the places of Pc, and ends as it should.
LEMMA IoStepEnding ==
    ASSUME TypeInv, Ending, IoStep
    PROVE  IoType' /\ Ending'
<1>0. /\ io.pc \in Pc /\ io.res \in Error /\ err \in Error
      /\ io = [pc |-> io.pc, path |-> io.path, n |-> io.n, res |-> io.res]
      /\ end \in {"open", "nil", "err"} /\ ctx \in {"live", "done", "told"}
      /\ failed \in BOOLEAN /\ done \in BOOLEAN /\ over \in BOOLEAN
    BY DEF TypeInv, IoType, FlagType
<1>1. UNCHANGED <<failed, drained, ctx>>
    BY IoUnchanged
<1>2. CASE IngressRoute
    <2>1. io.pc = "route" /\ UNCHANGED <<err, done, end, over>>
        BY <1>2 DEF IngressRoute, history
    <2>2. Stopped \/ Looping \/ Receiving \/ UNCHANGED io
        BY <1>2, RouteSubs DEF Waits
    <2> QED BY <1>0, <1>1, <2>1, <2>2 DEF Stopped, Stop, Looping, Receiving, IoType, Ending, Pc, Error
<1>3. CASE IngressLoop
    BY <1>0, <1>1, <1>3 DEF IngressLoop, Stop, IoType, Ending, Pc, Error, history
<1>4. ASSUME NEW path, NEW n, IngressFrame(path, n) PROVE IoType' /\ Ending'
    BY <1>0, <1>1, <1>4 DEF IngressFrame, IoType, Ending, Pc, Error, history
<1>5. CASE IngressEnd
    BY <1>0, <1>1, <1>5 DEF IngressEnd, IoType, Ending, Pc, Error, history
<1>6. CASE IngressBroken
    BY <1>0, <1>1, <1>6 DEF IngressBroken, Stop, IoType, Ending, Pc, Error, history
<1>7. CASE IngressData
    BY <1>0, <1>1, <1>7 DEF IngressData, IoType, Ending, Pc, Error, history
<1>8. CASE IngressSend
    BY <1>0, <1>1, <1>8 DEF IngressSend, IoType, Ending, Pc, Error, history
<1>9. CASE IngressCancel
    BY <1>0, <1>1, <1>9 DEF IngressCancel, Stop, ErrDropped, IoType, Ending, Pc, Error, history
<1>10. CASE IngressCheck
    BY <1>0, <1>1, <1>10 DEF IngressCheck, Stop, ErrDropped, IoType, Ending, Pc, Error, history
<1>11. CASE IngressStop
    BY <1>0, <1>1, <1>11 DEF IngressStop, IoType, Ending, Pc, Error, history
<1>12. CASE IngressClose
    BY <1>0, <1>1, <1>12 DEF IngressClose, CloseReader, IoType, Ending, Pc, Error, history
<1>13. CASE IngressFinish
    BY <1>0, <1>1, <1>13 DEF IngressFinish, IoType, Ending, Pc, Error, history
<1>14. CASE IngressWait
    BY <1>0, <1>1, <1>14 DEF IngressWait, IoType, Ending, Pc, Error, history
<1>15. CASE IngressOver
    BY <1>0, <1>1, <1>15 DEF IngressOver, CloseReader, IoType, Ending, Pc, Error, history
<1> QED
    BY <1>2, <1>3, <1>4, <1>5, <1>6, <1>7, <1>8, <1>9, <1>10, <1>11, <1>12, <1>13, <1>14, <1>15
    DEF IoStep, PeerStep, IngressStep

LEMMA EndingStep ==
    ASSUME TypeInv, Ending, Next
    PROVE  IoType' /\ Ending'
<1>0. /\ io.pc \in Pc /\ io.res \in Error /\ err \in Error
      /\ io = [pc |-> io.pc, path |-> io.path, n |-> io.n, res |-> io.res]
      /\ end \in {"open", "nil", "err"} /\ ctx \in {"live", "done", "told"}
    BY DEF TypeInv, IoType
<1>1. ASSUME NEW h \in Handle, Claims(h) PROVE IoType' /\ Ending'
    BY <1>0, <1>1, ClaimFacts DEF IoType, Ending
<1>2. ASSUME NEW h \in Handle, Reads(h) PROVE IoType' /\ Ending'
    BY <1>0, <1>2, ReadFacts DEF IoType, Ending
<1>3. CASE FailClose \/ CtxDone \/ CtxTold
    BY <1>0, <1>3 DEF FailClose, CloseReader, CtxDone, CtxTold, IoType, Ending, failVars, history
<1>4. CASE IoStep
    BY <1>4, IoStepEnding
<1> QED BY <1>1, <1>2, <1>3, <1>4, HandleCases DEF Next, IoStep

-----------------------------------------------------------------------------
(* Waking up                                                               *)

LEMMA AwakeStep ==
    ASSUME TypeInv, Awake, Next
    PROVE  Awake'
<1>0. /\ asleep \in BOOLEAN /\ asleep => io.pc \in {"route", "wait"} /\ ~failed /\ ~drained /\ ctx # "told"
      /\ asleep /\ io.pc = "route" => ~InNest(io.path) /\ ~Room(io.path)
    BY DEF TypeInv, FlagType, Awake, NoLostWakeup
<1>1. ASSUME ~asleep' PROVE Awake'
    BY <1>1 DEF Awake, NoLostWakeup
<1>2. ASSUME UNCHANGED <<io, failed, drained, count, unclaimed, asleep>>, ctx' # "told" \/ UNCHANGED ctx,
             \A p \in Path : subs'[p].st = subs[p].st
      PROVE  Awake'
    <2>1. Room(io.path)' = Room(io.path)
        BY <1>2 DEF Room, Missing, Exists
    <2>2. InNest(io.path)' = InNest(io.path)
        BY <1>2 DEF InNest
    <2> QED BY <1>0, <1>2, <2>1, <2>2 DEF Awake, NoLostWakeup
<1>3. ASSUME NEW h \in Handle, Claims(h) PROVE Awake'
    BY <1>1, <1>3, ClaimFacts
<1>4. ASSUME NEW h \in Handle, Reads(h) PROVE Awake'
    <2>1. subs \in [Path -> SubRecord] /\ (handle[h].sub => handle[h].path \in Path)
        BY DEF TypeInv, SubsType, HandleType
    <2>2. \A p \in Path : subs'[p].st = subs[p].st
        BY <1>4, <2>1 DEF Reads, ReadBuf, ReadChunk, ReadClosed, Leave, SubRecord, subVars
    <2> QED BY <1>2, <1>4, <2>2, ReadFacts
<1>5. CASE FailClose \/ CtxDone
    BY <1>2, <1>5 DEF FailClose, CtxDone, subVars, failVars
<1>6. CASE CtxTold
    BY <1>1, <1>6 DEF CtxTold
<1>7. CASE IoStep /\ asleep
    <2>1. ~IngressRoute /\ ~IngressWait
        BY <1>7 DEF IngressRoute, IngressWait
    <2> QED
        BY <1>0, <1>7, <2>1
        DEF IoStep, PeerStep, IngressStep, IngressFrame, IngressEnd, IngressData, IngressBroken, IngressLoop,
            IngressSend, IngressCancel, IngressCheck, IngressStop, IngressClose, IngressFinish, IngressOver
<1>8. CASE IngressRoute
    <2>1. CASE Waits
        <3>1. Room(io.path)' = Room(io.path) /\ InNest(io.path)' = InNest(io.path)
            <4>1. UNCHANGED <<io, subs, count, unclaimed, drained>>
                BY <1>8, <2>1, IoUnchanged DEF Waits, IoStep, IngressStep
            <4> QED BY <4>1 DEF Room, Missing, Exists, InNest
        <3>2. UNCHANGED <<io, failed, drained, ctx>> /\ io.pc = "route"
            BY <1>8, <2>1, IoUnchanged DEF Waits, IngressRoute, IoStep, IngressStep
        <3> QED BY <2>1, <3>1, <3>2 DEF Waits, Awake, NoLostWakeup
    <2>2. CASE ~Waits
        <3>1. asleep' = asleep /\ ~asleep
            BY <1>8, <2>2, RouteSubs DEF IngressRoute
        <3> QED BY <1>1, <3>1
    <2> QED BY <2>1, <2>2
<1>9. CASE IngressWait
    BY <1>0, <1>9 DEF IngressWait, IngressUnchanged, Awake, NoLostWakeup
<1>10. CASE IoStep /\ ~asleep /\ ~IngressRoute /\ ~IngressWait
    <2>1. ~asleep'
        BY <1>10
        DEF IoStep, PeerStep, IngressStep, IngressFrame, IngressEnd, IngressData, IngressBroken, IngressLoop,
            IngressSend, IngressCancel, IngressCheck, IngressStop, IngressClose, IngressFinish, IngressOver
    <2> QED BY <1>1, <2>1
<1> QED BY <1>3, <1>4, <1>5, <1>6, <1>7, <1>8, <1>9, <1>10, HandleCases DEF Next, IoStep

-----------------------------------------------------------------------------
(* Success                                                                 *)

\* A step that takes nothing out of a channel but what its reader reads, and
\* drops no channel with something in it, unnoticed.
LEMMA SubsStep ==
    ASSUME ReadInv, SubsType', UNCHANGED <<io, ctx>>, failed => failed',
           \A p \in Path : Kept(p) \/ New(p) \/ ((Drop(p) \/ Gone(p)) /\ Seen(p)),
           drained' => drained \/ \A p \in Path : subs'[p].st = "in" => subs'[p].dropped,
           drained => drained'
    PROVE  Busy' /\ Dropped' /\ Noticed' /\ Empty'
<1>0. TypeInv /\ Busy /\ Dropped /\ Noticed /\ Empty /\ drained \in BOOLEAN
    BY DEF ReadInv, TypeInv, FlagType
<1>1. Busy'
    BY <1>0 DEF Busy, Kept, New, Drop, Gone
<1>2. \A p \in Path : subs'[p].ch = subs[p].ch
    BY DEF Kept, New, Drop, Gone
<1>3. Empty'
    BY <1>0, <1>2 DEF Empty, Success
<1>4. ASSUME NEW p \in Path
      PROVE  /\ subs'[p].st = "none" => subs'[p].ch = 0
             /\ subs'[p].st = "out" \/ (subs'[p].st = "in" /\ drained') => subs'[p].dropped
    BY <1>0 DEF Dropped, Kept, New, Drop, Gone
<1>5. ASSUME NEW p \in Path, subs'[p].dropped, subs'[p].ch > 0
      PROVE  failed' \/ io'.res # "none" \/ (io'.pc = "check" /\ io'.path = p)
    BY <1>0, <1>2, <1>5 DEF Dropped, Noticed, Kept, New, Drop, Gone, Seen
<1> QED BY <1>1, <1>3, <1>4, <1>5 DEF Dropped, Noticed

\* A step of the goroutine that leaves the channels alone.
LEMMA IoOnly ==
    ASSUME ReadInv, UNCHANGED <<subs, failed, drained, ctx>>, io.pc # "check",
           io.res # "none" => io'.res # "none", Success' => Success, Busy'
    PROVE  Busy' /\ Dropped' /\ Noticed' /\ Empty'
<1>0. Dropped /\ Noticed /\ Empty
    BY DEF ReadInv
<1>1. Dropped' /\ Empty'
    BY <1>0 DEF Dropped, Empty
<1>2. Noticed'
    BY <1>0 DEF Noticed
<1> QED BY <1>1, <1>2

LEMMA IoStepRead ==
    ASSUME ReadInv, IoStep
    PROVE  Busy' /\ Dropped' /\ Noticed' /\ Empty'
<1>0. /\ TypeInv /\ Ending /\ Busy /\ Dropped /\ Noticed /\ Empty
      /\ subs \in [Path -> SubRecord] /\ failed \in BOOLEAN /\ drained \in BOOLEAN
      /\ io.pc \in Pc /\ io = [pc |-> io.pc, path |-> io.path, n |-> io.n, res |-> io.res]
    BY DEF ReadInv, TypeInv, IoType, FlagType, SubsType
<1>1. UNCHANGED <<failed, drained, ctx>>
    BY IoUnchanged
<1>2. CASE IngressRoute
    <2>1. /\ subs' \in [Path -> SubRecord]
          /\ \A p \in Path : Kept(p) \/ (New(p) /\ p = io.path)
          /\ Stopped \/ Looping \/ Receiving \/ UNCHANGED io
          /\ io.pc = "route" /\ io.res = "none"
        BY <1>0, <1>2, RouteSubs DEF IngressRoute, Waits, Ending
    <2>2. io'.pc \in {"stop", "loop", "data", "route"} /\ io'.path = io.path
        BY <1>0, <2>1 DEF Stopped, Stop, Looping, Receiving
    <2>3. Busy'
        BY <1>0, <2>1, <2>2 DEF Stopped, Stop, Looping, Receiving, Busy
    <2>4. Empty'
        BY <2>2 DEF Empty, Success
    <2>5. ASSUME NEW p \in Path
          PROVE  /\ subs'[p].st = "none" => subs'[p].ch = 0
                 /\ subs'[p].st = "out" \/ (subs'[p].st = "in" /\ drained') => subs'[p].dropped
                 /\ subs'[p].dropped /\ subs'[p].ch > 0 => failed'
        BY <1>0, <1>1, <2>1 DEF Dropped, Noticed, Kept, New
    <2> QED BY <2>3, <2>4, <2>5 DEF Dropped, Noticed
<1>3. CASE IngressSend
    <2>1. /\ io.pc = "send" /\ io.path \in Path /\ subs[io.path].st # "none" /\ io.res = "none"
          /\ subs' = [subs EXCEPT ![io.path].ch = @ + 1]
          /\ io'.pc = "check" /\ io'.path = io.path /\ io'.res = "none"
        BY <1>0, <1>3 DEF IngressSend, Busy, Ending
    <2>2. \A p \in Path : subs'[p].st = subs[p].st /\ subs'[p].dropped = subs[p].dropped
                          /\ (p # io.path => subs'[p].ch = subs[p].ch)
        BY <1>0, <2>1 DEF SubRecord
    <2>3. Busy' /\ Empty'
        BY <2>1, <2>2 DEF Busy, Empty, Success
    <2>4. Dropped'
        BY <1>0, <1>1, <2>1, <2>2 DEF Dropped
    <2>5. Noticed'
        BY <1>0, <1>1, <2>1, <2>2 DEF Noticed
    <2> QED BY <2>3, <2>4, <2>5
<1>4. CASE IngressCheck
    <2>1. /\ UNCHANGED subs /\ io.pc = "check" /\ io.path \in Path /\ subs[io.path].st # "none" /\ io.res = "none"
          /\ io'.path = io.path
          /\ IF LostData THEN io'.pc = "stop" /\ io'.res # "none" ELSE io'.pc \in {"loop", "data"} /\ io'.res = "none"
        BY <1>0, <1>4 DEF IngressCheck, Stop, ErrDropped, subVars, Busy, Ending
    <2>2. Busy' /\ Empty' /\ Dropped'
        BY <1>0, <1>1, <2>1 DEF Busy, Empty, Success, Dropped
    <2>3. Noticed'
        BY <1>0, <1>1, <2>1 DEF Noticed, LostData
    <2> QED BY <2>2, <2>3
<1>5. CASE IngressFinish
    <2>1. /\ \A p \in Path : Kept(p)
          /\ io'.pc \in {"wait", "end"} /\ (io'.pc = "end" => io'.res # "none")
          /\ io.pc = "finish" /\ (io.res # "none" => io'.res # "none")
        BY <1>0, <1>5 DEF IngressFinish, Kept, SubRecord
    <2>2. Busy' /\ Empty' /\ Dropped'
        BY <1>0, <1>1, <2>1 DEF Busy, Empty, Success, Dropped, Kept
    <2>3. Noticed'
        BY <1>0, <1>1, <2>1 DEF Noticed, Kept
    <2> QED BY <2>2, <2>3
<1>6. CASE IngressWait
    <2>1. io.pc = "wait" /\ io.res = "none" /\ UNCHANGED subs
        BY <1>0, <1>6 DEF IngressWait, subVars, Ending
    <2>2. CASE drained \/ failed \/ ctx # "live"
        <3>1. io'.pc = "end" /\ io'.path = io.path /\ io'.res = IF failed THEN "unprocessed" ELSE "none"
            BY <1>0, <1>6, <2>2 DEF IngressWait
        <3>2. Busy' /\ Dropped'
            BY <1>0, <1>1, <2>1, <3>1 DEF Busy, Dropped
        <3>3. Noticed'
            BY <1>0, <1>1, <2>1, <3>1 DEF Noticed
        <3>4. ASSUME Success', NEW p \in Path PROVE subs'[p].ch = 0
            <4>1. ~failed /\ drained
                BY <1>1, <2>2, <3>1, <3>4 DEF Success
            <4>2. subs[p].st \in {"none", "in", "out"} /\ subs[p].ch \in Nat
                BY <1>0 DEF SubRecord
            <4> QED BY <1>0, <2>1, <4>1, <4>2 DEF Dropped, Noticed
        <3> QED BY <3>2, <3>3, <3>4 DEF Empty
    <2>3. CASE ~(drained \/ failed \/ ctx # "live")
        <3>1. UNCHANGED io
            BY <1>6, <2>3 DEF IngressWait
        <3> QED BY <1>0, <1>1, <2>1, <3>1, IoOnly DEF Success, Busy
    <2> QED BY <2>2, <2>3
<1>7. ASSUME NEW path, NEW n, IngressFrame(path, n) PROVE Busy' /\ Dropped' /\ Noticed' /\ Empty'
    BY <1>0, <1>1, <1>7, IoOnly DEF IngressFrame, Busy, Success, subVars
<1>8. CASE IngressEnd \/ IngressData
    BY <1>0, <1>1, <1>8, IoOnly DEF IngressEnd, IngressData, Busy, Success, subVars
<1>9. CASE IngressBroken \/ IngressLoop
    BY <1>0, <1>1, <1>9, IoOnly DEF IngressBroken, IngressLoop, Stop, Busy, Success, subVars
<1>10. CASE IngressCancel
    <2>1. io.pc = "send" /\ io'.pc = "stop" /\ io'.res # "none" /\ UNCHANGED subs
        BY <1>0, <1>10 DEF IngressCancel, Stop, ErrDropped, subVars
    <2> QED BY <1>0, <1>1, <2>1, IoOnly DEF Busy, Success
<1>11. CASE IngressStop
    BY <1>0, <1>1, <1>11, IoOnly DEF IngressStop, Busy, Success, subVars, Ending
<1>12. CASE IngressClose \/ IngressOver
    BY <1>0, <1>1, <1>12, IoOnly DEF IngressClose, IngressOver, Busy, Success, subVars
<1> QED
    BY <1>2, <1>3, <1>4, <1>5, <1>6, <1>7, <1>8, <1>9, <1>10, <1>11, <1>12
    DEF IoStep, PeerStep, IngressStep

LEMMA ReadStep ==
    ASSUME ReadInv, SubsType', Next
    PROVE  Busy' /\ Dropped' /\ Noticed' /\ Empty'
<1>0. /\ TypeInv /\ Busy /\ Dropped /\ Noticed /\ Empty
      /\ subs \in [Path -> SubRecord] /\ drained \in BOOLEAN
    BY DEF ReadInv, TypeInv, FlagType, SubsType
<1>1. ASSUME NEW h \in Handle, NEW g \in Handle, NEW path \in AppPath, IndexReader(h, g, path)
      PROVE  Busy' /\ Dropped' /\ Noticed' /\ Empty'
    <2>1. UNCHANGED <<io, ctx, drained>>
        BY <1>1 DEF IndexReader
    <2> QED BY <1>0, <1>1, <2>1, IndexSubs, SubsStep
<1>2. ASSUME NEW h \in Handle, Release(h) PROVE Busy' /\ Dropped' /\ Noticed' /\ Empty'
    <2>1. UNCHANGED <<io, ctx>> /\ drained' = (drained \/ handle[h].last)
        BY <1>2 DEF Release
    <2> QED BY <1>0, <1>2, <2>1, ReleaseSubs, SubsStep
<1>3. ASSUME NEW h \in Handle, NEW part \in BOOLEAN, ReadChunk(h, part)
      PROVE  Busy' /\ Dropped' /\ Noticed' /\ Empty'
    <2>1. UNCHANGED <<io, ctx, drained, failed>>
        BY <1>3 DEF ReadChunk, failVars
    <2>2. handle[h].path \in Path /\ subs[handle[h].path].ch > 0
        BY <1>0, <1>3 DEF ReadChunk, TypeInv, HandleType
    <2>3. \A p \in Path : /\ subs'[p].st = subs[p].st /\ subs'[p].dropped = subs[p].dropped
                          /\ subs'[p].ch \in Nat /\ subs'[p].ch <= subs[p].ch /\ subs[p].ch \in Nat
        BY <1>0, <1>3, <2>2 DEF ReadChunk, SubRecord
    <2>4. Busy' /\ Dropped'
        BY <1>0, <2>1, <2>3 DEF Busy, Dropped
    <2>5. Empty'
        BY <1>0, <2>1, <2>3 DEF Empty, Success
    <2>6. Noticed'
        BY <1>0, <2>1, <2>3 DEF Noticed
    <2> QED BY <2>4, <2>5, <2>6
<1>4. ASSUME UNCHANGED <<io, failed, drained, subs>>, ctx' = "live" => ctx = "live"
      PROVE  Busy' /\ Dropped' /\ Noticed' /\ Empty'
    <2>1. Busy' /\ Dropped' /\ Noticed'
        BY <1>0, <1>4 DEF Busy, Dropped, Noticed
    <2>2. Empty'
        BY <1>0, <1>4 DEF Empty, Success
    <2> QED BY <2>1, <2>2
<1>5. ASSUME NEW h \in Handle, ReadBuf(h) \/ ReadClosed(h) \/ Leave(h)
      PROVE  Busy' /\ Dropped' /\ Noticed' /\ Empty'
    BY <1>4, <1>5 DEF ReadBuf, ReadClosed, Leave, subVars, failVars
<1>6. CASE FailClose \/ CtxDone \/ CtxTold
    BY <1>4, <1>6 DEF FailClose, CtxDone, CtxTold, subVars, failVars
<1>7. CASE IoStep
    BY <1>7, IoStepRead
<1> QED BY <1>1, <1>2, <1>3, <1>5, <1>6, <1>7 DEF Next, HandleStep, IoStep

\* A reader that was dropped with part of a chunk has failed the goroutine,
\* which then does not succeed.
Part(h) == handle[h].st = "dropped" /\ handle[h].buf /\ ~handle[h].late
Failing == failed /\ ~(io.pc = "end" /\ Success) /\ ~(end = "nil" /\ ctx = "live")

LEMMA FailingStep ==
    ASSUME TypeInv, Ending, Failing, Next
    PROVE  Failing'
<1>0. /\ failed /\ ~(io.pc = "end" /\ Success) /\ ~(end = "nil" /\ ctx = "live")
      /\ io.pc \in Pc /\ io = [pc |-> io.pc, path |-> io.path, n |-> io.n, res |-> io.res]
      /\ ctx \in {"live", "done", "told"}
    BY DEF Failing, TypeInv, IoType
<1>1. ASSUME NEW h \in Handle, Claims(h) PROVE Failing'
    BY <1>0, <1>1, ClaimFacts DEF Failing, Success
<1>2. ASSUME NEW h \in Handle, Reads(h) PROVE Failing'
    BY <1>0, <1>2, ReadFacts DEF Failing, Success
<1>3. CASE FailClose \/ CtxDone \/ CtxTold
    BY <1>0, <1>3 DEF FailClose, CloseReader, CtxDone, CtxTold, failVars, Failing, Success
<1>4. CASE IoStep
    <2>1. UNCHANGED <<failed, drained, ctx>>
        BY <1>4, IoUnchanged
    <2>2. CASE IngressRoute
        <3>1. UNCHANGED end /\ io'.pc \in {"stop", "loop", "data", "route"}
            BY <1>0, <2>2, RouteSubs DEF IngressRoute, Stopped, Stop, Looping, Receiving, Waits
        <3> QED BY <1>0, <2>1, <3>1 DEF Failing, Success
    <2>3. CASE IngressFinish \/ IngressWait
        BY <1>0, <2>1, <2>3 DEF IngressFinish, IngressWait, Failing, Success
    <2>4. CASE IngressClose \/ IngressOver
        BY <1>0, <2>1, <2>4 DEF IngressClose, IngressOver, CloseReader, Failing, Success, Ending
    <2>5. CASE PeerStep \/ IngressBroken \/ IngressLoop \/ IngressSend \/ IngressCancel \/ IngressCheck \/ IngressStop
        <3>1. UNCHANGED end
            BY <2>5 DEF PeerStep, IngressFrame, IngressEnd, IngressData, IngressBroken, IngressLoop, IngressSend,
                IngressCancel, IngressCheck, IngressStop
        <3>2. io'.pc \notin {"end", "over"}
            BY <1>0, <2>5 DEF PeerStep, IngressFrame, IngressEnd, IngressData, IngressBroken, IngressLoop, IngressSend,
                IngressCancel, IngressCheck, IngressStop, Stop
        <3> QED BY <1>0, <2>1, <3>1, <3>2 DEF Failing, Success
    <2> QED BY <1>4, <2>2, <2>3, <2>4, <2>5 DEF IoStep, IngressStep
<1> QED BY <1>1, <1>2, <1>3, <1>4, HandleCases DEF Next, IoStep

LEMMA PartsStep ==
    ASSUME ReadInv, Next
    PROVE  Parts'
<1>0. /\ TypeInv /\ Ending /\ handle \in [Handle -> HandleRecord]
      /\ \A h \in Handle : (handle[h].buf => handle[h].sub) /\ (Part(h) => Failing)
    BY DEF ReadInv, TypeInv, HandleType, Parts, Part, Failing
<1>1. Failing => Failing'
    BY <1>0, FailingStep
<1> SUFFICES ASSUME NEW k \in Handle
             PROVE  (handle'[k].buf => handle'[k].sub) /\ (Part(k)' => Failing')
    BY DEF Parts, Part, Failing
<1>2. ASSUME handle'[k].buf = handle[k].buf, handle'[k].sub = handle[k].sub, Part(k)' => Part(k)
      PROVE  (handle'[k].buf => handle'[k].sub) /\ (Part(k)' => Failing')
    BY <1>0, <1>1, <1>2
<1>3. ASSUME NEW h \in Handle, NEW g \in Handle, NEW path \in AppPath, IndexReader(h, g, path)
      PROVE  (handle'[k].buf => handle'[k].sub) /\ (Part(k)' => Failing')
    <2>1. PICK free : handle' = [handle EXCEPT ![g] = [Free EXCEPT !.st = "live", !.path = path, !.sub = free]]
        BY <1>3 DEF IndexReader
    <2> QED BY <1>0, <1>2, <2>1 DEF Part, Free
<1>4. ASSUME NEW h \in Handle, ReadBuf(h)
      PROVE  (handle'[k].buf => handle'[k].sub) /\ (Part(k)' => Failing')
    BY <1>0, <1>2, <1>4 DEF ReadBuf, Part, HandleRecord, Live
<1>5. ASSUME NEW h \in Handle, NEW part \in BOOLEAN, ReadChunk(h, part)
      PROVE  (handle'[k].buf => handle'[k].sub) /\ (Part(k)' => Failing')
    BY <1>0, <1>2, <1>5 DEF ReadChunk, Part, HandleRecord, Live
<1>6. ASSUME NEW h \in Handle, Leave(h)
      PROVE  (handle'[k].buf => handle'[k].sub) /\ (Part(k)' => Failing')
    BY <1>0, <1>2, <1>6 DEF Leave, Part, HandleRecord
<1>7. ASSUME NEW h \in Handle, Release(h)
      PROVE  (handle'[k].buf => handle'[k].sub) /\ (Part(k)' => Failing')
    <2>1. CASE k # h
        BY <1>0, <1>2, <1>7, <2>1 DEF Release, Part, HandleRecord
    <2>2. CASE k = h
        <3> DEFINE late == end = "nil" \/ (io.pc = "end" /\ io.res = "none")
        <3>1. handle' = [handle EXCEPT ![h].st = "dropped", ![h].late = late] /\ UNCHANGED <<end, io, ctx>>
            BY <1>7 DEF Release
        <3>2. handle'[k].buf = handle[k].buf /\ handle'[k].sub = handle[k].sub /\ handle'[k].late = late
            BY <1>0, <2>2, <3>1 DEF HandleRecord
        <3>3. handle[h].sub /\ handle[h].buf => failed'
            BY <1>0, <1>7, ReleaseSubs
        <3> QED BY <1>0, <2>2, <3>1, <3>2, <3>3 DEF Part, Failing, Success
    <2> QED BY <2>1, <2>2
<1>8. ASSUME UNCHANGED handle PROVE (handle'[k].buf => handle'[k].sub) /\ (Part(k)' => Failing')
    BY <1>2, <1>8 DEF Part
<1>9. ASSUME NEW h \in Handle, ReadClosed(h) PROVE UNCHANGED handle
    BY <1>9 DEF ReadClosed
<1>10. CASE FailClose \/ CtxDone \/ CtxTold
    BY <1>8, <1>10 DEF FailClose, CtxDone, CtxTold
<1>11. CASE IoStep
    BY <1>8, <1>11, IoUnchanged
<1> QED BY <1>3, <1>4, <1>5, <1>6, <1>7, <1>8, <1>9, <1>10, <1>11 DEF Next, HandleStep, IoStep

LEMMA InitRead == Init => ReadInv /\ Awake
<1> SUFFICES ASSUME Init PROVE ReadInv /\ Awake
    OBVIOUS
<1>1. HandleType
    <2>1. Free \in HandleRecord /\ ~Free.sub
        BY RootFacts DEF Free, HandleRecord, Path
    <2>2. [Free EXCEPT !.st = "live", !.sub = TRUE] \in HandleRecord
          /\ [Free EXCEPT !.st = "live", !.sub = TRUE].path = <<>>
        BY RootFacts DEF Free, HandleRecord, Path
    <2> QED BY <2>1, <2>2, RootFacts DEF Init, HandleType
<1>2. SubsType /\ \A p \in Path : subs[p].ch = 0 /\ subs[p].st # "out"
    BY DEF Init, SubsType, SubRecord, NoSub
<1>3. CountType /\ FlagType /\ IoType
    BY DEF Init, CountType, FlagType, IoType, Pc, Error
<1>4. Ending /\ Awake /\ Busy
    BY DEF Init, Ending, Awake, NoLostWakeup, Busy
<1>5. Dropped /\ Noticed /\ Empty
    <2>1. ~drained
        BY DEF Init
    <2> QED BY <1>2, <2>1 DEF Dropped, Noticed, Empty
<1>6. Parts
    BY DEF Init, Parts, Free
<1> QED BY <1>1, <1>2, <1>3, <1>4, <1>5, <1>6 DEF ReadInv, TypeInv

LEMMA NextRead == ReadInv /\ Awake /\ [Next]_vars => (ReadInv /\ Awake)'
<1>1. ASSUME ReadInv, Awake, Next PROVE (ReadInv /\ Awake)'
    <2>0. TypeInv /\ Ending /\ Busy
        BY <1>1 DEF ReadInv
    <2>1. TypeInv' /\ Ending'
        BY <1>1, <2>0, HandleTypeStep, SubsTypeStep, CountTypeStep, FlagTypeStep, EndingStep DEF TypeInv
    <2>2. Busy' /\ Dropped' /\ Noticed' /\ Empty'
        BY <1>1, <2>1, ReadStep DEF TypeInv
    <2>3. Parts' /\ Awake'
        BY <1>1, <2>0, PartsStep, AwakeStep
    <2> QED BY <2>1, <2>2, <2>3 DEF ReadInv
<1>2. ASSUME ReadInv, Awake, UNCHANGED vars PROVE (ReadInv /\ Awake)'
    BY <1>2
    DEF vars, subVars, failVars, history, ReadInv, TypeInv, HandleType, SubsType, CountType, FlagType, IoType,
        Ending, Busy, Dropped, Noticed, Empty, Success, Parts, Awake, NoLostWakeup, InNest, Room, Missing, Exists
<1> QED BY <1>1, <1>2

\* The goroutine never sleeps through what it waits for: a failure, the drop of
\* the last reader, the end of the context or room for an element.  Every step
\* that brings one of them about broadcasts, and it decides to sleep under the
\* mutex.
THEOREM GoWakeups == Spec => []NoLostWakeup
<1>1. Awake => NoLostWakeup
    BY DEF Awake
<1> QED BY <1>1, InitRead, NextRead, PTL DEF Spec

\* The transport is closed without error, the context being live, only if all
\* that was received was read, readers being dropped with the last one aside.
THEOREM GoSuccessMeansRead == Spec => []OkMeansRead
<1>1. ReadInv => OkMeansRead
    BY DEF ReadInv, Ending, Empty, Success, Parts, OkMeansRead
<1> QED BY <1>1, InitRead, NextRead, PTL DEF Spec

-----------------------------------------------------------------------------
(* The end of a stream                                                     *)

\* The readers of an element: a set that grows by a reader that is created, and
\* shrinks by one that is released.
LEMMA HoldersFinite ==
    ASSUME NEW e
    PROVE  IsFiniteSet(Holders(e)) /\ Cardinality(Holders(e)) \in Nat
<1>1. Holders(e) \subseteq Handle
    BY DEF Holders
<1> QED BY <1>1, GoReaderAssumption, FS_Subset, FS_CardinalityType

\* Nobody is within an element without readers.
LEMMA NobodyWithin ==
    ASSUME TypeInv, Counted, NEW s \in DOMAIN count, NEW k \in Handle, Holds(k),
           NEW e \in Elements[handle[k].path], StartsWith(e, s)
    PROVE  k \in Holders(s) /\ count[s] > 0 /\ Holders(s) # {}
<1>1. s \in Node /\ IsElement(s) /\ handle[k].path \in Node
    BY ElementInNode DEF TypeInv, CountType, HandleType, HandleRecord
<1>2. s \in Elements[handle[k].path]
    BY <1>1, ElementTrans
<1>3. k \in Holders(s)
    BY <1>2 DEF Holders
<1>4. Cardinality(Holders(s)) \in Nat /\ Cardinality(Holders(s)) # 0
    BY <1>3, HoldersFinite, FS_EmptySet
<1> QED BY <1>3, <1>4 DEF Counted

\* What is around the container of an element is around the element.
LEMMA AroundContainer ==
    ASSUME NEW e \in Node, IsElement(e)
    PROVE  /\ Len(Container(e)) = Len(e) - 1 /\ Len(e) \in Nat /\ Len(e) > 0
           /\ \A s \in Node : StartsWith(Container(e), s) => StartsWith(e, s)
<1>1. e \in Seq(Nat) /\ Len(e) \in Nat /\ Len(e) > 0
    BY NodeSeq, ElementSelf
<1>2. /\ Container(e) \in Node /\ Len(Container(e)) = Len(e) - 1
      /\ \A i \in 1..(Len(e) - 1) : Container(e)[i] = e[i]
    <2>0. Len(e) - 1 \in 0..Len(e)
        BY <1>1
    <2>1. PICK k \in 0..Len(e) : k = Len(e) - 1
        BY <2>0
    <2>2. Container(e) = SubSeq(e, 1, k)
        BY <2>1 DEF Container
    <2>3. SubSeq(e, 1, k) \in Node /\ Len(SubSeq(e, 1, k)) = k /\ \A i \in 1..k : SubSeq(e, 1, k)[i] = e[i]
        BY NodePrefix
    <2> QED BY <2>1, <2>2, <2>3
<1>3. Container(e) \in Seq(Nat)
    BY <1>2, NodeSeq
<1>4. ASSUME NEW s \in Node, StartsWith(Container(e), s) PROVE StartsWith(e, s)
    <2>1. s \in Seq(Nat) /\ Len(s) \in Nat /\ Len(s) <= Len(e) - 1 /\ s = SubSeq(Container(e), 1, Len(s))
        BY <1>2, <1>4, NodeSeq DEF StartsWith
    <2>2. SubSeq(e, 1, Len(s)) = SubSeq(Container(e), 1, Len(s))
        BY <1>1, <1>2, <1>3, <2>1
    <2>3. SubSeq(e, 1, Len(s)) = s
        BY <2>1, <2>2, Zenon
    <2>4. Len(s) <= Len(e)
        BY <1>1, <2>1
    <2> QED BY <2>3, <2>4 DEF StartsWith
<1> QED BY <1>1, <1>2, <1>4

\* The path that is indexed is not within an element that is skipped, nor is a
\* container of one of its elements.
LEMMA NotSkipped ==
    ASSUME TypeInv, NEW path \in Node
    PROVE  /\ ~Within(path, Skipped(path))
           /\ \A e \in Elements[path] : ~Within(Container(e), Skipped(path))
<1>1. ASSUME NEW s \in Skipped(path) PROVE ~StartsWith(path, s)
    <2>1. PICK e \in Elements[path] : Container(s) = Container(e) /\ Position(s) < Position(e)
        BY <1>1 DEF Skipped
    <2>2. s \in Node /\ IsElement(s) /\ Position(s) \in Nat
        BY <1>1, ElementInNode DEF Skipped, TypeInv, CountType
    <2>3. /\ e \in Node /\ Len(e) \in 1..Len(path) /\ e = SubSeq(path, 1, Len(e)) /\ Position(e) \in Nat
          /\ path \in Seq(Nat) /\ s \in Seq(Nat) /\ e \in Seq(Nat)
        BY <2>2, ElementFacts, NodeSeq
    <2>4. Len(s) > 0
        BY <2>2, ElementSelf
    <2>5. Len(Container(s)) = Len(s) - 1 /\ Len(Container(e)) = Len(e) - 1 /\ Len(s) \in Nat /\ Len(e) \in Nat
        BY <2>2, <2>3, AroundContainer, ElementFacts
    <2>6. Len(s) = Len(e)
        BY <2>1, <2>5
    <2>7. StartsWith(path, s) => s = e
        BY <2>3, <2>6 DEF StartsWith
    <2> QED BY <2>1, <2>2, <2>3, <2>7
<1>2. ASSUME NEW e \in Elements[path], NEW s \in Skipped(path), StartsWith(Container(e), s) PROVE FALSE
    <2>1. e \in Node /\ IsElement(e)
        BY ElementFacts
    <2>2. s \in Node /\ IsElement(s)
        BY ElementInNode DEF Skipped, TypeInv, CountType
    <2>3. StartsWith(e, s)
        BY <1>2, <2>1, <2>2, AroundContainer
    <2>4. s \in Elements[path]
        BY <2>2, <2>3, ElementTrans
    <2>5. Len(s) <= Len(path) /\ s = SubSeq(path, 1, Len(s))
        BY <2>4, ElementFacts, NodeSeq
    <2>6. StartsWith(path, s)
        BY <2>5 DEF StartsWith
    <2> QED BY <1>1, <2>6
<1> QED BY <1>1, <1>2 DEF Within

\* What is removed stays so if `next` of no container of an element that is not
\* there goes down, but for those within an element that is removed.
LEMMA LostStep ==
    ASSUME TypeInv, Lost, CountType', NEW es, es \subseteq DOMAIN count,
           \A p \in Path : subs'[p].st = "out" =>
                subs[p].st = "out" \/ p \in PathsWithin(es),
           \A e \in DOMAIN count' : e \in DOMAIN count \/ ~Released(e),
           \A e \in es : e \notin DOMAIN count' /\ Position(e) < next'[Container(e)],
           \A c \in DOMAIN next : next'[c] >= next[c] \/ Within(c, es)
    PROVE  Lost'
<1> SUFFICES ASSUME NEW p \in Path, subs'[p].st = "out" PROVE \E e \in Elements[p] : Released(e)'
    BY DEF Lost
<1>0. p \in Node /\ es \subseteq Element /\ \A e \in Element : Container(e) \in DOMAIN next
    BY DEF Path, TypeInv, CountType
<1>1. ASSUME NEW e \in es, e \in Elements[p] PROVE \E f \in Elements[p] : Released(f)'
    BY <1>1 DEF Released, Exists
<1>2. CASE p \in PathsWithin(es)
    <2>1. PICK e \in es : StartsWith(p, e)
        BY <1>2 DEF PathsWithin, Within
    <2>2. e \in Elements[p]
        BY <1>0, <2>1, ElementInNode, ElementOfPath
    <2> QED BY <1>1, <2>2
<1>3. CASE subs[p].st = "out"
    <2>1. PICK e \in Elements[p] : Released(e)
        BY <1>3 DEF Lost
    <2>2. e \in Element /\ e \in Node /\ IsElement(e) /\ Position(e) \in Nat /\ Len(e) \in 1..Len(p)
        BY <1>0, ElementFacts DEF Element
    <2>3. e \notin DOMAIN count' /\ Position(e) < next[Container(e)]
        BY <2>1 DEF Released, Exists
    <2>4. next[Container(e)] \in Nat /\ next'[Container(e)] \in Nat
        BY <2>2 DEF TypeInv, CountType
    <2>5. CASE next'[Container(e)] >= next[Container(e)]
        <3>1. Released(e)'
            BY <2>2, <2>3, <2>4, <2>5 DEF Released, Exists
        <3> QED BY <3>1
    <2>6. CASE Within(Container(e), es)
        <3>1. PICK f \in es : StartsWith(Container(e), f)
            BY <2>6 DEF Within
        <3>2. f \in Node /\ IsElement(f)
            BY <1>0, ElementInNode
        <3>5. StartsWith(e, f)
            BY <2>2, <3>1, <3>2, AroundContainer
        <3>6. f \in Elements[p]
            BY <1>0, <3>2, <3>5, ElementTrans
        <3> QED BY <1>1, <3>6
    <2> QED BY <1>0, <2>2, <2>5, <2>6
<1> QED BY <1>2, <1>3

\* A step that claims and releases nothing.
LEMMA EofQuiet ==
    ASSUME TypeInv, EofInv, UNCHANGED <<count, unclaimed, next, closed>>,
           \A k \in Handle : /\ Holds(k)' = Holds(k) /\ handle'[k].path = handle[k].path
                             /\ handle'[k].sub = handle[k].sub,
           \A p \in Path : subs'[p].st = subs[p].st,
           done' \/ (~done /\ \A p \in Path : subs'[p].shut = subs[p].shut)
    PROVE  EofInv'
<1>1. \A e : Holders(e)' = Holders(e)
    BY DEF Holders
<1>2. Counted'
    BY <1>1 DEF EofInv, Counted
<1>3. Lost'
    BY DEF EofInv, Lost, Released, Exists
<1>4. Owned'
    BY DEF EofInv, Owned, TypeInv, HandleType
<1>5. Shut'
    BY DEF EofInv, Shut
<1> QED BY <1>2, <1>3, <1>4, <1>5 DEF EofInv

LEMMA IndexShut ==
    ASSUME TypeInv, NEW h \in Handle, NEW g \in Handle, NEW path \in AppPath, IndexReader(h, g, path)
    PROVE  /\ \A p \in PathsWithin(Skipped(path)) : subs'[p].st = "out"
           /\ \A p \in Path : subs[p].st # "none" => subs'[p].shut = subs[p].shut
           /\ \A p \in Path : subs[p].st = "none" => subs'[p].st = "none" \/ subs'[p].shut = done
           /\ IsDeclared[path] => subs'[path].st # "none"
<1> DEFINE rest == Removed(Skipped(path))
<1>1. subs' = IF IsDeclared[path] THEN [Subscribe(rest, path) EXCEPT ![path].taken = TRUE] ELSE rest
    BY DEF IndexReader, Skipped
<1>2. /\ rest \in [Path -> SubRecord]
      /\ \A p \in Path \ PathsWithin(Skipped(path)) : rest[p] = subs[p]
      /\ \A p \in PathsWithin(Skipped(path)) : subs[p].st = "in" /\ rest[p].st = "out" /\ rest[p].shut = subs[p].shut
      /\ PathsWithin(Skipped(path)) \subseteq Path
    BY RemovedFacts DEF PathsWithin
<1>3. path \in Node
    BY GoReaderAssumption
<1> HIDE DEF rest
<1>4. CASE ~IsDeclared[path]
    BY <1>1, <1>2, <1>4
<1>5. CASE IsDeclared[path]
    <2>1. path \in Path
        BY <1>3, <1>5 DEF Path
    <2> DEFINE new == Subscribe(rest, path)
    <2>2. /\ new \in [Path -> SubRecord]
          /\ \A p \in Path \ {path} : new[p] = rest[p]
          /\ rest[path].st # "none" => new = rest
          /\ new[path].st # "none"
          /\ rest[path].st = "none" => new[path].shut = done
        BY <1>2, <2>1, SubscribeFacts
    <2> HIDE DEF new
    <2>3. subs' = [new EXCEPT ![path].taken = TRUE]
        BY <1>1, <1>5 DEF new
    <2>4. \A p \in Path : subs'[p].st = new[p].st /\ subs'[p].shut = new[p].shut
        BY <2>1, <2>2, <2>3 DEF SubRecord
    <2>5. ASSUME NEW p \in Path
          PROVE  /\ p \in PathsWithin(Skipped(path)) => subs'[p].st = "out"
                 /\ subs[p].st # "none" => subs'[p].shut = subs[p].shut
                 /\ subs[p].st = "none" => subs'[p].st = "none" \/ subs'[p].shut = done
        <3>1. CASE p # path
            BY <1>2, <2>2, <2>4, <3>1
        <3>2. CASE p = path /\ rest[path].st = "none"
            BY <1>2, <2>2, <2>4, <3>2
        <3>3. CASE p = path /\ rest[path].st # "none"
            BY <1>2, <2>2, <2>4, <3>3
        <3> QED BY <3>1, <3>2, <3>3
    <2> QED BY <1>2, <2>1, <2>2, <2>4, <2>5
<1> QED BY <1>4, <1>5

LEMMA PositionOf ==
    ASSUME NEW path \in Node, NEW e \in Elements[path], NEW f \in Elements[path], Container(e) = Container(f)
    PROVE  e = f
<1>1. /\ e \in Node /\ IsElement(e) /\ e = SubSeq(path, 1, Len(e))
      /\ f \in Node /\ IsElement(f) /\ f = SubSeq(path, 1, Len(f))
    BY ElementFacts
<1>2. Len(Container(e)) = Len(e) - 1 /\ Len(Container(f)) = Len(f) - 1 /\ Len(e) \in Nat /\ Len(f) \in Nat
    BY <1>1, AroundContainer
<1>3. Len(e) = Len(f)
    BY <1>2
<1> QED BY <1>1, <1>3

\* `next` of a container after the path was indexed.
LEMMA IndexNext ==
    ASSUME TypeInv, NEW h \in Handle, NEW g \in Handle, NEW path \in AppPath, IndexReader(h, g, path)
    PROVE  /\ \A e \in Elements[path] : next'[Container(e)] > Position(e)
           /\ \A c \in DOMAIN next : next'[c] >= next[c] \/ Within(c, Skipped(path))
<1> DEFINE es == Elements[path]
           skip == Skipped(path)
           here(c) == {Position(e) + 1 : e \in {e \in es : Container(e) = c}}
<1>0. path \in Node /\ next \in [{Container(e) : e \in Element} -> Nat]
    BY GoReaderAssumption DEF TypeInv, CountType
<1>1. next' = [c \in DOMAIN next |->
                 IF here(c) # {} /\ next[c] < CHOOSE n \in here(c) : TRUE
                 THEN CHOOSE n \in here(c) : TRUE ELSE RemovedNext(skip)[c]]
    BY DEF IndexReader, Skipped
<1>2. \A c \in DOMAIN next : RemovedNext(skip)[c] = IF Within(c, skip) THEN 0 ELSE next[c]
    BY DEF RemovedNext
<1>3. ASSUME NEW e \in es
      PROVE  /\ here(Container(e)) = {Position(e) + 1} /\ Position(e) \in Nat
             /\ Container(e) \in DOMAIN next /\ ~Within(Container(e), skip)
    <2>1. \A f \in es : Container(f) = Container(e) => f = e
        BY <1>0, PositionOf
    <2>2. Position(e) \in Nat /\ e \in Element
        BY <1>0, ElementFacts DEF Element
    <2> QED BY <1>0, <2>1, <2>2, NotSkipped
<1> HIDE DEF skip
<1>4. ASSUME NEW e \in es PROVE next'[Container(e)] > Position(e)
    <2> DEFINE c == Container(e)
    <2>1. here(c) # {} /\ (CHOOSE n \in here(c) : TRUE) = Position(e) + 1 /\ c \in DOMAIN next
        BY <1>3
    <2>2. next[c] \in Nat /\ Position(e) \in Nat
        BY <1>0, <1>3, <2>1
    <2> HIDE DEF here, c
    <2>3. next'[c] = IF next[c] < Position(e) + 1 THEN Position(e) + 1 ELSE next[c]
        BY <1>1, <1>2, <1>3, <2>1 DEF c
    <2> QED BY <2>2, <2>3 DEF c
<1>5. ASSUME NEW c \in DOMAIN next PROVE next'[c] >= next[c] \/ Within(c, skip)
    <2>1. next[c] \in Nat /\ here(c) \subseteq Nat
        BY <1>0, <1>3
    <2> DEFINE m == CHOOSE n \in here(c) : TRUE
    <2>2. here(c) # {} => m \in Nat
        BY <2>1
    <2>3. next'[c] = IF here(c) # {} /\ next[c] < m THEN m ELSE RemovedNext(skip)[c]
        BY <1>1
    <2> HIDE DEF here, m
    <2> QED BY <1>2, <2>1, <2>2, <2>3
<1> QED BY <1>4, <1>5 DEF skip

LEMMA IndexEof ==
    ASSUME TypeInv, TypeInv', EofInv,
           NEW h \in Handle, NEW g \in Handle, NEW path \in AppPath, IndexReader(h, g, path)
    PROVE  EofInv'
<1> DEFINE es == Elements[path]
           skip == Skipped(path)
           kept == {e \in DOMAIN count : ~Within(e, skip)}
           free == IsDeclared[path] /\ ~subs[path].taken
<1>0. /\ Counted /\ Lost /\ Owned /\ Shut /\ path \in Node
      /\ handle \in [Handle -> HandleRecord] /\ \A k \in Handle : handle[k].sub => handle[k].path \in Path
      /\ DOMAIN count \subseteq Element /\ unclaimed \subseteq DOMAIN count
      /\ \A e \in DOMAIN count : count[e] \in Int
    BY GoReaderAssumption DEF EofInv, TypeInv, HandleType, CountType
<1>1. /\ handle[g].st = "free" /\ \A e \in es : ~Released(e)
      /\ handle' = [handle EXCEPT ![g] = [Free EXCEPT !.st = "live", !.path = path, !.sub = free]]
      /\ count' = [e \in kept \cup es |-> (IF e \in kept THEN count[e] ELSE 0) + (IF e \in es THEN 1 ELSE 0)]
      /\ unclaimed' = {e \in unclaimed : ~Within(e, skip)} \ es
      /\ closed' = closed \ PathsWithin(skip)
      /\ UNCHANGED done
    BY DEF IndexReader, Skipped, CanClaim
<1>2. /\ \A e \in es : next'[Container(e)] > Position(e)
      /\ \A c \in DOMAIN next : next'[c] >= next[c] \/ Within(c, skip)
    BY IndexNext
<1>3. skip \subseteq unclaimed /\ \A s \in skip : s \in DOMAIN count /\ count[s] = 0
    BY <1>0 DEF Skipped, Counted
<1>4. ~Within(path, skip)
    BY <1>0, NotSkipped
<1>5. /\ ~Holds(g) /\ Holds(g)' /\ handle'[g].path = path /\ handle'[g].sub = free
      /\ \A k \in Handle \ {g} : handle'[k] = handle[k]
    BY <1>0, <1>1 DEF Holds, Free
<1>6. ASSUME NEW e, e \notin kept PROVE Holders(e) = {}
    <2> SUFFICES ASSUME NEW k \in Holders(e) PROVE FALSE
        OBVIOUS
    <2>1. k \in Handle /\ Holds(k) /\ e \in Elements[handle[k].path] /\ e \in DOMAIN count
        BY <1>0 DEF Holders, Counted
    <2>2. PICK s \in skip : StartsWith(e, s)
        BY <1>6, <2>1 DEF Within
    <2>3. s \in DOMAIN count /\ count[s] = 0
        BY <1>3
    <2>4. count[s] > 0
        BY <1>0, <2>1, <2>2, <2>3, NobodyWithin
    <2> QED BY <2>3, <2>4
<1>7. \A e : Holders(e)' = IF e \in es THEN Holders(e) \cup {g} ELSE Holders(e)
    BY <1>5 DEF Holders, Holds
<1> HIDE DEF skip, kept, free
<1>8. Counted'
    <2>1. ASSUME NEW e \in DOMAIN count' PROVE count'[e] = Cardinality(Holders(e)')
        <3>1. (IF e \in kept THEN count[e] ELSE 0) = Cardinality(Holders(e))
            BY <1>0, <1>6, FS_EmptySet DEF kept, Counted
        <3>2. count'[e] = Cardinality(Holders(e)) + (IF e \in es THEN 1 ELSE 0)
            BY <1>1, <3>1
        <3>3. g \notin Holders(e) /\ IsFiniteSet(Holders(e)) /\ Cardinality(Holders(e)) \in Nat
            BY <1>5, HoldersFinite DEF Holders
        <3>4. CASE e \in es
            <4>1. Cardinality(Holders(e) \cup {g}) = Cardinality(Holders(e)) + 1
                BY <3>3, FS_AddElement
            <4> QED BY <1>7, <3>2, <3>4, <4>1
        <3>5. CASE e \notin es
            BY <1>7, <3>2, <3>3, <3>5
        <3> QED BY <3>4, <3>5
    <2>2. ASSUME NEW k \in Handle, Holds(k)', NEW e \in Elements[handle'[k].path] PROVE e \in DOMAIN count'
        <3>1. CASE k = g
            BY <1>1, <1>5, <2>2, <3>1
        <3>2. CASE k # g
            <4>1. k \in Holders(e)
                BY <1>5, <2>2, <3>2 DEF Holders, Holds
            <4> QED BY <1>1, <1>6, <4>1
        <3> QED BY <3>1, <3>2
    <2>3. ASSUME NEW e \in unclaimed' PROVE count'[e] = 0
        <3>1. e \in kept /\ e \notin es /\ count[e] = 0
            BY <1>0, <1>1 DEF kept, Counted
        <3> QED BY <1>1, <3>1
    <2>4. ASSUME NEW e \in DOMAIN count', count'[e] > 0 PROVE Position(e) < next'[Container(e)]
        <3>1. CASE e \in es
            <4>1. next'[Container(e)] \in Nat /\ Position(e) \in Nat
                BY <1>0, <3>1, ElementFacts DEF TypeInv, CountType, Element
            <4> QED BY <1>2, <3>1, <4>1
        <3>2. CASE e \notin es
            <4>1. e \in kept /\ count[e] > 0 /\ e \in DOMAIN count /\ ~Within(e, skip) /\ e \in Element
                BY <1>0, <1>1, <2>4, <3>2 DEF kept
            <4>2. e \in Node /\ IsElement(e) /\ Position(e) \in Nat /\ Container(e) \in DOMAIN next
                BY <4>1, ElementInNode DEF TypeInv, CountType
            <4>3. ~Within(Container(e), skip)
                <5> SUFFICES ASSUME NEW s \in skip, StartsWith(Container(e), s) PROVE FALSE
                    BY DEF Within
                <5>1. s \in Node
                    BY <1>0, <1>3, ElementInNode
                <5>2. StartsWith(e, s)
                    BY <4>2, <5>1, AroundContainer
                <5> QED BY <4>1, <5>2 DEF Within
            <4>4. Position(e) < next[Container(e)]
                BY <1>0, <4>1 DEF Counted
            <4>5. next[Container(e)] \in Nat /\ next'[Container(e)] \in Nat
                BY <4>1 DEF TypeInv, CountType
            <4> QED BY <1>2, <4>2, <4>3, <4>4, <4>5
        <3> QED BY <3>1, <3>2
    <2> QED BY <2>1, <2>2, <2>3, <2>4 DEF Counted
<1>9. Lost'
    <2>1. \A p \in Path : subs'[p].st = "out" => subs[p].st = "out" \/ p \in PathsWithin(skip)
        BY IndexSubs DEF Kept, New, Gone, skip
    <2>2. \A e \in DOMAIN count' : e \in DOMAIN count \/ ~Released(e)
        BY <1>1 DEF kept
    <2>3. ASSUME NEW s \in skip PROVE s \notin DOMAIN count' /\ Position(s) < next'[Container(s)]
        <3>1. s \in Node /\ IsElement(s) /\ Position(s) \in Nat /\ s \in Element
            BY <1>0, <1>3, ElementInNode
        <3>2. StartsWith(s, s) /\ s \notin kept
            BY <3>1, NodeSeq DEF StartsWith, kept, Within
        <3>3. s \notin es
            <4> SUFFICES ASSUME s \in es PROVE FALSE
                OBVIOUS
            <4>1. StartsWith(path, s)
                BY <1>0, ElementFacts, NodeSeq DEF StartsWith
            <4> QED BY <1>4, <4>1 DEF Within
        <3>4. PICK e \in es : Container(s) = Container(e) /\ Position(s) < Position(e)
            BY DEF Skipped, skip
        <3>5. Position(e) \in Nat /\ next'[Container(s)] \in Nat
            BY <1>0, <3>1, ElementFacts DEF TypeInv, CountType
        <3>6. next'[Container(s)] > Position(e)
            BY <1>2, <3>4
        <3> QED BY <1>1, <3>1, <3>2, <3>3, <3>4, <3>5, <3>6
    <2>4. CountType' /\ skip \subseteq DOMAIN count
        BY <1>3 DEF TypeInv
    <2> QED BY <1>0, <1>2, <2>1, <2>2, <2>3, <2>4, LostStep
<1>10. Owned'
    <2> SUFFICES ASSUME NEW k \in Handle, Holds(k)', handle'[k].sub PROVE subs'[handle'[k].path].st = "in"
        BY DEF Owned
    <2>1. CASE k # g
        <3> DEFINE p == handle[k].path
        <3>1. handle'[k] = handle[k] /\ Holds(k) /\ p \in Path /\ p \in Node /\ subs[p].st = "in"
            BY <1>0, <1>5, <2>1 DEF Holds, Owned, Path
        <3>2. ASSUME p \in PathsWithin(skip) PROVE FALSE
            <4>1. PICK s \in skip : StartsWith(p, s)
                BY <3>2 DEF PathsWithin, Within
            <4>2. s \in Node /\ IsElement(s) /\ s \in DOMAIN count /\ count[s] = 0 /\ StartsWith(s, s)
                BY <1>0, <1>3, ElementInNode, NodeSeq DEF StartsWith
            <4>3. s \in Elements[p]
                BY <3>1, <4>1, <4>2, ElementOfPath
            <4>4. count[s] > 0
                BY <1>0, <3>1, <4>2, <4>3, NobodyWithin
            <4> QED BY <4>2, <4>4
        <3> QED BY <3>1, <3>2, IndexSubs DEF Kept, New, skip
    <2>2. CASE k = g
        <3>1. handle'[k].path = path /\ IsDeclared[path] /\ path \in Path
            BY <1>0, <1>5, <2>2 DEF free, Path
        <3>2. path \notin PathsWithin(skip)
            BY <1>4 DEF PathsWithin
        <3>3. subs[path].st # "out"
            BY <1>0, <1>1, <3>1 DEF Lost
        <3>4. subs'[path].st # "none" /\ subs'[path].st \in {"none", "in", "out"}
            BY <3>1, IndexShut, IndexSubs DEF SubRecord
        <3>5. Kept(path) \/ New(path)
            BY <3>1, <3>2, IndexSubs DEF skip
        <3> QED BY <3>1, <3>3, <3>4, <3>5 DEF Kept, New
    <2> QED BY <2>1, <2>2
<1>11. Shut'
    <2> SUFFICES ASSUME NEW p \in Path, subs'[p].st = "in", subs'[p].shut PROVE p \in closed' \/ done'
        BY DEF Shut
    <2>1. p \notin PathsWithin(skip)
        BY IndexShut DEF skip
    <2>2. CASE subs[p].st = "none"
        BY <1>1, <2>2, IndexShut
    <2>3. CASE subs[p].st # "none"
        <3>1. subs[p].st = "in" /\ subs[p].shut
            BY <2>3, IndexShut, IndexSubs DEF Kept, New, Gone
        <3> QED BY <1>0, <1>1, <2>1, <3>1 DEF Shut
    <2> QED BY <2>2, <2>3
<1> QED BY <1>8, <1>9, <1>10, <1>11 DEF EofInv

LEMMA ReleaseShut ==
    ASSUME TypeInv, NEW h \in Handle, Release(h)
    PROVE  /\ \A p \in PathsWithin(Freed(h)) : subs'[p].st = "out"
           /\ \A p \in Path : subs'[p].shut = subs[p].shut
<1> DEFINE rest == Removed(Freed(h))
           drop(p) == (p = handle[h].path /\ handle[h].sub) \/ (handle[h].last /\ rest[p].st = "in")
<1>1. subs' = [p \in Path |-> IF drop(p) THEN [rest[p] EXCEPT !.dropped = TRUE] ELSE rest[p]]
    BY DEF Release, Freed, Zero
<1>2. /\ rest \in [Path -> SubRecord]
      /\ \A p \in Path \ PathsWithin(Freed(h)) : rest[p] = subs[p]
      /\ \A p \in PathsWithin(Freed(h)) : rest[p].st = "out" /\ rest[p].shut = subs[p].shut
      /\ PathsWithin(Freed(h)) \subseteq Path
    BY RemovedFacts DEF PathsWithin
<1> HIDE DEF rest
<1>3. ASSUME NEW p \in Path PROVE subs'[p].st = rest[p].st /\ subs'[p].shut = rest[p].shut
    <2>1. rest[p] \in SubRecord
        BY <1>2
    <2> QED BY <1>1, <2>1 DEF SubRecord
<1> QED BY <1>2, <1>3

\* The element that Release(h) removes is there, and nobody else is within it.
LEMMA FreedFacts ==
    ASSUME TypeInv, Counted, NEW h \in Handle, Holds(h), NEW o \in Freed(h)
    PROVE  /\ Freed(h) = {o} /\ o \in DOMAIN count /\ count[o] = 1
           /\ o \in Node /\ IsElement(o) /\ o \in Element /\ StartsWith(o, o)
           /\ Holders(o) = {h}
<1>1. handle[h].path \in Node
    BY DEF TypeInv, HandleType, HandleRecord
<1>2. Freed(h) = {o} /\ Zero(h) # {} /\ o = Outermost(Zero(h))
    BY DEF Freed
<1>3. Zero(h) \subseteq Elements[handle[h].path]
    BY DEF Zero
<1>4. o \in Zero(h)
    BY <1>1, <1>2, <1>3, OutermostElement
<1>5. o \in DOMAIN count /\ count[o] = 1 /\ o \in Elements[handle[h].path]
    BY <1>4 DEF Zero, Exists
<1>6. o \in Element /\ o \in Node /\ IsElement(o) /\ StartsWith(o, o)
    BY <1>5, ElementInNode, NodeSeq DEF TypeInv, CountType, StartsWith
<1>7. h \in Holders(o) /\ Cardinality(Holders(o)) = 1 /\ IsFiniteSet(Holders(o))
    BY <1>5, HoldersFinite DEF Holders, Counted
<1>8. PICK x : Holders(o) = {x}
    BY <1>7, FS_Singleton
<1> QED BY <1>2, <1>5, <1>6, <1>7, <1>8

LEMMA ReleaseEof ==
    ASSUME TypeInv, TypeInv', EofInv, NEW h \in Handle, Release(h)
    PROVE  EofInv'
<1> DEFINE es == Elements[handle[h].path]
           kept == {e \in DOMAIN count : ~Within(e, Freed(h))}
<1>0. /\ Counted /\ Lost /\ Owned /\ Shut
      /\ handle \in [Handle -> HandleRecord] /\ \A k \in Handle : handle[k].sub => handle[k].path \in Path
      /\ DOMAIN count \subseteq Element /\ unclaimed \subseteq DOMAIN count
      /\ \A e \in DOMAIN count : count[e] \in Int
    BY DEF EofInv, TypeInv, HandleType, CountType
<1>1. /\ handle[h].st = "left" /\ handle'[h].st = "dropped"
      /\ \A k \in Handle \ {h} : handle'[k] = handle[k]
      /\ count' = [e \in kept |-> IF e \in es THEN count[e] - 1 ELSE count[e]]
      /\ unclaimed' = {e \in unclaimed : ~Within(e, Freed(h))}
      /\ next' = RemovedNext(Freed(h))
      /\ closed' = closed \ PathsWithin(Freed(h))
      /\ UNCHANGED done
    BY <1>0 DEF Release, Freed, Zero, HandleRecord
<1>2. Holds(h) /\ ~Holds(h)' /\ \A k \in Handle \ {h} : Holds(k)' = Holds(k)
    BY <1>1 DEF Holds
<1>3. \A e : Holders(e)' = Holders(e) \ {h}
    BY <1>1, <1>2 DEF Holders
<1>4. \A e : h \in Holders(e) <=> e \in es
    BY <1>2 DEF Holders
<1>5. ASSUME NEW k \in Handle \ {h}, Holds(k), NEW e \in Elements[handle[k].path] PROVE e \in kept
    <2>1. e \in DOMAIN count
        BY <1>0, <1>5 DEF Counted
    <2>2. ASSUME NEW o \in Freed(h), StartsWith(e, o) PROVE FALSE
        <3>1. o \in DOMAIN count /\ Holders(o) = {h}
            BY <1>0, <1>2, FreedFacts
        <3>2. k \in Holders(o)
            BY <1>0, <1>5, <2>2, <3>1, NobodyWithin
        <3> QED BY <3>1, <3>2
    <2> QED BY <2>1, <2>2 DEF Within
<1>6. \A c \in DOMAIN next : next'[c] = IF Within(c, Freed(h)) THEN 0 ELSE next[c]
    BY <1>1 DEF RemovedNext
<1> HIDE DEF kept
<1>7. Counted'
    <2>1. ASSUME NEW e \in DOMAIN count' PROVE count'[e] = Cardinality(Holders(e)')
        <3>1. e \in DOMAIN count /\ count[e] = Cardinality(Holders(e)) /\ e \in kept
            BY <1>0, <1>1 DEF kept, Counted
        <3>2. IsFiniteSet(Holders(e)) /\ Cardinality(Holders(e)) \in Nat
            BY HoldersFinite
        <3>3. CASE e \in es
            <4>1. Cardinality(Holders(e) \ {h}) = Cardinality(Holders(e)) - 1
                BY <1>4, <3>2, <3>3, FS_RemoveElement
            <4> QED BY <1>1, <1>3, <3>1, <3>3, <4>1
        <3>4. CASE e \notin es
            <4>1. Holders(e) \ {h} = Holders(e)
                BY <1>4, <3>4
            <4> QED BY <1>1, <1>3, <3>1, <3>4, <4>1
        <3> QED BY <3>3, <3>4
    <2>2. ASSUME NEW k \in Handle, Holds(k)', NEW e \in Elements[handle'[k].path] PROVE e \in DOMAIN count'
        BY <1>1, <1>2, <1>5, <2>2
    <2>3. ASSUME NEW e \in unclaimed' PROVE count'[e] = 0
        <3>1. e \in kept /\ count[e] = 0 /\ e \in DOMAIN count
            BY <1>0, <1>1 DEF kept, Counted
        <3>2. Holders(e) = {}
            BY <1>0, <3>1, HoldersFinite, FS_EmptySet DEF Counted
        <3> QED BY <1>1, <1>4, <3>1, <3>2
    <2>4. ASSUME NEW e \in DOMAIN count', count'[e] > 0 PROVE Position(e) < next'[Container(e)]
        <3>1. e \in DOMAIN count /\ ~Within(e, Freed(h)) /\ e \in Element /\ count[e] > 0
            BY <1>0, <1>1, <2>4 DEF kept
        <3>2. e \in Node /\ IsElement(e) /\ Container(e) \in DOMAIN next
            BY <3>1, ElementInNode DEF TypeInv, CountType
        <3>3. ~Within(Container(e), Freed(h))
            <4> SUFFICES ASSUME NEW o \in Freed(h), StartsWith(Container(e), o) PROVE FALSE
                BY DEF Within
            <4>1. o \in Node
                BY <1>0, <1>2, FreedFacts
            <4>2. StartsWith(e, o)
                BY <3>2, <4>1, AroundContainer
            <4> QED BY <3>1, <4>2 DEF Within
        <3> QED BY <1>0, <1>6, <3>1, <3>2, <3>3 DEF Counted
    <2> QED BY <2>1, <2>2, <2>3, <2>4 DEF Counted
<1>8. Lost'
    <2>1. \A p \in Path : subs'[p].st = "out" => subs[p].st = "out" \/ p \in PathsWithin(Freed(h))
        BY ReleaseSubs DEF Kept, Drop, Gone
    <2>2. \A e \in DOMAIN count' : e \in DOMAIN count
        BY <1>1 DEF kept
    <2>3. ASSUME NEW o \in Freed(h) PROVE o \in DOMAIN count /\ o \notin DOMAIN count' /\ Position(o) < next'[Container(o)]
        <3>1. /\ Freed(h) = {o} /\ o \in DOMAIN count /\ count[o] = 1
              /\ o \in Node /\ IsElement(o) /\ o \in Element /\ StartsWith(o, o)
            BY <1>0, <1>2, FreedFacts
        <3>2. o \notin DOMAIN count'
            BY <1>1, <3>1 DEF kept, Within
        <3>3. Position(o) < next[Container(o)] /\ Container(o) \in DOMAIN next
            BY <1>0, <3>1 DEF Counted, TypeInv, CountType
        <3>4. ~Within(Container(o), Freed(h))
            <4>1. Len(Container(o)) = Len(o) - 1 /\ Len(o) \in Nat
                BY <3>1, AroundContainer
            <4>2. ~StartsWith(Container(o), o)
                BY <4>1 DEF StartsWith
            <4> QED BY <3>1, <4>2 DEF Within
        <3> QED BY <1>6, <3>1, <3>2, <3>3, <3>4
    <2>4. ASSUME NEW c \in DOMAIN next PROVE next'[c] >= next[c] \/ Within(c, Freed(h))
        BY <1>6 DEF TypeInv, CountType
    <2>5. CountType' /\ Freed(h) \subseteq DOMAIN count
        BY <2>3 DEF TypeInv
    <2> QED BY <1>0, <2>1, <2>2, <2>3, <2>4, <2>5, LostStep
<1>9. Owned'
    <2> SUFFICES ASSUME NEW k \in Handle, Holds(k)', handle'[k].sub PROVE subs'[handle'[k].path].st = "in"
        BY DEF Owned
    <2> DEFINE p == handle[k].path
    <2>1. k # h /\ handle'[k] = handle[k] /\ Holds(k) /\ p \in Path /\ p \in Node /\ subs[p].st = "in"
        BY <1>0, <1>1, <1>2 DEF Owned, Path
    <2>2. ASSUME p \in PathsWithin(Freed(h)) PROVE FALSE
        <3>1. PICK o \in Freed(h) : StartsWith(p, o)
            BY <2>2 DEF PathsWithin, Within
        <3>2. o \in Node /\ IsElement(o) /\ Holders(o) = {h}
            BY <1>0, <1>2, FreedFacts
        <3>3. o \in Elements[p]
            BY <2>1, <3>1, <3>2, ElementOfPath
        <3>4. k \in Holders(o)
            BY <2>1, <3>3 DEF Holders
        <3> QED BY <2>1, <3>2, <3>4
    <2> QED BY <2>1, <2>2, ReleaseSubs DEF Kept, Drop
<1>10. Shut'
    <2> SUFFICES ASSUME NEW p \in Path, subs'[p].st = "in", subs'[p].shut PROVE p \in closed' \/ done'
        BY DEF Shut
    <2>1. p \notin PathsWithin(Freed(h)) /\ subs[p].shut
        BY ReleaseShut
    <2>2. subs[p].st = "in"
        BY <2>1, ReleaseSubs DEF Kept, Drop
    <2> QED BY <1>0, <1>1, <2>1, <2>2 DEF Shut
<1> QED BY <1>7, <1>8, <1>9, <1>10 DEF EofInv

LEMMA RouteEof ==
    ASSUME TypeInv, TypeInv', EofInv, IngressRoute
    PROVE  EofInv'
<1>0. /\ Counted /\ Lost /\ Owned /\ Shut /\ subs \in [Path -> SubRecord]
      /\ \A k \in Handle : handle[k].sub => handle[k].path \in Path
    BY DEF EofInv, TypeInv, HandleType, SubsType
<1>1. UNCHANGED <<handle, next, done>>
    BY IoUnchanged DEF IoStep, IngressStep, IngressRoute
<1>2. \A e : Holders(e)' = Holders(e)
    BY <1>1 DEF Holders, Holds
<1>3. CASE UNCHANGED <<subs, closed, count, unclaimed>>
    <2>1. Counted' /\ Lost'
        BY <1>0, <1>1, <1>2, <1>3 DEF Counted, Holds, Lost, Released, Exists
    <2>2. Owned' /\ Shut'
        BY <1>0, <1>1, <1>3 DEF Owned, Holds, Shut
    <2> QED BY <2>1, <2>2 DEF EofInv
<1>4. ASSUME NEW ss \in [Path -> SubRecord], io.path \in Path, ss[io.path].st # "none", Accept(ss),
             \A p \in Path \ {io.path} : ss[p] = subs[p],
             ss = subs \/ (subs[io.path].st = "none" /\ ss[io.path].shut = done)
      PROVE  Owned' /\ Shut'
    <2>1. \A p \in Path : Kept(p) \/ New(p)
        BY RouteSubs
    <2>2. Owned'
        BY <1>0, <1>1, <2>1 DEF Owned, Holds, Kept, New
    <2>3. /\ \A p \in Path : subs'[p].st = ss[p].st
          /\ \/ subs' = ss /\ UNCHANGED closed
             \/ closed' = closed \cup {io.path} /\ \A p \in Path \ {io.path} : subs'[p] = ss[p]
        BY <1>4, AcceptFacts
    <2>4. Shut'
        BY <1>0, <1>1, <1>4, <2>3 DEF Shut
    <2> QED BY <2>2, <2>4
<1>5. CASE Found
    <2>1. Owned' /\ Shut'
        BY <1>0, <1>4, <1>5 DEF Found, InNest
    <2>2. UNCHANGED <<count, unclaimed>> /\ \A p \in Path : Kept(p) \/ New(p)
        BY <1>5, RouteSubs DEF Found
    <2>3. Counted' /\ Lost'
        BY <1>0, <1>1, <1>2, <2>2 DEF Counted, Holds, Lost, Released, Exists, Kept, New
    <2> QED BY <2>1, <2>3 DEF EofInv
<1>6. CASE Created
    <2> DEFINE ss == Subscribe(subs, io.path)
               m == Missing(io.path)
    <2>1. /\ io.path \in Path /\ Accept(ss) /\ \A e \in Elements[io.path] : ~Released(e)
          /\ count' = [e \in DOMAIN count \cup m |-> IF Exists(e) THEN count[e] ELSE 0]
          /\ unclaimed' = unclaimed \cup m
        BY <1>6 DEF Created
    <2>2. /\ ss \in [Path -> SubRecord] /\ ss[io.path].st # "none"
          /\ \A p \in Path \ {io.path} : ss[p] = subs[p]
          /\ subs[io.path].st # "none" => ss = subs
          /\ subs[io.path].st = "none" => ss[io.path].shut = done
        BY <1>0, <2>1, SubscribeFacts
    <2>3. m \subseteq Elements[io.path] /\ \A e \in m : e \notin DOMAIN count
        BY DEF Missing, Exists
    <2> HIDE DEF ss, m
    <2>4. Owned' /\ Shut'
        BY <1>4, <2>1, <2>2
    <2>5. \A e \in m : Holders(e) = {} /\ Cardinality(Holders(e)) = 0
        BY <1>0, <2>3, FS_EmptySet DEF Holders, Counted
    <2>6. DOMAIN count' = DOMAIN count \cup m /\ (\A e \in DOMAIN count : count'[e] = count[e]) /\ \A e \in m : count'[e] = 0
        BY <2>1, <2>3 DEF Exists
    <2>7. Counted'
        <3>1. /\ \A e \in DOMAIN count : count[e] = Cardinality(Holders(e))
              /\ \A k \in Handle : Holds(k) => Elements[handle[k].path] \subseteq DOMAIN count
              /\ \A e \in unclaimed : count[e] = 0 /\ e \in DOMAIN count
              /\ \A e \in DOMAIN count : count[e] > 0 => Position(e) < next[Container(e)]
            BY <1>0 DEF Counted, TypeInv, CountType
        <3>2. \A e \in DOMAIN count' : count'[e] = Cardinality(Holders(e)')
            BY <1>2, <2>5, <2>6, <3>1
        <3>3. \A k \in Handle : Holds(k)' => Elements[handle'[k].path] \subseteq DOMAIN count'
            BY <1>1, <2>6, <3>1 DEF Holds
        <3>4. \A e \in unclaimed' : count'[e] = 0
            BY <2>1, <2>6, <3>1
        <3>5. \A e \in DOMAIN count' : count'[e] > 0 => Position(e) < next'[Container(e)]
            BY <1>1, <2>6, <3>1
        <3> QED BY <3>2, <3>3, <3>4, <3>5 DEF Counted
    <2>8. Lost'
        <3>1. \A p \in Path : subs'[p].st = "out" => subs[p].st = "out"
            BY RouteSubs DEF Kept, New
        <3>2. \A e \in DOMAIN count' : e \in DOMAIN count \/ ~Released(e)
            BY <2>1, <2>3, <2>6
        <3>3. \A c \in DOMAIN next : next'[c] >= next[c]
            BY <1>1 DEF TypeInv, CountType
        <3>4. CountType'
            BY DEF TypeInv
        <3>5. PICK es : es = {}
            OBVIOUS
        <3> QED BY <1>0, <3>1, <3>2, <3>3, <3>4, <3>5, LostStep
    <2> QED BY <2>4, <2>7, <2>8 DEF EofInv
<1> QED BY <1>3, <1>5, <1>6, RouteCases DEF Refused, Waits

LEMMA EofStep ==
    ASSUME TypeInv, TypeInv', EofInv, Next
    PROVE  EofInv'
<1>0. /\ subs \in [Path -> SubRecord] /\ done \in BOOLEAN /\ handle \in [Handle -> HandleRecord]
      /\ \A k \in Handle : handle[k].sub => handle[k].path \in Path
    BY DEF TypeInv, HandleType, SubsType, FlagType
<1>1. ASSUME NEW h \in Handle, NEW g \in Handle, NEW path \in AppPath, IndexReader(h, g, path) PROVE EofInv'
    BY <1>1, IndexEof
<1>2. ASSUME NEW h \in Handle, Release(h) PROVE EofInv'
    BY <1>2, ReleaseEof
<1>3. CASE IngressRoute
    BY <1>3, RouteEof
<1>4. ASSUME NEW h \in Handle, NEW part \in BOOLEAN, ReadChunk(h, part) PROVE EofInv'
    <2>1. /\ UNCHANGED <<count, unclaimed, next, closed, done>>
          /\ \A p \in Path : subs'[p].st = subs[p].st /\ subs'[p].shut = subs[p].shut
        BY <1>0, <1>4 DEF ReadChunk, SubRecord
    <2>2. \A k \in Handle : handle'[k].st = handle[k].st /\ handle'[k].path = handle[k].path
                            /\ handle'[k].sub = handle[k].sub
        BY <1>0, <1>4 DEF ReadChunk, HandleRecord
    <2> QED BY <1>0, <2>1, <2>2, EofQuiet DEF Holds
<1>5. ASSUME NEW h \in Handle, ReadBuf(h) \/ ReadClosed(h) \/ Leave(h) PROVE EofInv'
    <2>1. UNCHANGED <<count, unclaimed, next, closed, done, subs>>
        BY <1>5 DEF ReadBuf, ReadClosed, Leave, subVars
    <2>2. \A k \in Handle : Holds(k)' = Holds(k) /\ handle'[k].path = handle[k].path
                            /\ handle'[k].sub = handle[k].sub
        BY <1>0, <1>5 DEF ReadBuf, ReadClosed, Leave, Live, Holds, HandleRecord
    <2> QED BY <1>0, <2>1, <2>2, EofQuiet
<1>6. CASE FailClose \/ CtxDone \/ CtxTold
    <2>1. UNCHANGED <<count, unclaimed, next, closed, done, subs, handle>>
        BY <1>6 DEF FailClose, CtxDone, CtxTold, subVars
    <2> QED BY <1>0, <2>1, EofQuiet DEF Holds
<1>7. CASE IoStep /\ ~IngressRoute
    <2>1. UNCHANGED handle
        BY <1>7, IoUnchanged
    <2>2. CASE IngressFinish
        <3>1. UNCHANGED <<count, unclaimed, next, closed>> /\ done' /\ \A p \in Path : subs'[p].st = subs[p].st
            BY <1>0, <2>2 DEF IngressFinish, SubRecord
        <3> QED BY <2>1, <3>1, EofQuiet DEF Holds
    <2>3. CASE IngressSend
        <3>1. /\ UNCHANGED <<count, unclaimed, next, closed, done>>
              /\ \A p \in Path : subs'[p].st = subs[p].st /\ subs'[p].shut = subs[p].shut
            BY <1>0, <2>3 DEF IngressSend, SubRecord
        <3> QED BY <1>0, <2>1, <3>1, EofQuiet DEF Holds
    <2>4. CASE ~IngressFinish /\ ~IngressSend
        <3>1. UNCHANGED <<count, unclaimed, next, closed, done, subs>>
            BY <1>7, <2>4
            DEF IoStep, PeerStep, IngressStep, IngressFrame, IngressEnd, IngressData, IngressBroken, IngressLoop,
                IngressCancel, IngressCheck, IngressStop, IngressClose, IngressWait, IngressOver, subVars
        <3> QED BY <1>0, <2>1, <3>1, EofQuiet DEF Holds
    <2> QED BY <2>2, <2>3, <2>4
<1> QED BY <1>1, <1>2, <1>3, <1>4, <1>5, <1>6, <1>7 DEF Next, HandleStep, IoStep

LEMMA InitEof == Init => EofInv
<1> SUFFICES ASSUME Init PROVE EofInv
    OBVIOUS
<1>1. /\ DOMAIN count = {} /\ unclaimed = {} /\ ~done
      /\ \A h \in Handle : handle[h].path = <<>> /\ (handle[h].sub => h = Root)
    BY DEF Init, Free
<1>2. Counted
    BY <1>1, RootFacts DEF Counted
<1>3. Lost /\ Shut
    BY DEF Init, Lost, Shut, NoSub
<1>4. subs[<<>>].st = "in"
    BY RootFacts DEF Init, Concrete, NoSub
<1>5. Owned
    BY <1>1, <1>4 DEF Owned
<1> QED BY <1>2, <1>3, <1>5 DEF EofInv

LEMMA NextEof == ReadInv /\ ReadInv' /\ EofInv /\ [Next]_vars => EofInv'
<1>1. ASSUME ReadInv, ReadInv', EofInv, Next PROVE EofInv'
    BY <1>1, EofStep DEF ReadInv
<1>2. ASSUME ReadInv, EofInv, UNCHANGED vars PROVE EofInv'
    <2>1. UNCHANGED <<count, unclaimed, next, closed, done, subs, handle>> /\ done \in BOOLEAN
        BY <1>2 DEF vars, subVars, ReadInv, TypeInv, FlagType
    <2>2. TypeInv
        BY <1>2 DEF ReadInv
    <2> QED BY <1>2, <2>1, <2>2, EofQuiet DEF Holds
<1> QED BY <1>1, <1>2

\* The inductive invariant of the Go frame reader.
THEOREM GoReaderHolds == Spec => [](ReadInv /\ Awake /\ EofInv)
BY InitRead, NextRead, InitEof, NextEof, PTL DEF Spec

\* A reader is told of the end of its path only if the peer closed the path or
\* ended the stream: neither a failed goroutine, nor the release of an element
\* around the path, is taken for its end.
THEOREM GoEndsAreTrue == Spec => EofIsTrue
<1> DEFINE EofStepIsTrue == \A p \in Path : outcome[p] = "none" /\ outcome'[p] = "eof" => p \in closed \/ over
<1>1. ReadInv /\ EofInv /\ [Next]_vars => [EofStepIsTrue]_vars
    <2> SUFFICES ASSUME ReadInv, EofInv, Next, NEW p \in Path, outcome[p] = "none", outcome'[p] = "eof"
                 PROVE  p \in closed \/ over
        OBVIOUS
    <2>0. /\ TypeInv /\ Ending /\ Owned /\ Shut /\ outcome \in [Path -> {"none", "eof", "err"}]
          /\ \A h \in Handle : handle[h].sub => handle[h].path \in Path
        BY DEF ReadInv, EofInv, TypeInv, SubsType, HandleType
    <2>1. ASSUME NEW h \in Handle, ReadClosed(h) PROVE p \in closed \/ over
        <3>1. /\ handle[h].sub /\ handle[h].st = "live" /\ subs[handle[h].path].shut
              /\ outcome' = [outcome EXCEPT ![handle[h].path] = ClosedErr(handle[h].path)]
            BY <2>1 DEF ReadClosed, Live
        <3>2. p = handle[h].path /\ ClosedErr(p) = "eof"
            BY <2>0, <3>1
        <3>3. subs[p].st = "in"
            BY <2>0, <3>1, <3>2 DEF Owned, Holds
        <3>4. p \in closed \/ done
            BY <2>0, <3>1, <3>2, <3>3 DEF Shut
        <3>5. err = "none" \/ p \in closed
            BY <3>2 DEF ClosedErr
        <3> QED BY <2>0, <3>4, <3>5 DEF Ending
    <2>2. ASSUME UNCHANGED outcome PROVE FALSE
        BY <2>2
    <2>3. ASSUME NEW h \in Handle, Claims(h) PROVE FALSE
        BY <2>0, <2>2, <2>3, ClaimFacts
    <2>4. ASSUME NEW h \in Handle, Reads(h), ~ReadClosed(h) PROVE FALSE
        BY <2>2, <2>4 DEF Reads, ReadBuf, ReadChunk, Leave, history
    <2>5. CASE FailClose \/ CtxDone \/ CtxTold
        BY <2>2, <2>5 DEF FailClose, CtxDone, CtxTold, history
    <2>6. CASE IoStep
        BY <2>2, <2>6
        DEF IoStep, PeerStep, IngressStep, IngressFrame, IngressEnd, IngressData, IngressBroken, IngressLoop,
            IngressRoute, IngressSend, IngressCancel, IngressCheck, IngressStop, IngressClose, IngressFinish,
            IngressWait, IngressOver, history
    <2> QED BY <2>1, <2>3, <2>4, <2>5, <2>6, HandleCases DEF Next, IoStep
<1> QED BY <1>1, GoReaderHolds, PTL DEF Spec, EofIsTrue

=============================================================================
