------------------------------ MODULE GoProofs ------------------------------
(***************************************************************************)
(* Proofs about the Go runtime: the server, for any number of functions,   *)
(* registrations, stop functions and connections; the frame writer, for    *)
(* any number of handles and frames and any capacity of the channel.       *)
(***************************************************************************)
EXTENDS GoServer, GoWriter, FiniteSetTheorems, TLAPS

-----------------------------------------------------------------------------
(* The server                                                              *)

Stopping == {"delete", "wait", "returned"}
Removed == {"wait", "returned"}

\* The calls of a registration's handler that are counted by its wait group.
Running(r) == {c \in Conn : conn[c].pc = "running" /\ conn[c].reg = r}

Calls == [pc : {"new", "read", "found", "running", "finished", "failed"},
          func : Func, reg : Reg \cup {NoReg}]

GoTypeOK ==
    /\ handlers \in [Func -> Reg \cup {NoReg}]
    /\ reg \in [Reg -> [st : {"new", "served", "refused"}, func : Func]]
    /\ wg \in [Reg -> Nat]
    /\ stopper \in [Stopper -> [pc : {"new"} \cup Stopping, reg : Reg \cup {NoReg}]]
    /\ conn \in [Conn -> Calls]
    /\ ctx \in [Conn -> {"armed", "stopped", "fired"}]

\* A registered handler is one that was served for the function, ...
HandlersServed ==
    \A f \in Func : handlers[f] # NoReg =>
        reg[handlers[f]].st = "served" /\ reg[handlers[f]].func = f

\* ... a stop function is that of a served handler, and from the moment it has
\* removed it, the handler is registered for nothing ...
StoppersOwn ==
    \A s \in Stopper : stopper[s].pc \in Stopping =>
        stopper[s].reg \in Reg /\ reg[stopper[s].reg].st = "served"
RemovedForGood ==
    \A s \in Stopper : stopper[s].pc \in Removed => \A f \in Func : handlers[f] # stopper[s].reg

\* ... and a call between lookup and count holds the mutex and keeps the
\* handler registered, so that the count is exact when it is waited for.
ReadersFound == readers = {c \in Conn : conn[c].pc = "found"}
FoundRegistered ==
    \A c \in Conn : conn[c].pc = "found" =>
        conn[c].reg \in Reg /\ handlers[conn[c].func] = conn[c].reg
RunningOwn == \A c \in Conn : conn[c].pc = "running" => conn[c].reg \in Reg
CallsCounted == \A r \in Reg : wg[r] = Cardinality(Running(r))

\* Once returned, a stop function has no running call left behind.
ReturnedIdle ==
    \A s \in Stopper : stopper[s].pc = "returned" => Running(stopper[s].reg) = {}

\* The reader of a call that got its header is out of reach of the context.
ReaderReleased == \A c \in Conn : conn[c].pc \in {"read", "found", "running"} => ctx[c] = "stopped"

GoServerInv ==
    /\ GoTypeOK
    /\ HandlersServed
    /\ StoppersOwn
    /\ RemovedForGood
    /\ ReadersFound
    /\ FoundRegistered
    /\ RunningOwn
    /\ CallsCounted
    /\ ReturnedIdle
    /\ ReaderReleased

LEMMA RunningFinite == \A r : IsFiniteSet(Running(r))
<1> TAKE r
<1>1. Running(r) \in SUBSET Conn
    BY DEF Running
<1> QED
    BY <1>1, FS_Subset, GoServerAssumption

LEMMA GoServerInit == Init => GoServerInv
<1> SUFFICES ASSUME Init PROVE GoServerInv
    OBVIOUS
<1>1. (CHOOSE f \in Func : TRUE) \in Func
    BY GoServerAssumption
<1>2. GoTypeOK
    BY <1>1 DEF Init, GoTypeOK, Calls, Stopping
<1>3. CallsCounted
  <2>1. \A r \in Reg : Running(r) = {}
      BY DEF Init, Running
  <2> QED
      BY <2>1, FS_EmptySet DEF Init, CallsCounted
<1>4. HandlersServed /\ StoppersOwn /\ RemovedForGood /\ ReturnedIdle
    BY DEF Init, HandlersServed, StoppersOwn, RemovedForGood, ReturnedIdle, Stopping, Removed
<1>5. ReadersFound /\ FoundRegistered /\ RunningOwn /\ ReaderReleased
    BY DEF Init, ReadersFound, FoundRegistered, RunningOwn, ReaderReleased
<1> QED
    BY <1>2, <1>3, <1>4, <1>5 DEF GoServerInv

\* What the steps that leave the calls alone preserve.
LEMMA ConnUnchanged ==
    ASSUME GoServerInv, UNCHANGED <<wg, conn, ctx, readers>>
    PROVE  ReadersFound' /\ RunningOwn' /\ CallsCounted' /\ ReaderReleased'
           /\ \A r : Running(r)' = Running(r)
<1>1. \A r : Running(r)' = Running(r)
    BY DEF Running
<1>2. CallsCounted'
    BY <1>1 DEF GoServerInv, CallsCounted
<1> QED
    BY <1>1, <1>2 DEF GoServerInv, ReadersFound, RunningOwn, ReaderReleased

\* What the steps of a call that leave the registrations alone preserve.
LEMMA RegUnchanged ==
    ASSUME GoServerInv, UNCHANGED <<regVars, stopper>>
    PROVE  HandlersServed' /\ StoppersOwn' /\ RemovedForGood'
BY DEF GoServerInv, HandlersServed, StoppersOwn, RemovedForGood, regVars

LEMMA ServeStep ==
    ASSUME GoServerInv, NEW r \in Reg, NEW f \in Func, Serve(r, f)
    PROVE  GoServerInv'
<1> USE DEF GoServerInv, Calls, Serve, connVars
<1>1. GoTypeOK'
  <2>1. reg' \in [Reg -> [st : {"new", "served", "refused"}, func : Func]]
    <3>1. CASE handlers[f] = NoReg
        BY <3>1 DEF GoTypeOK
    <3>2. CASE handlers[f] # NoReg
        BY <3>2 DEF GoTypeOK
    <3> QED
        BY <3>1, <3>2
  <2>2. handlers' \in [Func -> Reg \cup {NoReg}]
      BY DEF GoTypeOK
  <2> QED
      BY <2>1, <2>2 DEF GoTypeOK
<1>2. ReadersFound' /\ RunningOwn' /\ CallsCounted' /\ ReaderReleased'
      /\ \A q : Running(q)' = Running(q)
    BY ConnUnchanged
<1>3. HandlersServed'
    BY GoServerAssumption DEF GoTypeOK, HandlersServed
<1>4. StoppersOwn'
    BY DEF GoTypeOK, StoppersOwn
<1>5. RemovedForGood'
    BY DEF GoTypeOK, RemovedForGood, StoppersOwn, Removed, Stopping
<1>6. FoundRegistered'
    BY DEF GoTypeOK, FoundRegistered, ReadersFound
<1>7. ReturnedIdle'
    BY <1>2 DEF ReturnedIdle
<1> QED
    BY <1>1, <1>2, <1>3, <1>4, <1>5, <1>6, <1>7

LEMMA StopCancelStep ==
    ASSUME GoServerInv, NEW s \in Stopper, NEW r \in Reg, StopCancel(s, r)
    PROVE  GoServerInv'
<1> USE DEF GoServerInv, Calls, StopCancel, connVars
<1>1. GoTypeOK'
    BY DEF GoTypeOK, Stopping
<1>2. ReadersFound' /\ RunningOwn' /\ CallsCounted' /\ ReaderReleased'
      /\ \A q : Running(q)' = Running(q)
    BY ConnUnchanged
<1>3. HandlersServed' /\ FoundRegistered'
    BY DEF HandlersServed, FoundRegistered
<1>4. StoppersOwn' /\ RemovedForGood'
    BY DEF GoTypeOK, StoppersOwn, RemovedForGood, Removed
<1>5. ReturnedIdle'
    BY <1>2 DEF GoTypeOK, ReturnedIdle
<1> QED
    BY <1>1, <1>2, <1>3, <1>4, <1>5

LEMMA StopDeleteStep ==
    ASSUME GoServerInv, NEW s \in Stopper, StopDelete(s)
    PROVE  GoServerInv'
<1> USE DEF GoServerInv, Calls, StopDelete, Removes, connVars
<1>1. GoTypeOK'
    BY DEF GoTypeOK, Stopping
<1>2. ReadersFound' /\ RunningOwn' /\ CallsCounted' /\ ReaderReleased'
      /\ \A q : Running(q)' = Running(q)
    BY ConnUnchanged
<1>3. HandlersServed'
    BY DEF GoTypeOK, HandlersServed
<1>4. FoundRegistered'
    BY DEF GoTypeOK, FoundRegistered, ReadersFound
<1>5. StoppersOwn'
    BY DEF GoTypeOK, StoppersOwn, Stopping
<1>6. RemovedForGood'
  <2>1. stopper[s].reg \in Reg /\ stopper[s].reg # NoReg
      BY GoServerAssumption DEF StoppersOwn, Stopping
  <2>2. \A f \in Func : handlers'[f] # stopper[s].reg
      BY <2>1 DEF GoTypeOK, HandlersServed
  <2>3. \A t \in Stopper \ {s} : stopper'[t] = stopper[t]
      BY DEF GoTypeOK
  <2>4. \A t \in Stopper : stopper'[t].reg = stopper[t].reg
      BY DEF GoTypeOK
  <2>5. \A t \in Stopper : stopper[t].pc \in Stopping => stopper[t].reg # NoReg
      BY GoServerAssumption DEF StoppersOwn
  <2>6. \A f \in Func : handlers'[f] \in {handlers[f], NoReg}
      BY DEF GoTypeOK
  <2> QED
      BY <2>2, <2>3, <2>4, <2>5, <2>6 DEF RemovedForGood, Removed, Stopping
<1>7. ReturnedIdle'
    BY <1>2 DEF GoTypeOK, ReturnedIdle
<1> QED
    BY <1>1, <1>2, <1>3, <1>4, <1>5, <1>6, <1>7

LEMMA StopReturnStep ==
    ASSUME GoServerInv, NEW s \in Stopper, StopReturn(s)
    PROVE  GoServerInv'
<1> USE DEF GoServerInv, Calls, StopReturn, connVars, regVars
<1>1. GoTypeOK'
    BY DEF GoTypeOK, Stopping
<1>2. ReadersFound' /\ RunningOwn' /\ CallsCounted' /\ ReaderReleased'
      /\ \A q : Running(q)' = Running(q)
    BY ConnUnchanged
<1>3. HandlersServed' /\ FoundRegistered'
    BY DEF HandlersServed, FoundRegistered
<1>4. StoppersOwn' /\ RemovedForGood'
    BY DEF GoTypeOK, StoppersOwn, RemovedForGood, Stopping, Removed
<1>5. ReturnedIdle'
  <2>1. stopper[s].reg \in Reg
      BY DEF StoppersOwn, Stopping
  <2>2. Running(stopper[s].reg) = {}
      BY <2>1, RunningFinite, FS_EmptySet DEF CallsCounted
  <2> QED
      BY <1>2, <2>2 DEF GoTypeOK, ReturnedIdle
<1> QED
    BY <1>1, <1>2, <1>3, <1>4, <1>5

LEMMA CtxDoneStep ==
    ASSUME GoServerInv, NEW c \in Conn, CtxDone(c)
    PROVE  GoServerInv'
<1> USE DEF GoServerInv, Calls, CtxDone
<1>1. GoTypeOK'
    BY DEF GoTypeOK, regVars
<1>2. HandlersServed' /\ StoppersOwn' /\ RemovedForGood'
    BY RegUnchanged
<1>3. \A q : Running(q)' = Running(q)
    BY DEF Running
<1>4. CallsCounted' /\ ReturnedIdle'
    BY <1>3 DEF CallsCounted, ReturnedIdle
<1>5. ReadersFound' /\ FoundRegistered' /\ RunningOwn'
    BY DEF ReadersFound, FoundRegistered, RunningOwn, regVars
<1>6. ReaderReleased'
    BY DEF GoTypeOK, ReaderReleased
<1> QED
    BY <1>1, <1>2, <1>4, <1>5, <1>6

\* Both outcomes of reading the header.
LEMMA HeaderStep ==
    ASSUME GoServerInv, NEW c \in Conn,
           (\E f \in Func : HeaderRead(c, f)) \/ HeaderFailed(c)
    PROVE  GoServerInv'
<1> USE DEF GoServerInv, Calls, HeaderRead, HeaderFailed, HeaderInTime
<1>1. GoTypeOK'
  <2>1. ctx' \in [Conn -> {"armed", "stopped", "fired"}]
      BY DEF GoTypeOK
  <2>2. conn' \in [Conn -> Calls]
    <3>1. ASSUME NEW f \in Func, HeaderRead(c, f) PROVE conn' \in [Conn -> Calls]
      <4>1. conn \in [Conn -> Calls] /\ conn' = [conn EXCEPT ![c].pc = "read", ![c].func = f]
          BY <3>1 DEF GoTypeOK
      <4> HIDE DEF HeaderRead, HeaderFailed, GoServerInv
      <4> QED
          BY <4>1
    <3>2. CASE HeaderFailed(c)
        BY <3>2 DEF GoTypeOK
    <3> QED
        BY <3>1, <3>2
  <2> QED
      BY <2>1, <2>2 DEF GoTypeOK, regVars
<1>2. HandlersServed' /\ StoppersOwn' /\ RemovedForGood'
    BY RegUnchanged
<1>3. /\ conn[c].pc = "new" /\ conn'[c].pc \in {"read", "failed"}
      /\ \A d \in Conn \ {c} : conn'[d] = conn[d]
    BY DEF GoTypeOK
<1>4. \A q : Running(q)' = Running(q)
    BY <1>3 DEF Running
<1>5. CallsCounted' /\ ReturnedIdle'
    BY <1>4 DEF CallsCounted, ReturnedIdle
<1>6. ReadersFound' /\ FoundRegistered' /\ RunningOwn'
    BY <1>3 DEF ReadersFound, FoundRegistered, RunningOwn, regVars
<1>7. ReaderReleased'
    BY <1>3 DEF GoTypeOK, ReaderReleased
<1> QED
    BY <1>1, <1>2, <1>5, <1>6, <1>7

LEMMA LookupStep ==
    ASSUME GoServerInv, NEW c \in Conn, Lookup(c)
    PROVE  GoServerInv'
<1> USE DEF GoServerInv, Calls, Lookup
<1>1. GoTypeOK'
  <2>1. conn' \in [Conn -> Calls]
    <3> DEFINE r == handlers[conn[c].func]
    <3>1. CASE r = NoReg
        BY <3>1 DEF GoTypeOK
    <3>2. CASE r # NoReg
      <4>1. r \in Reg
          BY <3>2 DEF GoTypeOK
      <4> QED
          BY <3>2, <4>1 DEF GoTypeOK
    <3> QED
        BY <3>1, <3>2
  <2> QED
      BY <2>1 DEF GoTypeOK, regVars
<1>2. HandlersServed' /\ StoppersOwn' /\ RemovedForGood'
    BY RegUnchanged
<1>3. /\ conn[c].pc = "read" /\ conn'[c].pc \in {"found", "failed"}
      /\ \A d \in Conn \ {c} : conn'[d] = conn[d]
    BY DEF GoTypeOK
<1>4. \A q : Running(q)' = Running(q)
    BY <1>3 DEF Running
<1>5. CallsCounted' /\ ReturnedIdle'
    BY <1>4 DEF CallsCounted, ReturnedIdle
<1>6. ReadersFound'
  <2>1. readers' = IF conn'[c].pc = "found" THEN readers \cup {c} ELSE readers
      BY DEF GoTypeOK
  <2> HIDE DEF Lookup
  <2> QED
      BY <1>3, <2>1 DEF ReadersFound
<1>7. FoundRegistered'
    BY <1>3 DEF GoTypeOK, FoundRegistered, regVars
<1>8. RunningOwn' /\ ReaderReleased'
    BY <1>3 DEF GoTypeOK, RunningOwn, ReaderReleased
<1> QED
    BY <1>1, <1>2, <1>5, <1>6, <1>7, <1>8

LEMMA CallStep ==
    ASSUME GoServerInv, NEW c \in Conn, Call(c)
    PROVE  GoServerInv'
<1> DEFINE r == conn[c].reg
<1> USE DEF GoServerInv, Calls, Call
<1>1. r \in Reg /\ handlers[conn[c].func] = r /\ conn[c].func \in Func
    BY DEF GoTypeOK, FoundRegistered
<1>2. GoTypeOK'
    BY <1>1 DEF GoTypeOK, regVars
<1>3. HandlersServed' /\ StoppersOwn' /\ RemovedForGood'
    BY RegUnchanged
<1>4. /\ conn[c].pc = "found" /\ conn'[c].pc = "running" /\ conn'[c].reg = r
      /\ \A d \in Conn \ {c} : conn'[d] = conn[d]
    BY DEF GoTypeOK
<1>5. \A q : q # r => Running(q)' = Running(q)
    BY <1>4 DEF Running
<1>6. CallsCounted'
  <2>1. Running(r)' = Running(r) \cup {c} /\ c \notin Running(r)
      BY <1>4 DEF Running
  <2>2. Cardinality(Running(r)') = Cardinality(Running(r)) + 1
      BY <2>1, RunningFinite, FS_AddElement
  <2> QED
      BY <1>1, <1>5, <2>2 DEF GoTypeOK, CallsCounted
<1>7. ReturnedIdle'
  <2>1. \A s \in Stopper : stopper[s].pc = "returned" => stopper[s].reg # r
      BY <1>1 DEF RemovedForGood, Removed
  <2> QED
      BY <1>5, <2>1 DEF ReturnedIdle
<1>8. ReadersFound' /\ FoundRegistered' /\ RunningOwn' /\ ReaderReleased'
    BY <1>1, <1>4 DEF ReadersFound, FoundRegistered, RunningOwn, ReaderReleased, regVars
<1> QED
    BY <1>2, <1>3, <1>6, <1>7, <1>8

LEMMA FinishStep ==
    ASSUME GoServerInv, NEW c \in Conn, Finish(c)
    PROVE  GoServerInv'
<1> DEFINE r == conn[c].reg
<1> USE DEF GoServerInv, Calls, Finish
<1>1. r \in Reg
    BY DEF RunningOwn
<1>2. /\ conn[c].pc = "running" /\ conn'[c].pc = "finished"
      /\ \A d \in Conn \ {c} : conn'[d] = conn[d]
    BY DEF GoTypeOK
<1>3. Running(r)' = Running(r) \ {c} /\ c \in Running(r)
    BY <1>2 DEF Running
<1>4. \A q : q # r => Running(q)' = Running(q)
    BY <1>2 DEF Running
<1>5. /\ Cardinality(Running(r)') = Cardinality(Running(r)) - 1
      /\ Cardinality(Running(r)') \in Nat /\ Cardinality(Running(r)) \in Nat
    BY <1>3, RunningFinite, FS_RemoveElement, FS_CardinalityType
<1>6. wg[r] - 1 \in Nat
    BY <1>1, <1>5 DEF CallsCounted
<1>7. GoTypeOK'
    BY <1>1, <1>6 DEF GoTypeOK, regVars
<1>8. HandlersServed' /\ StoppersOwn' /\ RemovedForGood'
    BY RegUnchanged
<1>9. CallsCounted'
    BY <1>1, <1>4, <1>5 DEF GoTypeOK, CallsCounted
<1>10. ReturnedIdle'
    BY <1>3, <1>4 DEF ReturnedIdle
<1>11. ReadersFound' /\ FoundRegistered' /\ RunningOwn' /\ ReaderReleased'
    BY <1>2 DEF ReadersFound, FoundRegistered, RunningOwn, ReaderReleased, regVars
<1> QED
    BY <1>7, <1>8, <1>9, <1>10, <1>11

LEMMA GoServerStep == GoServerInv /\ [Next]_vars => GoServerInv'
<1> SUFFICES ASSUME GoServerInv, [Next]_vars PROVE GoServerInv'
    OBVIOUS
<1>1. CASE \E r \in Reg, f \in Func : Serve(r, f)
    BY <1>1, ServeStep
<1>2. CASE \E s \in Stopper : (\E r \in Reg : StopCancel(s, r)) \/ StopDelete(s) \/ StopReturn(s)
    BY <1>2, StopCancelStep, StopDeleteStep, StopReturnStep
<1>3. ASSUME NEW c \in Conn, CtxDone(c) PROVE GoServerInv'
    BY <1>3, CtxDoneStep
<1>4. ASSUME NEW c \in Conn, (\E f \in Func : HeaderRead(c, f)) \/ HeaderFailed(c)
      PROVE  GoServerInv'
    BY <1>4, HeaderStep
<1>5. ASSUME NEW c \in Conn, Lookup(c) PROVE GoServerInv'
    BY <1>5, LookupStep
<1>6. ASSUME NEW c \in Conn, Call(c) PROVE GoServerInv'
    BY <1>6, CallStep
<1>7. ASSUME NEW c \in Conn, Finish(c) PROVE GoServerInv'
    BY <1>7, FinishStep
<1>8. CASE UNCHANGED vars
  <2>1. \A r : Running(r)' = Running(r)
      BY <1>8 DEF vars, connVars, Running
  <2>2. CallsCounted' /\ ReturnedIdle'
      BY <1>8, <2>1 DEF GoServerInv, CallsCounted, ReturnedIdle, vars
  <2>3. HandlersServed' /\ StoppersOwn' /\ RemovedForGood'
      BY <1>8, RegUnchanged DEF vars
  <2> QED
      BY <1>8, <2>2, <2>3 DEF vars, regVars, connVars, GoServerInv, GoTypeOK, ReadersFound,
         FoundRegistered, RunningOwn, ReaderReleased
<1> QED
    BY <1>1, <1>2, <1>3, <1>4, <1>5, <1>6, <1>7, <1>8 DEF Next

LEMMA GoServerInvariant == Spec => []GoServerInv
BY GoServerInit, GoServerStep, PTL DEF Spec

\* Once the function Serve returned has returned (go/frame_server.go), no call
\* of the handler is running or about to begin, for any number of concurrent
\* calls of Accept, Serve and stop functions.
THEOREM StopsAreQuiet == Spec => []QuietAfterStop
<1>1. GoServerInv => QuietAfterStop
    BY DEF GoServerInv, GoTypeOK, Calls, FoundRegistered, RemovedForGood, Removed, ReturnedIdle,
       QuietAfterStop, Busy, Running
<1> QED
    BY GoServerInvariant, <1>1, PTL

\* Accept never calls a handler whose reader the context has closed or may
\* still close: the AfterFunc is stopped before the lookup.
THEOREM ReadersAreKept == Spec => []ReaderKept
<1>1. GoServerInv => ReaderKept
    BY DEF GoServerInv, ReaderReleased, ReaderKept
<1> QED
    BY GoServerInvariant, <1>1, PTL

\* A stop function, called late or twice, never removes a handler registered
\* by another call of Serve.
THEOREM StopsOnlyOwn == Spec => StopsOwn
<1> DEFINE OwnStep ==
        \A f \in Func : handlers[f] # NoReg /\ handlers'[f] # handlers[f] =>
            \E s \in Stopper : stopper[s].pc = "delete" /\ stopper[s].reg = handlers[f]
<1>1. GoServerInv /\ [Next]_vars => [OwnStep]_vars
  <2> SUFFICES ASSUME GoServerInv, Next PROVE OwnStep
      BY DEF vars
  <2>1. ASSUME NEW r \in Reg, NEW f \in Func, Serve(r, f) PROVE OwnStep
      BY <2>1 DEF GoServerInv, GoTypeOK, Serve
  <2>2. ASSUME NEW s \in Stopper, StopDelete(s) PROVE OwnStep
      BY <2>2 DEF GoServerInv, GoTypeOK, StopDelete, Removes
  <2>3. CASE UNCHANGED handlers
      BY <2>3
  <2> QED
      BY <2>1, <2>2, <2>3 DEF Next, StopCancel, StopReturn, CtxDone, HeaderRead, HeaderFailed,
         Lookup, Call, Finish, regVars
<1> QED
    BY GoServerInvariant, <1>1, PTL DEF Spec, StopsOwn

-----------------------------------------------------------------------------
(* The frame writer                                                        *)

Handles == [st : {"free", "live", "failing", "left", "waiting", "closed"},
            last : BOOLEAN, ret : {"none", "nil", "err"}]

\* The handles that may still send.
Active == {w \in Writer : writer[w].st \in {"live", "failing"}}

WriterTypeOK ==
    /\ writer \in [Writer -> Handles]
    /\ writers \in Nat /\ queue \in Nat /\ buffer \in Nat /\ sent \in Nat /\ written \in Nat
    /\ shut \in BOOLEAN
    /\ egress \in {"select", "recv", "finish", "defer", "gone"}

\* The shared count is that of the handles that may send; the handle that
\* counted it down to zero, and the channel's being closed, mean there is none.
HandlesCounted == writers = Cardinality(Active)
LastMeansNone == \A w \in Writer : writer[w].last => writers = 0
WaitingIsLast == \A w \in Writer : writer[w].st = "waiting" => writer[w].last
ShutMeansNone == shut => writers = 0

\* As long as the goroutine takes frames, none is lost, ...
NothingLost == egress \in {"select", "recv", "finish"} => sent = written + buffer + queue

\* ... it finishes with nothing left to write and nobody left to send, ...
FinishedMeansAll == egress = "finish" => queue = 0 /\ buffer = 0 /\ writers = 0

\* ... success is declared only after that, ...
DoneMeansAll ==
    cause = "done" => egress \in {"defer", "gone"} /\ written = sent /\ writers = 0

\* ... and it is what Close and the transport's end report.
NilMeansDone ==
    \A w \in Writer : writer[w].ret = "nil" =>
        writer[w].st = "closed" /\ (writer[w].last => cause = "done")
ClosedMeansDone == end = "closed" => cause = "done"

GoWriterInv ==
    /\ WriterTypeOK
    /\ HandlesCounted
    /\ LastMeansNone
    /\ WaitingIsLast
    /\ ShutMeansNone
    /\ NothingLost
    /\ FinishedMeansAll
    /\ DoneMeansAll
    /\ NilMeansDone
    /\ ClosedMeansDone

LEMMA ActiveFinite == IsFiniteSet(Active) /\ Cardinality(Active) \in Nat
<1>1. Active \in SUBSET Writer
    BY DEF Active
<1> QED
    BY <1>1, FS_Subset, FS_CardinalityType, GoWriterAssumption

\* With a count of zero, no handle is alive.
LEMMA NoneActive ==
    ASSUME HandlesCounted, writers = 0
    PROVE  \A w \in Writer : writer[w].st \notin {"live", "failing"}
BY ActiveFinite, FS_EmptySet DEF HandlesCounted, Active

LEMMA GoWriterInit == WriterInit => GoWriterInv
<1> SUFFICES ASSUME WriterInit PROVE GoWriterInv
    OBVIOUS
<1>1. WriterTypeOK
    BY DEF WriterInit, WriterTypeOK, Handles, NoWriter
<1>2. HandlesCounted
  <2>1. Active = {Root}
      BY GoWriterAssumption DEF WriterInit, Active, NoWriter
  <2> QED
      BY <2>1, FS_Singleton DEF WriterInit, HandlesCounted
<1>3. LastMeansNone /\ WaitingIsLast /\ NilMeansDone
    BY DEF WriterInit, NoWriter, LastMeansNone, WaitingIsLast, NilMeansDone
<1> QED
    BY <1>1, <1>2, <1>3 DEF WriterInit, GoWriterInv, ShutMeansNone, NothingLost, FinishedMeansAll,
       DoneMeansAll, ClosedMeansDone

LEMMA IndexStep ==
    ASSUME GoWriterInv, NEW w \in Writer, NEW v \in Writer, Index(w, v)
    PROVE  GoWriterInv'
<1> USE DEF GoWriterInv, Index, failVars, egressVars
<1>1. /\ writer[v].st = "free" /\ writer'[v] = [writer[v] EXCEPT !.st = "live"]
      /\ \A u \in Writer \ {v} : writer'[u] = writer[u]
    BY DEF WriterTypeOK
<1>2. writers # 0
    BY NoneActive
<1>3. WriterTypeOK'
    BY DEF WriterTypeOK, Handles
<1>4. HandlesCounted'
  <2>1. Active' = Active \cup {v} /\ v \notin Active
      BY <1>1 DEF WriterTypeOK, Handles, Active
  <2> QED
      BY <2>1, ActiveFinite, FS_AddElement DEF HandlesCounted
<1>5. LastMeansNone'
    BY <1>1, <1>2 DEF WriterTypeOK, Handles, LastMeansNone
<1>6. WaitingIsLast'
    BY <1>1 DEF WriterTypeOK, Handles, WaitingIsLast
<1>7. NilMeansDone'
    BY <1>1 DEF WriterTypeOK, Handles, NilMeansDone
<1>8. ShutMeansNone' /\ NothingLost' /\ FinishedMeansAll' /\ DoneMeansAll' /\ ClosedMeansDone'
    BY <1>2 DEF ShutMeansNone, NothingLost, FinishedMeansAll, DoneMeansAll, ClosedMeansDone
<1> QED
    BY <1>3, <1>4, <1>5, <1>6, <1>7, <1>8

LEMMA SendStep ==
    ASSUME GoWriterInv, NEW w \in Writer, Send(w)
    PROVE  GoWriterInv'
<1> USE DEF GoWriterInv, Send, failVars, egressVars
<1>1. writers # 0
    BY NoneActive
<1>2. WriterTypeOK'
    BY DEF WriterTypeOK
<1>3. HandlesCounted'
    BY DEF HandlesCounted, Active
<1>4. LastMeansNone' /\ WaitingIsLast' /\ ShutMeansNone' /\ NilMeansDone' /\ ClosedMeansDone'
    BY DEF LastMeansNone, WaitingIsLast, ShutMeansNone, NilMeansDone, ClosedMeansDone
<1>5. NothingLost'
    BY DEF WriterTypeOK, NothingLost
<1>6. FinishedMeansAll' /\ DoneMeansAll'
    BY <1>1 DEF FinishedMeansAll, DoneMeansAll
<1> QED
    BY <1>2, <1>3, <1>4, <1>5, <1>6

LEMMA LeaveStep ==
    ASSUME GoWriterInv, NEW w \in Writer, Leave(w)
    PROVE  GoWriterInv'
<1> USE DEF GoWriterInv, Leave, failVars, egressVars
<1>1. /\ writer[w].st \in {"live", "failing"}
      /\ writer'[w] = [writer[w] EXCEPT !.st = "left", !.last = (writers = 1)]
      /\ \A u \in Writer \ {w} : writer'[u] = writer[u]
    BY DEF WriterTypeOK
<1>2. /\ Active' = Active \ {w} /\ w \in Active
    BY <1>1 DEF WriterTypeOK, Handles, Active
<1>3. Cardinality(Active') = Cardinality(Active) - 1 /\ Cardinality(Active') \in Nat
    BY <1>2, ActiveFinite, FS_RemoveElement, FS_CardinalityType
<1>4. writers' \in Nat /\ writers' = Cardinality(Active')
    BY <1>3 DEF HandlesCounted
<1>5. WriterTypeOK'
  <2>1. writer' \in [Writer -> Handles]
    <3>1. [writer[w] EXCEPT !.st = "left", !.last = (writers = 1)] \in Handles
      <4>1. writer[w] \in Handles /\ (writers = 1) \in BOOLEAN
          BY DEF WriterTypeOK
      <4> QED
          BY <4>1 DEF Handles
    <3> QED
        BY <3>1 DEF WriterTypeOK
  <2> QED
      BY <1>4, <2>1 DEF WriterTypeOK
<1>6. HandlesCounted'
    BY <1>4 DEF HandlesCounted
<1>7. LastMeansNone'
    BY <1>1, <1>4 DEF WriterTypeOK, Handles, LastMeansNone
<1>8. WaitingIsLast' /\ NilMeansDone'
    BY <1>1 DEF WriterTypeOK, Handles, WaitingIsLast, NilMeansDone
<1>9. ShutMeansNone' /\ NothingLost' /\ FinishedMeansAll' /\ DoneMeansAll' /\ ClosedMeansDone'
    BY <1>1, NoneActive DEF ShutMeansNone, NothingLost, FinishedMeansAll, DoneMeansAll,
       ClosedMeansDone
<1> QED
    BY <1>5, <1>6, <1>7, <1>8, <1>9

\* What a step of a handle that may no longer send preserves.
LEMMA Retired ==
    ASSUME GoWriterInv, NEW w \in Writer,
           writer[w].st \in {"left", "waiting"}, writer' \in [Writer -> Handles],
           writer'[w].st \in {"waiting", "closed"}, writer'[w].last = writer[w].last,
           \A u \in Writer \ {w} : writer'[u] = writer[u],
           UNCHANGED <<writers, queue, sent, failVars, egressVars>>
    PROVE  /\ HandlesCounted' /\ LastMeansNone' /\ NothingLost' /\ FinishedMeansAll'
           /\ DoneMeansAll' /\ ClosedMeansDone'
<1> USE DEF GoWriterInv, failVars, egressVars
<1>1. Active' = Active
    BY DEF Active
<1>2. HandlesCounted'
    BY <1>1 DEF HandlesCounted
<1>3. LastMeansNone'
    BY DEF LastMeansNone
<1> QED
    BY <1>2, <1>3 DEF NothingLost, FinishedMeansAll, DoneMeansAll, ClosedMeansDone

LEMMA CloseChanStep ==
    ASSUME GoWriterInv, NEW w \in Writer, CloseChan(w)
    PROVE  GoWriterInv'
<1> USE DEF GoWriterInv, CloseChan
<1>1. /\ writer[w].st = "left" /\ writer[w].last
      /\ writer'[w] = [writer[w] EXCEPT !.st = "waiting"]
      /\ \A u \in Writer \ {w} : writer'[u] = writer[u]
    BY DEF WriterTypeOK
<1>2. WriterTypeOK'
    BY DEF WriterTypeOK, Handles, egressVars
<1>3. /\ HandlesCounted' /\ LastMeansNone' /\ NothingLost' /\ FinishedMeansAll'
      /\ DoneMeansAll' /\ ClosedMeansDone'
    BY <1>1, <1>2, Retired DEF WriterTypeOK, Handles
<1>4. WaitingIsLast' /\ NilMeansDone'
    BY <1>1 DEF WriterTypeOK, Handles, WaitingIsLast, NilMeansDone, failVars
<1>5. ShutMeansNone'
    BY <1>1 DEF ShutMeansNone, LastMeansNone
<1> QED
    BY <1>2, <1>3, <1>4, <1>5

LEMMA CloseReturnStep ==
    ASSUME GoWriterInv, NEW w \in Writer, CloseReturn(w)
    PROVE  GoWriterInv'
<1> DEFINE code == IF cause \in {"none", "done"} THEN "nil" ELSE "err"
<1> USE DEF GoWriterInv, CloseReturn, MayReturn
<1>1. /\ writer[w].st \in {"left", "waiting"}
      /\ writer'[w] = [writer[w] EXCEPT !.st = "closed", !.ret = code]
      /\ \A u \in Writer \ {w} : writer'[u] = writer[u]
    BY DEF WriterTypeOK
<1>2. writer[w].last => cause # "none"
    BY DEF WriterTypeOK, Handles
<1>3. WriterTypeOK'
    BY DEF WriterTypeOK, Handles, egressVars
<1>4. /\ HandlesCounted' /\ LastMeansNone' /\ NothingLost' /\ FinishedMeansAll'
      /\ DoneMeansAll' /\ ClosedMeansDone'
    BY <1>1, <1>3, Retired DEF WriterTypeOK, Handles
<1>5. WaitingIsLast' /\ ShutMeansNone'
    BY <1>1 DEF WriterTypeOK, Handles, WaitingIsLast, ShutMeansNone
<1>6. NilMeansDone'
    BY <1>1, <1>2 DEF WriterTypeOK, Handles, NilMeansDone, failVars
<1> QED
    BY <1>3, <1>4, <1>5, <1>6

LEMMA CloseWithErrorStep ==
    ASSUME GoWriterInv, NEW w \in Writer, CloseWithError(w)
    PROVE  GoWriterInv'
<1> USE DEF GoWriterInv, CloseWithError, egressVars
<1>1. /\ writer[w].st = "live" /\ writer'[w] = [writer[w] EXCEPT !.st = "failing"]
      /\ \A u \in Writer \ {w} : writer'[u] = writer[u]
    BY DEF WriterTypeOK
<1>2. WriterTypeOK'
    BY DEF WriterTypeOK, Handles
<1>3. HandlesCounted'
  <2>1. Active' = Active
      BY <1>1 DEF WriterTypeOK, Handles, Active
  <2> QED
      BY <2>1 DEF HandlesCounted
<1>4. LastMeansNone' /\ WaitingIsLast' /\ NilMeansDone'
    BY <1>1 DEF WriterTypeOK, Handles, LastMeansNone, WaitingIsLast, NilMeansDone
<1>5. ShutMeansNone' /\ NothingLost' /\ FinishedMeansAll' /\ DoneMeansAll' /\ ClosedMeansDone'
    BY DEF ShutMeansNone, NothingLost, FinishedMeansAll, DoneMeansAll, ClosedMeansDone
<1> QED
    BY <1>2, <1>3, <1>4, <1>5

\* What the steps that leave the handles alone preserve, if they keep a cause
\* once there is one.
LEMMA HandlesUnchanged ==
    ASSUME GoWriterInv, UNCHANGED <<writer, writers, shut>>, cause = "done" => cause' = "done"
    PROVE  HandlesCounted' /\ LastMeansNone' /\ WaitingIsLast' /\ ShutMeansNone' /\ NilMeansDone'
<1>1. HandlesCounted'
    BY DEF GoWriterInv, HandlesCounted, Active
<1> QED
    BY <1>1 DEF GoWriterInv, LastMeansNone, WaitingIsLast, ShutMeansNone, NilMeansDone

\* `fail`, and the cancellation of the caller's context.
LEMMA CauseStep ==
    ASSUME GoWriterInv, FailStep \/ ParentDone
    PROVE  GoWriterInv'
<1> USE DEF FailStep, FailCancel, FailClose, ParentDone, handleVars, egressVars
<1>1. HandlesCounted' /\ LastMeansNone' /\ WaitingIsLast' /\ ShutMeansNone' /\ NilMeansDone'
    BY HandlesUnchanged
<1>2. WriterTypeOK'
    BY DEF GoWriterInv, WriterTypeOK
<1>3. NothingLost' /\ FinishedMeansAll' /\ DoneMeansAll' /\ ClosedMeansDone'
    BY DEF GoWriterInv, NothingLost, FinishedMeansAll, DoneMeansAll, ClosedMeansDone
<1> QED
    BY <1>1, <1>2, <1>3 DEF GoWriterInv

\* The goroutine.
LEMMA EgressSteps ==
    ASSUME GoWriterInv, EgressStep \/ EgressFail
    PROVE  GoWriterInv'
<1>1. UNCHANGED <<writer, writers, shut, sent>> /\ (cause = "done" => cause' = "done")
    BY DEF EgressStep, EgressDone, EgressFrame, EgressIdle, EgressLast, EgressFinish, EgressDefer,
       EgressFail, handleVars, failVars
<1>2. HandlesCounted' /\ LastMeansNone' /\ WaitingIsLast' /\ ShutMeansNone' /\ NilMeansDone'
    BY <1>1, HandlesUnchanged
<1> SUFFICES WriterTypeOK' /\ NothingLost' /\ FinishedMeansAll' /\ DoneMeansAll' /\ ClosedMeansDone'
    BY <1>2 DEF GoWriterInv
<1> USE DEF GoWriterInv, handleVars, failVars, WriterTypeOK, NothingLost, FinishedMeansAll,
            DoneMeansAll, ClosedMeansDone
<1>3. CASE EgressDone
    BY <1>3 DEF EgressDone
<1>4. CASE EgressFrame
    BY <1>4 DEF EgressFrame
<1>5. CASE EgressIdle
    BY <1>5 DEF EgressIdle
<1>6. CASE EgressLast
    BY <1>6 DEF EgressLast, ShutMeansNone
<1>7. CASE EgressFinish
    BY <1>7 DEF EgressFinish
<1>8. CASE EgressDefer
    BY <1>8 DEF EgressDefer
<1>9. CASE EgressFail
    BY <1>9 DEF EgressFail
<1> QED
    BY <1>3, <1>4, <1>5, <1>6, <1>7, <1>8, <1>9 DEF EgressStep

LEMMA GoWriterStep == GoWriterInv /\ [WriterNext]_writerVars => GoWriterInv'
<1> SUFFICES ASSUME GoWriterInv, [WriterNext]_writerVars PROVE GoWriterInv'
    OBVIOUS
<1>1. ASSUME NEW w \in Writer, NEW v \in Writer, Index(w, v) PROVE GoWriterInv'
    BY <1>1, IndexStep
<1>2. ASSUME NEW w \in Writer,
             Send(w) \/ Leave(w) \/ CloseChan(w) \/ CloseReturn(w) \/ CloseWithError(w)
      PROVE  GoWriterInv'
    BY <1>2, SendStep, LeaveStep, CloseChanStep, CloseReturnStep, CloseWithErrorStep
<1>3. CASE FailStep \/ ParentDone
    BY <1>3, CauseStep
<1>4. CASE EgressStep \/ EgressFail
    BY <1>4, EgressSteps
<1>5. CASE UNCHANGED writerVars
  <2>1. HandlesCounted' /\ LastMeansNone' /\ WaitingIsLast' /\ ShutMeansNone' /\ NilMeansDone'
      BY <1>5, HandlesUnchanged DEF writerVars, handleVars, failVars
  <2> QED
      BY <1>5, <2>1 DEF GoWriterInv, WriterTypeOK, NothingLost, FinishedMeansAll, DoneMeansAll,
         ClosedMeansDone, writerVars, handleVars, failVars, egressVars
<1> QED
    BY <1>1, <1>2, <1>3, <1>4, <1>5 DEF WriterNext

LEMMA GoWriterInvariant == WriterSpec => []GoWriterInv
BY GoWriterInit, GoWriterStep, PTL DEF WriterSpec

\* No handle that may still call `sendFrame` (go/frame_writer.go) is left once
\* the channel is closed, so no send panics.
THEOREM SendsAreSafe == WriterSpec => []NoSendOnClosed
<1>1. GoWriterInv => NoSendOnClosed
    BY NoneActive DEF GoWriterInv, ShutMeansNone, NoSendOnClosed
<1> QED
    BY GoWriterInvariant, <1>1, PTL

\* Close of the last handle returns no error only if the transport took every
\* frame any handle sent.
THEOREM CloseIsTrue == WriterSpec => []CloseOkMeansWritten
<1>1. GoWriterInv => CloseOkMeansWritten
    BY DEF GoWriterInv, WriterTypeOK, Handles, NilMeansDone, DoneMeansAll, CloseOkMeansWritten
<1> QED
    BY GoWriterInvariant, <1>1, PTL

\* The transport is closed without an error only after every frame was
\* written and every handle closed, whatever failed or was cancelled meanwhile.
THEOREM CleanEndsAreTrue == WriterSpec => []CleanEndMeansAll
<1>1. GoWriterInv => CleanEndMeansAll
    BY DEF GoWriterInv, ClosedMeansDone, DoneMeansAll, CleanEndMeansAll
<1> QED
    BY GoWriterInvariant, <1>1, PTL
=============================================================================
