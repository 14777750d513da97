------------------------------ MODULE GoServer ------------------------------
(***************************************************************************)
(* The Go server (go/frame_server.go): functions are registered by Serve,  *)
(* unregistered by the function Serve returns, and called by Accept, each  *)
(* from any goroutine.  The stop function promises to return only once no  *)
(* call of the handler is left; it may be called more than once, and the   *)
(* function may be registered again meanwhile.                             *)
(*                                                                         *)
(* Accept holds `handlersMu` for reading from the lookup until the call is *)
(* counted, in several steps; the sections that hold it for writing are    *)
(* one step each, and need that no reader holds it.                        *)
(***************************************************************************)
EXTENDS Naturals, FiniteSets

CONSTANTS
    Func,       \* function names
    Reg,        \* calls of Serve
    NoReg,      \* no registration
    Stopper,    \* calls of stop functions
    Conn        \* calls of Accept

ASSUME GoServerAssumption ==
    NoReg \notin Reg /\ Func # {} /\ IsFiniteSet(Reg) /\ IsFiniteSet(Conn)

VARIABLES
    handlers,   \* `FramedServer::handlers`
    reg,        \* the calls of Serve: [st, func]
    cancelled,  \* registrations whose context is cancelled
    wg,         \* their wait groups
    stopper,    \* the calls of stop functions: [pc, reg]
    conn,       \* the calls of Accept: [pc, func, reg]
    ctx,        \* their context: the AfterFunc is "armed", "stopped" or "fired"
    readers     \* who holds `handlersMu` for reading

regVars == <<handlers, reg, cancelled>>
connVars == <<conn, ctx, readers>>
vars == <<regVars, wg, stopper, connVars>>

Init ==
    /\ handlers = [f \in Func |-> NoReg]
    /\ reg = [r \in Reg |-> [st |-> "new", func |-> CHOOSE f \in Func : TRUE]]
    /\ cancelled = {} /\ wg = [r \in Reg |-> 0]
    /\ stopper = [s \in Stopper |-> [pc |-> "new", reg |-> NoReg]]
    /\ conn = [c \in Conn |-> [pc |-> "new", func |-> CHOOSE f \in Func : TRUE, reg |-> NoReg]]
    /\ ctx = [c \in Conn |-> "armed"] /\ readers = {}

-----------------------------------------------------------------------------
(* Registration                                                            *)

Serve(r, f) ==
    /\ reg[r].st = "new" /\ readers = {}
    /\ IF handlers[f] = NoReg
       THEN /\ handlers' = [handlers EXCEPT ![f] = r]
            /\ reg' = [reg EXCEPT ![r] = [st |-> "served", func |-> f]]
            /\ UNCHANGED cancelled
       ELSE /\ cancelled' = cancelled \cup {r}
            /\ reg' = [reg EXCEPT ![r] = [st |-> "refused", func |-> f]]
            /\ UNCHANGED handlers
    /\ UNCHANGED <<wg, stopper, connVars>>

\* The stop function: the context is cancelled, ...
StopCancel(s, r) ==
    /\ stopper[s].pc = "new" /\ reg[r].st = "served"
    /\ cancelled' = cancelled \cup {r}
    /\ stopper' = [stopper EXCEPT ![s] = [pc |-> "delete", reg |-> r]]
    /\ UNCHANGED <<handlers, reg, wg, connVars>>

\* ... the handler removed, unless another one took its place, ...
RemovesAny(r) == handlers[reg[r].func] # NoReg
Removes(r) == handlers[reg[r].func] = r
StopDelete(s) ==
    LET r == stopper[s].reg
    IN  /\ stopper[s].pc = "delete" /\ readers = {}
        /\ handlers' = IF Removes(r) THEN [handlers EXCEPT ![reg[r].func] = NoReg] ELSE handlers
        /\ stopper' = [stopper EXCEPT ![s].pc = "wait"]
        /\ UNCHANGED <<reg, cancelled, wg, connVars>>

\* ... and the calls waited for.
StopReturn(s) ==
    /\ stopper[s].pc = "wait" /\ wg[stopper[s].reg] = 0
    /\ stopper' = [stopper EXCEPT ![s].pc = "returned"]
    /\ UNCHANGED <<regVars, wg, connVars>>

-----------------------------------------------------------------------------
(* Accept                                                                  *)

\* The context of Accept is done: its AfterFunc closes the reader.
CtxDone(c) ==
    /\ ctx[c] = "armed" /\ ctx' = [ctx EXCEPT ![c] = "fired"]
    /\ UNCHANGED <<regVars, wg, stopper, conn, readers>>

\* The header is read, and the AfterFunc stopped, if it did not run yet.
HeaderLate(c) == TRUE
HeaderInTime(c) == ctx[c] = "armed"
HeaderRead(c, f) ==
    /\ conn[c].pc = "new" /\ HeaderInTime(c)
    /\ ctx' = [ctx EXCEPT ![c] = IF ctx[c] = "armed" THEN "stopped" ELSE ctx[c]]
    /\ conn' = [conn EXCEPT ![c].pc = "read", ![c].func = f]
    /\ UNCHANGED <<regVars, wg, stopper, readers>>

\* It could not be read, or not in time: both streams are closed.
HeaderFailed(c) ==
    /\ conn[c].pc = "new"
    /\ ctx' = [ctx EXCEPT ![c] = IF ctx[c] = "armed" THEN "stopped" ELSE ctx[c]]
    /\ conn' = [conn EXCEPT ![c].pc = "failed"]
    /\ UNCHANGED <<regVars, wg, stopper, readers>>

\* The handler is looked up, under the mutex, ...
UnlockedLookup(c) ==
    LET r == handlers[conn[c].func]
    IN  /\ conn[c].pc = "read" /\ r # NoReg
        /\ conn' = [conn EXCEPT ![c].pc = "found", ![c].reg = r]
        /\ UNCHANGED <<regVars, wg, stopper, ctx, readers>>
Lookup(c) ==
    LET r == handlers[conn[c].func]
    IN  /\ conn[c].pc = "read"
        /\ IF r = NoReg
           THEN /\ conn' = [conn EXCEPT ![c].pc = "failed"]
                /\ UNCHANGED readers
           ELSE /\ conn' = [conn EXCEPT ![c].pc = "found", ![c].reg = r]
                /\ readers' = readers \cup {c}
        /\ UNCHANGED <<regVars, wg, stopper, ctx>>

\* ... its call counted and begun, and the mutex released.
Call(c) ==
    /\ conn[c].pc = "found"
    /\ wg' = [wg EXCEPT ![conn[c].reg] = @ + 1]
    /\ conn' = [conn EXCEPT ![c].pc = "running"]
    /\ readers' = readers \ {c}
    /\ UNCHANGED <<regVars, stopper, ctx>>

\* The handler returns.
FinishUncounted(c) ==
    /\ conn[c].pc = "running"
    /\ conn' = [conn EXCEPT ![c].pc = "finished"]
    /\ UNCHANGED <<regVars, wg, stopper, ctx, readers>>
Finish(c) ==
    /\ conn[c].pc = "running"
    /\ wg' = [wg EXCEPT ![conn[c].reg] = @ - 1]
    /\ conn' = [conn EXCEPT ![c].pc = "finished"]
    /\ UNCHANGED <<regVars, stopper, ctx, readers>>

-----------------------------------------------------------------------------
Next ==
    \/ \E r \in Reg, f \in Func : Serve(r, f)
    \/ \E s \in Stopper : (\E r \in Reg : StopCancel(s, r)) \/ StopDelete(s) \/ StopReturn(s)
    \/ \E c \in Conn :
        \/ CtxDone(c)
        \/ \E f \in Func : HeaderRead(c, f)
        \/ HeaderFailed(c)
        \/ Lookup(c)
        \/ Call(c)
        \/ Finish(c)

\* Goroutines run, a writer waiting for `handlersMu` is not starved by readers
\* (sync.RWMutex), and a handler whose context is cancelled returns.
Fairness ==
    /\ \A s \in Stopper : SF_vars(StopDelete(s)) /\ WF_vars(StopReturn(s))
    /\ \A c \in Conn : WF_vars(Call(c)) /\ WF_vars(conn[c].reg \in cancelled /\ Finish(c))

Spec == Init /\ [][Next]_vars /\ Fairness

-----------------------------------------------------------------------------
(* Properties                                                              *)

Busy(r) == {c \in Conn : conn[c].pc \in {"found", "running"} /\ conn[c].reg = r}

\* Once a stop function returned, no call of the handler is running or about
\* to begin, however Accept raced with it.
QuietAfterStop ==
    \A s \in Stopper : stopper[s].pc = "returned" => Busy(stopper[s].reg) = {}

\* A function loses its handler only by the stop function of that handler: one
\* called late, or twice, does not remove a handler registered since.
StopsOwn ==
    [][\A f \in Func : handlers[f] # NoReg /\ handlers'[f] # handlers[f] =>
        \E s \in Stopper : stopper[s].pc = "delete" /\ stopper[s].reg = handlers[f]]_vars

\* A handler is never called with a reader that the context of Accept closed,
\* or may still close.
ReaderKept == \A c \in Conn : conn[c].pc \in {"found", "running"} => ctx[c] = "stopped"

\* A stop function returns.
StopEnds == \A s \in Stopper : stopper[s].pc = "delete" ~> stopper[s].pc = "returned"
=============================================================================
