------------------------------ MODULE Exchange ------------------------------
(***************************************************************************)
(* What the two sides of an invocation share: the connection, the state of *)
(* the client and of the server, and what the properties remember.         *)
(*                                                                         *)
(* The function has a stream parameter and a stream result.  The two       *)
(* directions of the connection promise what Connection shows of one: what *)
(* is written arrives in order and is followed by the end, if the writer   *)
(* is dropped, or by a reset, if the transport fails or a side gives it    *)
(* up; a writer may fail once nobody reads, and data nobody read is noted  *)
(* by the reader's side.  What travels is "sync", the synchronous values,  *)
(* then "data", the elements of the stream, and its "end".                 *)
(***************************************************************************)
EXTENDS Naturals, Sequences

CONSTANTS
    Kinds,          \* the clients and servers: [client, server, timeout]
    Capacity,       \* what a direction holds
    StreamCapacity, \* of the channel a stream is received on in Rust: 128
    MaxData         \* bound: elements of a stream

ASSUME ExchangeAssumption == {Capacity, StreamCapacity} \subseteq Nat \ {0} /\ MaxData \in Nat

ASSUME KindAssumption ==
    Kinds \subseteq [client : {"typed", "blocking", "host", "guest", "go"},
                     server : {"stub", "store", "shared", "go"}, timeout : BOOLEAN]

VARIABLES
    kind,       \* who calls whom
    up, down,   \* the directions: [q, end, gone, lost], gone: nobody reads any more
    serving,    \* the function: "none" served yet, "open" or "dropped"
    call,       \* the client: "start", "wait" for the results, "io", "ok" or "err"
    ptx,        \* its task that writes the parameter: "none", "run", "done", "failed" or "dropped"
    rrx,        \* its receipt of the result: "none", "run", "done" or "failed"
    results,    \* the application's stream: [n, st], n elements buffered
    srv,        \* the server: "off", "queued", "sent", "handler", "tx", "await", "ok" or "err"
    prx,        \* its task that receives the parameter: as ptx
    params,     \* the handler's stream: [n, st]
    store,      \* the event loop of a shared store: "open" or "stopped"
    wrote,      \* history, by direction: what was written
    taken,      \* history: how much of the results the client took
    cause       \* history: what makes an invocation fail

client == <<call, ptx, rrx, results>>
server == <<serving, srv, prx, params, store>>
vars == <<kind, up, down, client, server, wrote, taken, cause>>

Typed == kind.client \in {"typed", "blocking"}
Host == kind.client = "host"
Guest == kind.client = "guest"
GoClient == kind.client = "go"

Stub == kind.server = "stub"
HostServer == kind.server \in {"store", "shared"}
GoServer == kind.server = "go"

Direction == [q |-> <<>>, end |-> "open", gone |-> FALSE, lost |-> FALSE]
Stream == [n |-> 0, st |-> "open"]

\* The channels of a guest exist before its invocation is transmitted.
Init ==
    /\ kind \in Kinds /\ store = "open" /\ taken = 0
    /\ up = Direction /\ down = Direction
    /\ serving = "none" /\ call = "start" /\ ptx = (IF Guest THEN "run" ELSE "none") /\ rrx = "none" /\ results = Stream
    /\ srv = "off" /\ prx = "none" /\ params = Stream
    /\ wrote = [up |-> <<>>, down |-> <<>>] /\ cause = {}

-----------------------------------------------------------------------------
(* A direction                                                             *)

CanWrite(d) == d.end = "open" /\ (d.gone \/ Len(d.q) < Capacity)
CannotWrite(d) == d.gone \/ d.end = "reset"
Written(d, v) == IF d.gone THEN [d EXCEPT !.lost = TRUE] ELSE [d EXCEPT !.q = Append(@, v)]
DropWriter(d) == [d EXCEPT !.end = IF @ = "open" THEN "fin" ELSE @]
DropReader(d) == [d EXCEPT !.gone = TRUE, !.lost = @ \/ (~d.gone /\ d.q # <<>>)]

Has(d, v) == d.q # <<>> /\ Head(d.q) = v
Read(d) == [d EXCEPT !.q = Tail(@)]
Over(d) == d.q = <<>> /\ d.end # "open"

\* The connection is reset, with or without what was under way.
Reset(d, keep) == [d EXCEPT !.end = "reset", !.q = IF keep THEN @ ELSE <<>>]
ResetBoth == \E keep \in BOOLEAN : up' = Reset(up, keep) /\ down' = Reset(down, keep)
\* ... by the client, which reads no more
ResetAndLeave == \E keep \in BOOLEAN : up' = Reset(up, keep) /\ down' = DropReader(Reset(down, keep))

\* What a task that writes a stream may write next.
Elements(ws) == Len(SelectSeq(ws, LAMBDA v : v = "data"))
NextOf(ws) == IF ws = <<>> THEN {"sync"} ELSE IF Elements(ws) < MaxData THEN {"data", "end"} ELSE {"end"}

TransportFail ==
    /\ call # "start" /\ "reset" \notin {up.end, down.end}
    /\ ResetBoth /\ cause' = cause \cup {"transport"}
    /\ UNCHANGED <<kind, client, server, wrote, taken>>
=============================================================================
