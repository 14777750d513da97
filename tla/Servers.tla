------------------------------ MODULE Servers ------------------------------
(***************************************************************************)
(* The servers of an invocation.  In Rust, the registry                    *)
(* (frame/conn/server.rs) gives it to the stub that wit-bindgen-rust       *)
(* generates over `serve_values` (transport/src/serve.rs), or to a wasm    *)
(* host that calls an export, in a store of its own or in a store shared   *)
(* by calls (wasmtime/src/serve.rs, lib.rs).  In Go, FramedServer gives it *)
(* to the function that wit-bindgen-go generates for an export.            *)
(***************************************************************************)
EXTENDS Exchange

Shared == kind.server = "shared"

\* A connection or an invocation is dropped, with all that was started for it,
\* except for a parameter that a guest in a shared store has.
KeepConnection == UNCHANGED <<up, down>>
DropConnection ==
    /\ up' = IF Shared /\ srv \in {"handler", "tx"} /\ params.st = "open" THEN up ELSE DropReader(up)
    /\ down' = DropWriter(down)
DropInvocation ==
    /\ srv' = "err" /\ DropConnection
    /\ prx' = IF prx = "run" THEN "dropped" ELSE prx

\* The synchronous parameters, after which a task receives the others or not;
\* or a failure
ParamsRead(task) ==
    /\ Has(up, "sync") /\ up' = Read(up) /\ srv' = "handler" /\ prx' = task
    /\ UNCHANGED <<kind, down, client, serving, params, store, wrote, taken, cause>>
InvocationDropped ==
    /\ DropInvocation
    /\ UNCHANGED <<kind, client, serving, params, store, wrote, taken, cause>>

\* The handler returns, at any time, or fails.
HandlerReturned ==
    /\ srv = "handler" /\ srv' = "tx"
    /\ UNCHANGED <<kind, up, down, client, serving, prx, params, store, wrote, taken, cause>>
HandlerFailed ==
    /\ srv = "handler" /\ DropInvocation /\ cause' = cause \cup {"handler"}
    /\ UNCHANGED <<kind, client, serving, params, store, wrote, taken>>

\* The results are written, synchronous ones first, then the writer dropped.
AbortAfterResults == up' = DropReader(up) /\ prx' = "failed"
AfterResults == UNCHANGED <<up, prx>>
ResultWritten(v, after) ==
    /\ srv = "tx" /\ CanWrite(down) /\ v \in NextOf(wrote.down)
    /\ wrote' = [wrote EXCEPT !.down = Append(@, v)]
    /\ IF v = "end" THEN down' = DropWriter(Written(down, v)) /\ srv' = after /\ AfterResults
       ELSE down' = Written(down, v) /\ UNCHANGED <<up, srv, prx>>
    /\ UNCHANGED <<kind, client, serving, params, store, taken, cause>>

-----------------------------------------------------------------------------
(* The registry: server.rs                                                 *)

\* `serve` registers the function, once.  Dropping the stream leaves it
\* registered, and drops the connections that wait in it.
Registered ==
    /\ serving = "none" /\ serving' = "open"
    /\ UNCHANGED <<kind, up, down, client, srv, prx, params, store, wrote, taken, cause>>
Serve == Stub /\ Registered
StoreServe == kind.server = "store" /\ Registered
SharedServe == Shared /\ Registered
ServeDrop ==
    /\ ~GoServer /\ serving = "open" /\ serving' = "dropped"
    /\ cause' = cause \cup {"unserved"}
    /\ IF srv = "queued" THEN DropInvocation ELSE UNCHANGED <<up, down, srv, prx>>
    /\ UNCHANGED <<kind, client, params, store, wrote, taken>>

\* `accept`: the header arrives, and the connection is sent to the stream.
Accept ==
    /\ ~GoServer /\ srv = "off" /\ up.q # <<>> /\ serving = "open"
    /\ srv' = "queued"
    /\ UNCHANGED <<kind, up, down, client, serving, prx, params, store, wrote, taken, cause>>
\* It does not arrive, or nobody serves the function any more, or yet.
AcceptFail ==
    /\ ~GoServer /\ srv = "off"
    /\ Over(up) \/ (up.q # <<>> /\ serving # "open")
    /\ DropInvocation
    /\ cause' = IF Over(up) THEN cause ELSE cause \cup {"unserved"}
    /\ UNCHANGED <<kind, client, serving, params, store, wrote, taken>>

-----------------------------------------------------------------------------
(* The stub: transport/src/serve.rs, wit-bindgen-rust                      *)

ReceiveParams == Stub /\ srv = "queued" /\ serving = "open" /\ ParamsRead("run")
ReceiveParamsFail == Stub /\ srv = "queued" /\ serving = "open" /\ Over(up) /\ InvocationDropped

\* The task that receives the parameter: an element, the end, or a failure.
\* Whichever way it ends, it drops the reader.
ReceiveParam ==
    /\ Stub /\ prx = "run" /\ Has(up, "data")
    /\ params.st = "left" \/ params.n < StreamCapacity
    /\ IF params.st = "left" THEN prx' = "failed" /\ up' = DropReader(up) /\ UNCHANGED params
       ELSE up' = Read(up) /\ params' = [params EXCEPT !.n = @ + 1] /\ UNCHANGED prx
    /\ UNCHANGED <<kind, down, client, serving, srv, store, wrote, taken, cause>>
ReceiveParamEnd ==
    /\ Stub /\ prx = "run" /\ Has(up, "end")
    /\ prx' = "done" /\ up' = DropReader(Read(up))
    /\ UNCHANGED <<kind, down, client, serving, srv, params, store, wrote, taken, cause>>
ReceiveParamFail ==
    /\ Stub /\ prx = "run" /\ Over(up)
    /\ prx' = "failed" /\ up' = DropReader(up)
    /\ UNCHANGED <<kind, down, client, serving, srv, params, store, wrote, taken, cause>>

\* The handler, or whom it gave the stream to, reads it to its end, or stops.
\* A stream whose receipt failed never ends.
TakeParam ==
    /\ params.n > 0 /\ params.st = "open"
    /\ params' = [params EXCEPT !.n = @ - 1]
    /\ UNCHANGED <<kind, up, down, client, serving, srv, prx, store, wrote, taken, cause>>
EndParam ==
    /\ params.n = 0 /\ params.st = "open" /\ prx = "done"
    /\ params' = [params EXCEPT !.st = "end"]
    /\ UNCHANGED <<kind, up, down, client, serving, srv, prx, store, wrote, taken, cause>>
LeaveParam ==
    /\ prx # "none" /\ params.st = "open"
    /\ params' = [params EXCEPT !.st = "left"] /\ cause' = cause \cup {"handler"}
    /\ UNCHANGED <<kind, up, down, client, serving, srv, prx, store, wrote, taken>>

\* The results, after which the receipt of the parameters is awaited.
Return == Stub /\ HandlerReturned
ReturnFail == Stub /\ HandlerFailed
WriteResult(v) == Stub /\ ResultWritten(v, "await")
WriteResultFail == Stub /\ srv = "tx" /\ CannotWrite(down) /\ InvocationDropped
ReceiptDone ==
    /\ srv = "await" /\ prx \in {"done", "failed"}
    /\ srv' = IF prx = "done" THEN "ok" ELSE "err"
    /\ UNCHANGED <<kind, up, down, client, serving, prx, params, store, wrote, taken, cause>>
Await == Stub /\ ReceiptDone

-----------------------------------------------------------------------------
(* A host that calls an export: wasmtime/src/serve.rs, lib.rs              *)

\* It takes the invocation from the stream, and instantiates the component or
\* sends a task to the event loop of the shared store, which may have stopped.
Started ==
    /\ srv = "queued" /\ serving = "open" /\ srv' = "sent"
    /\ UNCHANGED <<kind, up, down, client, serving, prx, params, store, wrote, taken, cause>>
StoreStart == kind.server = "store" /\ Started
SharedStart == Shared /\ store = "open" /\ Started
SharedStartFail == Shared /\ srv = "queued" /\ store = "stopped" /\ InvocationDropped

\* `call`: the synchronous parameters, then the function.
HostParams == HostServer /\ srv = "sent" /\ ParamsRead("none")
HostParamsFail == HostServer /\ srv = "sent" /\ Over(up) /\ InvocationDropped

\* The guest reads its parameter from the connection while its store lives,
\* which a shared one does after the call.
GuestHas ==
    /\ HostServer /\ params.st = "open"
    /\ srv \in (IF Shared THEN {"handler", "tx", "ok", "err"} ELSE {"handler", "tx", "await"})
    /\ ~up.gone
HostTakeParam ==
    /\ GuestHas /\ Has(up, "data")
    /\ up' = Read(up)
    /\ UNCHANGED <<kind, down, client, server, wrote, taken, cause>>
HostEndParam ==
    /\ GuestHas /\ Has(up, "end")
    /\ up' = DropReader(Read(up)) /\ params' = [params EXCEPT !.st = "end"]
    /\ UNCHANGED <<kind, down, client, serving, srv, prx, store, wrote, taken, cause>>
HostParamFail ==
    /\ GuestHas /\ Over(up)
    /\ up' = DropReader(up) /\ params' = [params EXCEPT !.st = "failed"]
    /\ UNCHANGED <<kind, down, client, serving, srv, prx, store, wrote, taken, cause>>
HostLeaveParam ==
    /\ GuestHas
    /\ up' = DropReader(up) /\ params' = [params EXCEPT !.st = "left"]
    /\ cause' = cause \cup {"handler"}
    /\ UNCHANGED <<kind, down, client, serving, srv, prx, store, wrote, taken>>

\* The results, after which a call in a shared store is done, and another
\* awaits the tasks of the guest.
HostReturn == HostServer /\ HandlerReturned
HostReturnFail == HostServer /\ HandlerFailed
HostWriteResult(v) == HostServer /\ ResultWritten(v, IF Shared THEN "ok" ELSE "await")
HostWriteResultFail == HostServer /\ srv = "tx" /\ CannotWrite(down) /\ InvocationDropped

\* A store ends, with what its guest has, once the guest has no tasks left ...
EndStore ==
    /\ up' = DropReader(up)
    /\ params' = [params EXCEPT !.st = IF @ = "open" THEN "left" ELSE @]
HostAwait ==
    /\ HostServer /\ srv = "await" /\ srv' = "ok"
    /\ EndStore
    /\ cause' = IF params.st = "open" THEN cause \cup {"handler"} ELSE cause
    /\ UNCHANGED <<kind, down, client, serving, prx, store, wrote, taken>>
\* ... or when the guest traps, a shared one by the fault of any of its calls.
StoreTrap ==
    /\ kind.server = "store" /\ store = "open" /\ srv \in {"sent", "handler", "tx", "await"}
    /\ store' = "stopped" /\ cause' = cause \cup {"trap"}
    /\ EndStore /\ srv' = "err" /\ down' = DropWriter(down)
    /\ UNCHANGED <<kind, client, serving, prx, wrote, taken>>
SharedTrap ==
    /\ Shared /\ store = "open" /\ store' = "stopped" /\ cause' = cause \cup {"trap"}
    /\ IF srv \in {"off", "queued"} THEN UNCHANGED <<up, params>> ELSE EndStore
    /\ IF srv \in {"sent", "handler", "tx"} THEN srv' = "err" /\ down' = DropWriter(down)
       ELSE UNCHANGED <<srv, down>>
    /\ UNCHANGED <<kind, client, serving, prx, wrote, taken>>
\* The server drops the call, and a store of its own with it.
HostCancel ==
    /\ HostServer /\ srv \in {"sent", "handler", "tx", "await"}
    /\ DropInvocation /\ cause' = cause \cup {"cancel"}
    /\ UNCHANGED <<kind, client, serving, params, store, wrote, taken>>

-----------------------------------------------------------------------------
(* The function generated for a Go export: `generate_exports`              *)

\* Whatever fails resets the connection.
GoFails(why) ==
    /\ srv' = "err" /\ ResetBoth /\ cause' = cause \cup why
    /\ UNCHANGED <<kind, client, serving, prx, params, store, wrote, taken>>

\* Stopping cancels the context of the handlers that run.
GoServe == GoServer /\ Registered
GoStop ==
    /\ GoServer /\ serving = "open" /\ serving' = "dropped"
    /\ cause' = cause \cup {"unserved"}
    /\ UNCHANGED <<kind, up, down, client, srv, prx, params, store, wrote, taken>>
Cancelled == serving = "dropped" \/ srv = "err"

\* The header arrives, and the function is called in a goroutine; or it does
\* not arrive, or the function is not served.
GoAccept ==
    /\ GoServer /\ srv = "off" /\ up.q # <<>> /\ serving = "open"
    /\ srv' = "sent"
    /\ UNCHANGED <<kind, up, down, client, serving, prx, params, store, wrote, taken, cause>>
GoAcceptFail ==
    /\ GoServer /\ srv = "off"
    /\ Over(up) \/ (up.q # <<>> /\ serving # "open")
    /\ GoFails(IF Over(up) THEN {} ELSE {"unserved"})

\* The writer sees that the context is done.
GoCancelled ==
    /\ GoServer /\ serving = "dropped" /\ srv \in {"sent", "handler", "tx"} /\ down.end = "open"
    /\ ResetBoth
    /\ UNCHANGED <<kind, client, server, wrote, taken, cause>>

GoParams == GoServer /\ srv = "sent" /\ ParamsRead("run")
GoParamsFail == GoServer /\ srv = "sent" /\ (Over(up) \/ Cancelled) /\ GoFails({})

\* The goroutine that receives the parameter hands each element to the handler,
\* and closes the channel at the end; if it fails it resets the connection.
GoReceiveParam ==
    /\ GoServer /\ prx = "run" /\ Has(up, "data") /\ params.n = 0
    /\ up' = Read(up) /\ params' = [params EXCEPT !.n = 1]
    /\ UNCHANGED <<kind, down, client, serving, srv, prx, store, wrote, taken, cause>>
GoReceiveParamEnd ==
    /\ GoServer /\ prx = "run" /\ Has(up, "end") /\ params.n = 0
    /\ prx' = "done" /\ up' = DropReader(Read(up))
    /\ UNCHANGED <<kind, down, client, serving, srv, params, store, wrote, taken, cause>>
GoReceiveParamFail ==
    /\ GoServer /\ prx = "run" /\ ((params.n = 0 /\ Over(up)) \/ Cancelled)
    /\ prx' = "failed"
    /\ \E keep \in BOOLEAN : up' = DropReader(Reset(up, keep)) /\ down' = Reset(down, keep)
    /\ UNCHANGED <<kind, client, serving, srv, params, store, wrote, taken, cause>>

\* The results, after which the receipt of the parameter is awaited.
GoReturn == GoServer /\ HandlerReturned
GoReturnFail == GoServer /\ srv = "handler" /\ GoFails({"handler"})
GoWriteResult(v) == GoServer /\ ResultWritten(v, "await")
GoWriteResultFail == GoServer /\ srv = "tx" /\ (CannotWrite(down) \/ Cancelled) /\ GoFails({})
GoAwait == GoServer /\ ReceiptDone
=============================================================================
