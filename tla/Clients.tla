------------------------------ MODULE Clients ------------------------------
(***************************************************************************)
(* The clients of an invocation: a typed one (transport/src/invoke.rs),    *)
(* which returns the results at once or blocks until all is done; a wasm   *)
(* host that polyfills an import (wasmtime/src/polyfill.rs); a guest that  *)
(* uses `wrpc:rpc` itself (wasmtime/src/rpc); and the function that        *)
(* wit-bindgen-go generates for an import.  Each operation of a kind is an *)
(* action of its own, over what the kinds have in common.                  *)
(***************************************************************************)
EXTENDS Exchange

\* What a call that ends drops: the task is aborted.  A result that a host has
\* given to its guest stays in the store.
DropCall(end) ==
    /\ call' = end
    /\ ptx' = IF ptx = "run" THEN "dropped" ELSE ptx
    /\ up' = DropWriter(up)
    /\ down' = IF Host /\ rrx = "run" THEN down ELSE DropReader(down)

\* The synchronous parameters are written with the header, or the connection is
\* not made, fails, or is given up.
StartCall ==
    /\ call = "start" /\ call' = "wait" /\ ptx' = "run"
    /\ up' = Written(up, "sync") /\ wrote' = [wrote EXCEPT !.up = <<"sync">>]
    /\ UNCHANGED <<kind, down, rrx, results, server, taken, cause>>
CallFails ==
    /\ call = "start" /\ call' = "err" /\ cause' = cause \cup {"invoke"}
    /\ up' = [up EXCEPT !.end = "reset"] /\ down' = DropReader(down)
    /\ UNCHANGED <<kind, ptx, rrx, results, server, wrote, taken>>

\* The task that writes the parameter: its next element, or its end, which
\* drops the writer ...
ParamWritten(v) ==
    /\ ptx = "run" /\ CanWrite(up) /\ v \in NextOf(wrote.up)
    /\ wrote' = [wrote EXCEPT !.up = Append(@, v)]
    /\ up' = IF v = "end" THEN DropWriter(Written(up, v)) ELSE Written(up, v)
    /\ ptx' = IF v = "end" THEN "done" ELSE "run"
    /\ UNCHANGED <<kind, down, call, rrx, results, server, taken, cause>>
\* ... or a failure.
ParamFails ==
    /\ ptx = "run" /\ CannotWrite(up)
    /\ ptx' = "failed"
    /\ UNCHANGED <<kind, call, rrx, results, server, wrote, taken, cause>>

\* The synchronous results, whether or not the parameter is written yet
ResultsRead ==
    /\ call = "wait" /\ Has(down, "sync")
    /\ down' = Read(down) /\ taken' = taken + 1
    /\ call' = "io" /\ rrx' = "run"
    /\ UNCHANGED <<kind, up, results, server, wrote, cause>>

\* The task fails first, or the results do not come.
CallDropped ==
    /\ DropCall("err")
    /\ UNCHANGED <<kind, rrx, results, server, wrote, taken, cause>>
CallDone ==
    /\ call' = "ok"
    /\ UNCHANGED <<kind, up, down, ptx, rrx, results, server, wrote, taken, cause>>
CallLeft(why) ==
    /\ call \in {"wait", "io"}
    /\ DropCall("err") /\ cause' = cause \cup {why}
    /\ UNCHANGED <<kind, rrx, results, server, wrote, taken>>

-----------------------------------------------------------------------------
(* Typed clients: invoke.rs                                                *)

Invoke == Typed /\ StartCall
InvokeFail == Typed /\ CallFails
WriteParam(v) == Typed /\ ParamWritten(v)
WriteParamFail == Typed /\ ParamFails /\ up' = DropWriter(up) /\ UNCHANGED down

\* The task goes on in the future returned, with the receipt of the result.
LostTask == "done"
KeptTask == ptx
Results == Typed /\ ResultsRead /\ ptx' = KeptTask
ResultsFail == Typed /\ call = "wait" /\ (ptx = "failed" \/ Over(down)) /\ CallDropped

\* The call is over once the parameter is written and the result received.
IoFail == Typed /\ call = "io" /\ (ptx = "failed" \/ (rrx = "run" /\ Over(down))) /\ CallDropped
IoDone == Typed /\ call = "io" /\ ptx = "done" /\ rrx = "done" /\ CallDone
LeaveCall == Typed /\ CallLeft("app")

\* The result is received while the future is polled.
ReceiveResult ==
    /\ Typed /\ call = "io" /\ rrx = "run" /\ Has(down, "data")
    /\ results.st = "left" \/ results.n < StreamCapacity
    /\ IF results.st = "left" THEN DropCall("err") /\ UNCHANGED <<results, taken>>
       ELSE /\ down' = Read(down) /\ taken' = taken + 1
            /\ results' = [results EXCEPT !.n = @ + 1]
            /\ UNCHANGED <<up, call, ptx>>
    /\ UNCHANGED <<kind, rrx, server, wrote, cause>>
ReceiveResultEnd ==
    /\ Typed /\ call = "io" /\ rrx = "run" /\ Has(down, "end")
    /\ rrx' = "done" /\ down' = DropReader(Read(down)) /\ taken' = taken + 1
    /\ UNCHANGED <<kind, up, call, ptx, results, server, wrote, cause>>

\* It is read by the application, when it is given to it, to its end, or not.
GivenLate == kind.client = "blocking" /\ call # "ok"
Given == (Typed \/ GoClient) /\ rrx # "none" /\ ~GivenLate
TakeResult ==
    /\ Given /\ results.n > 0 /\ results.st = "open"
    /\ results' = [results EXCEPT !.n = @ - 1]
    /\ UNCHANGED <<kind, up, down, call, ptx, rrx, server, wrote, taken, cause>>
EndResult ==
    /\ Given /\ results.n = 0 /\ results.st = "open" /\ rrx = "done"
    /\ results' = [results EXCEPT !.st = "end"]
    /\ UNCHANGED <<kind, up, down, call, ptx, rrx, server, wrote, taken, cause>>
LeaveResult ==
    /\ Given /\ results.st = "open"
    /\ results' = [results EXCEPT !.st = "left"] /\ cause' = cause \cup {"app"}
    /\ UNCHANGED <<kind, up, down, call, ptx, rrx, server, wrote, taken>>

-----------------------------------------------------------------------------
(* A host that polyfills an import: polyfill.rs                            *)

HostInvoke == Host /\ StartCall
HostInvokeFail == Host /\ CallFails
HostWriteParam(v) == Host /\ ParamWritten(v)
HostWriteParamFail == Host /\ ParamFails /\ up' = DropWriter(up) /\ UNCHANGED down
HostResults == Host /\ ResultsRead /\ UNCHANGED ptx
HostResultsFail == Host /\ call = "wait" /\ (ptx = "failed" \/ Over(down)) /\ CallDropped

\* The guest has the result; the call only waits for the parameter.
HostIoFail == Host /\ call = "io" /\ ptx = "failed" /\ CallDropped
HostIoDone == Host /\ call = "io" /\ ptx = "done" /\ CallDone

\* The store ends, or drops the call; or what is left of the timeout, for
\* parameter and result, is over.
HostLeaveCall == Host /\ CallLeft("app")
HostTimeout == Host /\ kind.timeout /\ CallLeft("timeout")

\* The guest, or its store, drops a result.
HostDropResult ==
    /\ Host /\ rrx = "run" /\ call \in {"ok", "err"} /\ results.st = "open"
    /\ down' = DropReader(down) /\ results' = [results EXCEPT !.st = "left"]
    /\ cause' = cause \cup {"app"}
    /\ UNCHANGED <<kind, up, call, ptx, rrx, server, wrote, taken>>

-----------------------------------------------------------------------------
(* A guest that uses `wrpc:rpc`: rpc/mod.rs, rpc/host                      *)

\* The invocation is transmitted when a channel or the result is first polled.
\* A direction whose channels were all dropped before ends.
Transmit ==
    /\ Guest /\ call = "start" /\ call' = "wait"
    /\ wrote' = [wrote EXCEPT !.up = <<"sync">>]
    /\ up' = IF ptx = "run" THEN Written(up, "sync") ELSE DropWriter(Written(up, "sync"))
    /\ down' = IF results.st = "open" THEN down ELSE DropReader(down)
    /\ UNCHANGED <<kind, ptx, rrx, results, server, taken, cause>>
\* ... or fails, as does whoever waits for it.
ParamUntransmitted == ptx' = IF ptx = "run" THEN "failed" ELSE ptx
ResultUntransmitted == results' = [results EXCEPT !.st = IF @ = "open" THEN "failed" ELSE @]
TransmitFail ==
    /\ Guest /\ call = "start"
    /\ call' = "err" /\ cause' = cause \cup {"invoke"}
    /\ up' = [up EXCEPT !.end = "reset"] /\ down' = DropReader(down)
    /\ ParamUntransmitted /\ ResultUntransmitted
    /\ UNCHANGED <<kind, rrx, server, wrote, taken>>

\* The data of a channel waits for the transmission.
Transmitted == call # "start"
GuestWriteParam(v) == Guest /\ Transmitted /\ ParamWritten(v)
GuestWriteParamFail == Guest /\ Transmitted /\ ParamFails /\ up' = DropWriter(up) /\ UNCHANGED down

\* The guest drops the channel of its parameter, or the stream it is written
\* from, before its end; or the channel of its result, or its stream.
DropOutgoing ==
    /\ Guest /\ ptx = "run" /\ call \in {"start", "wait"}
    /\ ptx' = "dropped" /\ up' = IF call = "start" THEN up ELSE DropWriter(up)
    /\ cause' = cause \cup {"app"}
    /\ UNCHANGED <<kind, down, call, rrx, results, server, wrote, taken>>
DropIncoming ==
    /\ Guest /\ results.st = "open" /\ call \in {"start", "wait"}
    /\ results' = [results EXCEPT !.st = "left"]
    /\ down' = IF call = "start" THEN down ELSE DropReader(down)
    /\ cause' = cause \cup {"app"}
    /\ UNCHANGED <<kind, up, call, ptx, rrx, server, wrote, taken>>

\* A guest reads its result from the connection, in a host once the call has
\* returned.  A result whose receipt fails never ends.
GuestReads == (Guest \/ (Host /\ call = "ok")) /\ results.st = "open"
ReadSync ==
    /\ Guest /\ GuestReads /\ Transmitted /\ rrx = "none" /\ Has(down, "sync")
    /\ down' = Read(down) /\ rrx' = "run" /\ taken' = taken + 1
    /\ UNCHANGED <<kind, up, call, ptx, results, server, wrote, cause>>
ReadData ==
    /\ GuestReads /\ rrx = "run" /\ Has(down, "data")
    /\ down' = Read(down) /\ taken' = taken + 1
    /\ UNCHANGED <<kind, up, call, ptx, rrx, results, server, wrote, cause>>
ReadEnd ==
    /\ GuestReads /\ rrx = "run" /\ Has(down, "end")
    /\ down' = DropReader(Read(down)) /\ taken' = taken + 1
    /\ results' = [results EXCEPT !.st = "end"]
    /\ UNCHANGED <<kind, up, call, ptx, rrx, server, wrote, cause>>
ReadFail ==
    /\ GuestReads /\ Over(down)
    /\ down' = DropReader(down) /\ results' = [results EXCEPT !.st = "failed"]
    /\ UNCHANGED <<kind, up, call, ptx, rrx, server, wrote, taken, cause>>

\* The result of the invocation: both directions are finished, or failed.
EgressFailed == ptx = "failed" \/ up.end = "reset"
IngressFailed == down.lost \/ down.end = "reset"
Finished ==
    /\ Guest /\ call = "wait"
    /\ ptx # "run" \/ EgressFailed
    /\ IngressFailed \/ (results.st # "open" /\ down.end = "fin")
    /\ call' = IF EgressFailed \/ IngressFailed THEN "err" ELSE "ok"
    /\ UNCHANGED <<kind, up, down, ptx, rrx, results, server, wrote, taken, cause>>

-----------------------------------------------------------------------------
(* The function generated for a Go import: `generate_imports`              *)

GoInvoke == GoClient /\ StartCall
GoInvokeFail == GoClient /\ CallFails

\* A parameter that cannot be written resets the connection.
GoWriteParam(v) == GoClient /\ ParamWritten(v)
GoWriteParamFail == GoClient /\ ParamFails /\ ResetBoth

\* The function returns the results, or fails and closes both halves; the
\* parameter is still written.
GoResults == GoClient /\ ResultsRead /\ UNCHANGED ptx
GoResultsFail ==
    /\ GoClient /\ call = "wait" /\ Over(down)
    /\ call' = "err"
    /\ ResetAndLeave
    /\ UNCHANGED <<kind, ptx, rrx, results, server, wrote, taken, cause>>

\* The result is received on a channel without a buffer, which is closed at its
\* end and otherwise never.
GoReceiveResult ==
    /\ GoClient /\ rrx = "run" /\ Has(down, "data") /\ results.n = 0
    /\ down' = Read(down) /\ taken' = taken + 1
    /\ results' = [results EXCEPT !.n = 1]
    /\ UNCHANGED <<kind, up, call, ptx, rrx, server, wrote, cause>>
GoReceiveResultEnd ==
    /\ GoClient /\ rrx = "run" /\ Has(down, "end") /\ results.n = 0
    /\ rrx' = "done" /\ down' = DropReader(Read(down)) /\ taken' = taken + 1
    /\ UNCHANGED <<kind, up, call, ptx, results, server, wrote, cause>>
GoReceiveResultFail ==
    /\ GoClient /\ rrx = "run" /\ Over(down) /\ results.n = 0
    /\ rrx' = "failed"
    /\ ResetAndLeave
    /\ UNCHANGED <<kind, call, ptx, results, server, wrote, taken, cause>>

\* `errs` is closed, with the error of what failed.
GoIoDone ==
    /\ GoClient /\ call = "io" /\ {ptx, rrx} \subseteq {"done", "failed"}
    /\ call' = IF "failed" \in {ptx, rrx} THEN "err" ELSE "ok"
    /\ UNCHANGED <<kind, up, down, ptx, rrx, results, server, wrote, taken, cause>>

\* The context is done, which stops what is written and read: the connection is
\* reset by a writer that is not done, or by the reader.
GoLeaveCall ==
    /\ GoClient /\ call \in {"wait", "io"} /\ call' = "err"
    /\ rrx' = IF rrx = "run" THEN "failed" ELSE rrx
    /\ \/ ResetAndLeave
       \/ ptx = "done" /\ down' = DropReader(down) /\ UNCHANGED up
    /\ cause' = cause \cup {"app"}
    /\ UNCHANGED <<kind, ptx, results, server, wrote, taken>>
=============================================================================
