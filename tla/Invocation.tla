----------------------------- MODULE Invocation -----------------------------
(***************************************************************************)
(* One invocation of a function with a stream parameter and a stream       *)
(* result: a client of some kind calls a server of some kind over a        *)
(* connection that may fail (Exchange), from the header through the        *)
(* server's registry to a handler, and back.                               *)
(***************************************************************************)
EXTENDS Clients, Servers

-----------------------------------------------------------------------------
Token == {"sync", "data", "end"}
ParamTask ==
    \/ WriteParamFail
    \/ HostWriteParamFail
    \/ GuestWriteParamFail
    \/ GoWriteParamFail
    \/ \E v \in Token :
         WriteParam(v) \/ HostWriteParam(v) \/ GuestWriteParam(v) \/ GoWriteParam(v)
TypedCall ==
    \/ Invoke
    \/ InvokeFail
    \/ Results
    \/ ResultsFail
    \/ ReceiveResult
    \/ ReceiveResultEnd
    \/ IoFail
    \/ IoDone
HostCall ==
    \/ HostInvoke
    \/ HostInvokeFail
    \/ HostResults
    \/ HostResultsFail
    \/ HostIoFail
    \/ HostIoDone
GuestCall == Transmit \/ TransmitFail \/ Finished
GoCall ==
    \/ GoInvoke
    \/ GoInvokeFail
    \/ GoResults
    \/ GoResultsFail
    \/ GoIoDone
GoReceipt == GoReceiveResult \/ GoReceiveResultEnd \/ GoReceiveResultFail
ReadResult ==
    \/ TakeResult
    \/ EndResult
    \/ ReadSync
    \/ ReadData
    \/ ReadEnd
    \/ ReadFail
AppStops ==
    \/ LeaveResult
    \/ LeaveCall
    \/ HostLeaveCall
    \/ HostTimeout
    \/ HostDropResult
    \/ DropOutgoing
    \/ DropIncoming
    \/ GoLeaveCall
RustServerStep ==
    \/ Accept
    \/ AcceptFail
    \/ ReceiveParams
    \/ ReceiveParamsFail
    \/ WriteResultFail
    \/ Await
    \/ \E v \in Token : WriteResult(v)
HostServerStep ==
    \/ StoreStart
    \/ SharedStart
    \/ SharedStartFail
    \/ HostParams
    \/ HostParamsFail
    \/ HostWriteResultFail
    \/ \E v \in Token : HostWriteResult(v)
GoServerStep ==
    \/ GoAccept
    \/ GoAcceptFail
    \/ GoParams
    \/ GoParamsFail
    \/ GoCancelled
    \/ GoWriteResultFail
    \/ GoAwait
    \/ \E v \in Token : GoWriteResult(v)
ReceiveTask ==
    \/ ReceiveParam
    \/ ReceiveParamEnd
    \/ ReceiveParamFail
    \/ GoReceiveParam
    \/ GoReceiveParamEnd
    \/ GoReceiveParamFail
HandlerReads == TakeParam \/ EndParam \/ HostTakeParam \/ HostEndParam \/ HostParamFail
HandlerReturns ==
    \/ Return
    \/ ReturnFail
    \/ HostReturn
    \/ HostReturnFail
    \/ GoReturn
    \/ GoReturnFail
HandlerStops ==
    \/ LeaveParam
    \/ HostLeaveParam
    \/ HostAwait
    \/ StoreTrap
    \/ SharedTrap
    \/ HostCancel
Serving == Serve \/ StoreServe \/ SharedServe \/ ServeDrop \/ GoServe \/ GoStop

CallStep == TypedCall \/ HostCall \/ GuestCall \/ GoCall
ServerStep == RustServerStep \/ HostServerStep \/ GoServerStep

\* A handler that waits for its parameter returns once it has read it.
HandlerDone == params.st \in {"end", "left"} /\ HandlerReturns

Next ==
    \/ CallStep \/ ParamTask \/ GoReceipt \/ ReadResult \/ AppStops
    \/ Serving
    \/ ServerStep \/ ReceiveTask
    \/ HandlerReads \/ HandlerReturns \/ HandlerStops
    \/ TransportFail

Spec == Init /\ [][Next]_vars

\* The runtime runs the tasks of both sides, and the applications read their
\* streams or stop.  Nothing else has to happen: a handler may wait for ever
\* for a stream that does not end.
FairSpec ==
    /\ Spec
    /\ WF_vars(CallStep) /\ WF_vars(ParamTask) /\ WF_vars(GoReceipt) /\ WF_vars(ReadResult)
    /\ WF_vars(ServerStep) /\ WF_vars(ReceiveTask) /\ WF_vars(HandlerReads) /\ WF_vars(HandlerDone)

-----------------------------------------------------------------------------
(* Properties                                                              *)

\* A stream was written to its end.
Whole(ws) == ws # <<>> /\ ws[Len(ws)] = "end"

\* A call succeeds only with the whole parameter written, unless its guest gave
\* it up, and, where it receives the result itself, with all of it received;
\* a server only with the whole result written and, as a stub, the whole
\* parameter received; and whoever is told that a stream ended had all of it.
\* Which side finishes first, and whether channels were used or dropped before
\* the invocation was transmitted, makes no difference.
OkMeansExchanged ==
    /\ call = "ok" =>
         /\ ptx # "dropped" => Whole(wrote.up)
         /\ Typed \/ GoClient => Whole(wrote.down)
         /\ ~Host => taken = Len(wrote.down)
    /\ srv = "ok" => Whole(wrote.down) /\ (Stub \/ GoServer => Whole(wrote.up) /\ up.q = <<>>)
    /\ results.st = "end" => Whole(wrote.down)
    /\ params.st = "end" => Whole(wrote.up)

\* Neither side fails without a cause: if the transport does not fail, the
\* function is served, and nobody stops reading, traps, or drops what it has, a
\* peer that answers before the parameter is written fails nothing.
NoSpuriousFailure == "err" \in {call, srv} => cause # {}

\* A call that blocks is stuck if its result does not fit in the channel that
\* nobody reads yet; a guest that gives up its parameter may leave the handler
\* waiting for it.  A channel in Go has no buffer: whoever stops reading one
\* blocks the goroutine that receives the stream, and with it the peer.
Stuck ==
    \/ kind.client = "blocking" /\ results.n = StreamCapacity /\ Has(down, "data")
    \/ Guest /\ ptx = "dropped"
    \/ GoClient /\ results.st = "left" /\ rrx = "run"
    \/ GoServer /\ params.st = "left" /\ prx = "run"

\* The call returns otherwise, though the function may be unserved while its
\* connection waits, the store stop, the handler fail or stop reading, or wait
\* for ever for a parameter whose receipt failed.
CallEnds == <>(call \in {"ok", "err"} \/ Stuck)
=============================================================================
