-------------------------------- MODULE Stack --------------------------------
(***************************************************************************)
(* The runtime's connection management over the session layer over a       *)
(* transport that keeps its contract: Retry, Session and Transport joined  *)
(* where the code joins them.  A session call of a protocol, of Init or of *)
(* a backoff timer is one step with the handler that receives it; the pump *)
(* reads the channel the handler writes; the handler's transport calls are *)
(* the ones the transport answers.  Payloads are left out: from a peer of  *)
(* this version they change no session that was dialled.                   *)
(***************************************************************************)
EXTENDS RetryProps

CONSTANTS
    Self,     \* this node's logical host
    OutBuf,   \* capacity of the transport's out channels
    MaxLost   \* bound on the connections lost and writes failed

VARIABLES
    outEvents, outChannel, request, transportDone, owed,   \* Transport
    sessions, transportToLogical, logicalToTransport, todo, \* Session
    outMessages, sessionDone, stopped, announced,
    lost      \* connections lost and writes failed so far

\* The parts no other component writes.
transportPart == <<outEvents, outChannel, request, transportDone, owed, lost>>
sessionPart == <<sessions, transportToLogical, logicalToTransport, todo, outMessages,
                 sessionDone, stopped, announced>>
runtimePart == <<table, callbacks, caller, toContact, pumping, fanout, sessionEvents,
                 cancelled, torn, wanted>>
stackVars == <<vars, transportPart, sessionPart>>

S == INSTANCE Session WITH Dial <- Host, HelloOutcome <- {"ok"}, Kinds <- {}, MsgsBuf <- 1
T == INSTANCE Transport WITH Inbound <- {}

ASSUME StackAssumption == OutBuf \in Nat \ {0} /\ Self \in Host /\ Nil \notin S!Request

StackInit == Init /\ T!Init /\ S!SessionInit /\ lost = 0

-----------------------------------------------------------------------------
(* The runtime by itself.                                                  *)

Private == UNCHANGED <<transportPart, sessionPart>>

LoopStep(p) == ProtocolStep(p) /\ Private
BackoffStep(h) == TimerStep(h) /\ Private
InitStep == (startSessionEvents \/ \E h \in Host : InitContact(h)) /\ Private
PumpStep == (dispatchSessionEvent \/ fanoutSessionEvent \/ PumpReturns) /\ Private

-----------------------------------------------------------------------------
(* A call on the session layer: taken by the handler at its select, or     *)
(* given up by the caller once the session layer is cancelled.             *)

SessionCallTaken(g) ==
    /\ CallTaken(g)
    /\ \/ caller[g].op = "connect" /\ S!Connect(caller[g].host)
       \/ caller[g].op = "disconnect" /\ S!Disconnect(caller[g].host)
    /\ UNCHANGED <<owed, lost>>

BackoffCallTaken(h) == CallbackTaken(h) /\ S!Connect(h) /\ UNCHANGED <<owed, lost>>

CallGivenUp(g) == sessionDone /\ CallTaken(g) /\ Private
BackoffGivenUp(h) == sessionDone /\ CallbackTaken(h) /\ Private

-----------------------------------------------------------------------------
(* The session layer's handler and the transport.                          *)

HandlerStep ==
    /\ S!Handler
    /\ owed' = IF request' = request THEN owed ELSE request'.op = "connect"
    /\ UNCHANGED <<runtimePart, lost>>

TransportStep == (T!Answer \/ T!Serve) /\ UNCHANGED <<vars, sessionPart, lost>>

\* A connection is lost or a write fails.
PeerLost ==
    /\ lost < MaxLost /\ lost' = lost + 1
    /\ T!Notice /\ UNCHANGED <<vars, sessionPart>>

-----------------------------------------------------------------------------
(* Runtime.Cancel: the runtime's context, the two layers', the timers.     *)

CancelContext == Cancel /\ Private
CancelSession == cancelled /\ S!Cancel /\ UNCHANGED <<runtimePart, owed, lost>>
CancelTransport == sessionDone /\ S!TransportCancel /\ UNCHANGED <<runtimePart, owed, lost>>
StopTimers == transportDone /\ retryTeardown /\ Private

StackNext ==
    \/ \E p \in Proto : LoopStep(p)
    \/ \E h \in Host : BackoffStep(h) \/ BackoffCallTaken(h) \/ BackoffGivenUp(h)
    \/ \E g \in Goroutine : SessionCallTaken(g) \/ CallGivenUp(g)
    \/ InitStep \/ PumpStep
    \/ HandlerStep \/ TransportStep \/ PeerLost
    \/ CancelContext \/ CancelSession \/ CancelTransport \/ StopTimers

StackSpec == StackInit /\ [][StackNext]_stackVars

\* Goroutines run, timers fire and dials end.  Of the callers that wait for
\* the session handler some caller is served while the handler keeps coming
\* back to its select, and so is the handler's ctx.Done() branch: a channel
\* serves its waiting senders in order, and select chooses at random.  Init
\* makes its calls and Cancel, once called, runs to its end.  Nothing makes a
\* protocol call, a connection break or anyone call Cancel.
Fairness ==
    /\ \A p \in Proto : SF_stackVars(deliverSessionEvent(p) /\ Private)
    /\ \A h \in Host : WF_stackVars(BackoffStep(h) \/ BackoffGivenUp(h))
    /\ SF_stackVars(\/ \E g \in Goroutine : SessionCallTaken(g) \/ CallGivenUp(g)
                    \/ \E h \in Host : BackoffCallTaken(h))
    /\ WF_stackVars(PumpStep)
    /\ WF_stackVars(HandlerStep) /\ SF_stackVars(S!HandlerReturns /\ UNCHANGED <<runtimePart, owed, lost>>)
    /\ WF_stackVars(TransportStep)
    /\ WF_stackVars(InitStep \/ CancelSession \/ CancelTransport \/ StopTimers)

FairStack == StackSpec /\ Fairness

=============================================================================
