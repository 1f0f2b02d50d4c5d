-------------------------------- MODULE Retry --------------------------------
(***************************************************************************)
(* The runtime above the session layer (pkg/protorun: retry.go, connect,   *)
(* disconnect, Cancel and the session-event pump of runtime.go): protocols *)
(* ask for connections, the pump turns session events into retries and     *)
(* into events for the protocols, and backoff timers connect again.        *)
(*                                                                         *)
(* Goroutines: the protocols' event loops, Main (which runs the Init       *)
(* methods before it starts the pump), the pump, and one per backoff timer *)
(* that has fired.  A call on the session layer is a rendezvous: the       *)
(* caller stays in it until the session layer takes it.                    *)
(***************************************************************************)
EXTENDS Naturals, Sequences

CONSTANTS
    Host,         \* peers
    Nil,
    Protocols,    \* r.protocols, a sequence
    Main,         \* the goroutine that called Run
    Contacts,     \* peers the Init methods pass to ConnectWithRetry
    Dial,         \* peers the event loops pass to Connect
    Track,        \* peers the event loops pass to ConnectWithRetry
    Hang,         \* peers the event loops pass to Disconnect
    MaxAttempts,  \* RetryPolicy.MaxAttempts; 0 is unbounded
    MaxTimers,    \* bound on the timers of one peer that run at a time
    MaxCallbacks, \* bound on the fired timers of one peer still executing
    EventsBuf,    \* capacity of the session layer's outChannelEvents
    ProtoBuf,     \* capacity of a protocol's sessionEvents
    Cancels       \* whether the runtime may be cancelled

VARIABLES
    connectionRetries, \* [Host -> retryState]; an absent key is untracked
    armed,             \* timers that have not fired, as <<host, timer>>
    checking,          \* [Host -> fired timers that have yet to look at the table]
    connecting,        \* [Host -> fired timers in sessionLayer.Connect]
    caller,            \* [goroutine -> the session layer call it is in]
    toContact,         \* contacts the Init methods have not yet got to
    outChannelEvents,  \* chan SessionEvent
    pumping,           \* the pump goroutine: "off", "on" or "done"
    fanout,            \* the sends it has yet to do
    sessionEvents,     \* [protocol -> chan sessionEvent]
    cancelled,         \* the runtime context
    torn,              \* retryTeardown has run
    wanted             \* history: peers passed to ConnectWithRetry and since then neither
                       \* disconnected by a protocol nor given up

table == <<connectionRetries, armed>>
callbacks == <<checking, connecting>>
vars == <<table, callbacks, caller, toContact, outChannelEvents, pumping, fanout,
          sessionEvents, cancelled, torn, wanted>>

Proto == {Protocols[i] : i \in DOMAIN Protocols}
Goroutine == Proto \cup {Main}

ASSUME RetryAssumption ==
    /\ Protocols \in Seq(Proto) /\ Main \notin Proto /\ Nil \notin Host
    /\ Contacts \cup Dial \cup Track \cup Hang \subseteq Host
    /\ MaxAttempts \in Nat /\ MaxTimers \in Nat \ {0} /\ MaxCallbacks \in Nat \ {0}
    /\ EventsBuf \in Nat \ {0} /\ ProtoBuf \in Nat \ {0} /\ Cancels \in BOOLEAN

\* retryState; timer 0 is the nil timer.
Untracked == [tracked |-> FALSE, attempt |-> 0, timer |-> 0]
Tracked(n, t) == [tracked |-> TRUE, attempt |-> n, timer |-> t]
RetryState == [tracked : BOOLEAN, attempt : Nat, timer : 0..MaxTimers]

NoCall == [op |-> "none", host |-> Nil]
CallOf(o, h) == [op |-> o, host |-> h]
SessionCall == {NoCall} \cup [op : {"connect", "disconnect"}, host : Host]

SessionEvent == [type : {"SessionConnected", "SessionDisconnected",
                         "SessionFailed", "SessionVersionMismatch"}, host : Host]
EventOf(k, h) == [kind |-> k, host |-> h]
ProtoEvent == [kind : {"connected", "disconnected", "givenUp"}, host : Host]
SendOf(p, e) == [to |-> p, event |-> e]
FanoutSend == [to : Proto, event : ProtoEvent]

TypeOK ==
    /\ connectionRetries \in [Host -> RetryState]
    /\ armed \subseteq Host \X (1..MaxTimers)
    /\ checking \in [Host -> 0..MaxCallbacks]
    /\ connecting \in [Host -> 0..MaxCallbacks]
    /\ \A h \in Host : checking[h] + connecting[h] <= MaxCallbacks
    /\ caller \in [Goroutine -> SessionCall]
    /\ toContact \subseteq Contacts
    /\ outChannelEvents \in Seq(SessionEvent) /\ Len(outChannelEvents) <= EventsBuf
    /\ pumping \in {"off", "on", "done"}
    /\ fanout \in Seq(FanoutSend)
    /\ sessionEvents \in [Proto -> Seq(ProtoEvent)]
    /\ \A p \in Proto : Len(sessionEvents[p]) <= ProtoBuf
    /\ cancelled \in BOOLEAN /\ torn \in BOOLEAN
    /\ wanted \subseteq Host

Init ==
    /\ connectionRetries = [h \in Host |-> Untracked]
    /\ armed = {}
    /\ checking = [h \in Host |-> 0]
    /\ connecting = [h \in Host |-> 0]
    /\ caller = [g \in Goroutine |-> NoCall]
    /\ toContact = Contacts
    /\ outChannelEvents = <<>>
    /\ pumping = "off"
    /\ fanout = <<>>
    /\ sessionEvents = [p \in Proto |-> <<>>]
    /\ cancelled = FALSE /\ torn = FALSE
    /\ wanted = {}

-----------------------------------------------------------------------------
(* The retry table, each operator one critical section of retryMu.         *)

Timer(h) == <<h, connectionRetries[h].timer>>

\* Mistake: the entry is deleted and its timer keeps running.
forgetOnly(h) ==
    /\ connectionRetries' = [connectionRetries EXCEPT ![h] = Untracked]
    /\ UNCHANGED armed

\* The common part of onSessionUpForRetry, stopRetryFor and the exhausted
\* branch of onSessionDownForRetry: stop the timer, delete the entry.
stopRetryFor(h) ==
    /\ connectionRetries' = [connectionRetries EXCEPT ![h] = Untracked]
    /\ armed' = armed \ {Timer(h)}

track(h) ==
    /\ connectionRetries' = [connectionRetries EXCEPT ![h] = Tracked(0, 0)]
    /\ UNCHANGED armed

\* Mistake: a failed attempt is not counted.
SameAttempt(h) == connectionRetries[h].attempt

\* With no limit the count is read by nothing but the length of the delay.
NextAttempt(h) == IF MaxAttempts = 0 THEN 0 ELSE connectionRetries[h].attempt + 1
Exhausted(h) == MaxAttempts > 0 /\ NextAttempt(h) >= MaxAttempts

reschedule(h) ==
    \E t \in 1..MaxTimers :
        /\ <<h, t>> \notin armed \ {Timer(h)}
        /\ connectionRetries' = [connectionRetries EXCEPT ![h] = Tracked(NextAttempt(h), t)]
        /\ armed' = (armed \ {Timer(h)}) \cup {<<h, t>>}

-----------------------------------------------------------------------------
(* Calls of the protocols and of the Init methods.                         *)

Idle(g) == caller[g] = NoCall

\* runtime.connect: refused once the context is cancelled.
connect(g, h) ==
    caller' = IF cancelled THEN caller ELSE [caller EXCEPT ![g] = CallOf("connect", h)]

connectWithRetry(g, h) ==
    /\ Idle(g)
    /\ \/ connectionRetries[h].tracked /\ UNCHANGED <<table, caller>>
       \/ ~connectionRetries[h].tracked /\ track(h) /\ connect(g, h)
    /\ wanted' = wanted \cup {h}

Connect(p, h) ==
    /\ Idle(p) /\ ~cancelled
    /\ connect(p, h)
    /\ UNCHANGED <<table, callbacks, toContact, outChannelEvents, pumping, fanout,
                   sessionEvents, cancelled, torn, wanted>>

ConnectWithRetry(p, h) ==
    /\ connectWithRetry(p, h)
    /\ UNCHANGED <<callbacks, toContact, outChannelEvents, pumping, fanout,
                   sessionEvents, cancelled, torn>>

\* Mistake: the retry intent survives a disconnect.
DisconnectKeepsIntent(p, h) ==
    /\ Idle(p)
    /\ caller' = IF cancelled THEN caller
                 ELSE [caller EXCEPT ![p] = CallOf("disconnect", h)]
    /\ wanted' = wanted \ {h}
    /\ UNCHANGED <<table, callbacks, toContact, outChannelEvents, pumping, fanout,
                   sessionEvents, cancelled, torn>>

Disconnect(p, h) ==
    /\ Idle(p)
    /\ stopRetryFor(h)
    /\ caller' = IF cancelled THEN caller
                 ELSE [caller EXCEPT ![p] = CallOf("disconnect", h)]
    /\ wanted' = wanted \ {h}
    /\ UNCHANGED <<callbacks, toContact, outChannelEvents, pumping, fanout,
                   sessionEvents, cancelled, torn>>

InitContact(h) ==
    /\ h \in toContact
    /\ toContact' = toContact \ {h}
    /\ connectWithRetry(Main, h)
    /\ UNCHANGED <<callbacks, outChannelEvents, pumping, fanout, sessionEvents,
                   cancelled, torn>>

\* start: the pump starts when every Init method has returned.
startSessionEvents ==
    /\ pumping = "off" /\ toContact = {} /\ Idle(Main)
    /\ pumping' = "on"
    /\ UNCHANGED <<table, callbacks, caller, toContact, outChannelEvents, fanout,
                   sessionEvents, cancelled, torn, wanted>>

\* The session layer takes the call goroutine g is in.
CallTaken(g) ==
    /\ caller[g] # NoCall
    /\ caller' = [caller EXCEPT ![g] = NoCall]
    /\ UNCHANGED <<table, callbacks, toContact, outChannelEvents, pumping, fanout,
                   sessionEvents, cancelled, torn, wanted>>

-----------------------------------------------------------------------------
(* Backoff timers.                                                         *)

Fire(h) ==
    /\ checking[h] + connecting[h] < MaxCallbacks
    /\ \E t \in 1..MaxTimers : <<h, t>> \in armed /\ armed' = armed \ {<<h, t>>}
    /\ checking' = [checking EXCEPT ![h] = @ + 1]
    /\ UNCHANGED <<connectionRetries, connecting, caller, toContact, outChannelEvents,
                   pumping, fanout, sessionEvents, cancelled, torn, wanted>>

\* The table is looked at under the lock, the connection made without it.
CallbackChecks(h) ==
    /\ checking[h] > 0
    /\ checking' = [checking EXCEPT ![h] = @ - 1]
    /\ connecting' = IF connectionRetries[h].tracked /\ ~cancelled
                     THEN [connecting EXCEPT ![h] = @ + 1] ELSE connecting
    /\ UNCHANGED <<table, caller, toContact, outChannelEvents, pumping, fanout,
                   sessionEvents, cancelled, torn, wanted>>

CallbackTaken(h) ==
    /\ connecting[h] > 0
    /\ connecting' = [connecting EXCEPT ![h] = @ - 1]
    /\ UNCHANGED <<table, checking, caller, toContact, outChannelEvents, pumping, fanout,
                   sessionEvents, cancelled, torn, wanted>>

-----------------------------------------------------------------------------
(* The session-event pump.                                                 *)

SendsOf(e) == [i \in DOMAIN Protocols |-> SendOf(Protocols[i], e)]

onSessionUp(h) ==
    /\ stopRetryFor(h)
    /\ fanout' = SendsOf(EventOf("connected", h))
    /\ UNCHANGED wanted

\* What a SessionDisconnected and a SessionFailed have in common; `after' is
\* fanned out whether or not the peer is given up.
onSessionDown(h, after) ==
    \/ /\ ~connectionRetries[h].tracked
       /\ UNCHANGED <<table, wanted>>
       /\ fanout' = after
    \/ /\ connectionRetries[h].tracked /\ Exhausted(h)
       /\ stopRetryFor(h)
       /\ fanout' = SendsOf(EventOf("givenUp", h)) \o after
       /\ wanted' = wanted \ {h}
    \/ /\ connectionRetries[h].tracked /\ ~Exhausted(h)
       /\ reschedule(h)
       /\ fanout' = after
       /\ UNCHANGED wanted

dispatchSessionEvent ==
    /\ pumping = "on" /\ fanout = <<>>
    /\ outChannelEvents # <<>>
    /\ outChannelEvents' = Tail(outChannelEvents)
    /\ LET e == Head(outChannelEvents) IN
         \/ e.type = "SessionConnected" /\ onSessionUp(e.host)
         \/ /\ e.type = "SessionDisconnected"
            /\ onSessionDown(e.host, SendsOf(EventOf("disconnected", e.host)))
         \/ e.type = "SessionFailed" /\ onSessionDown(e.host, <<>>)
         \/ e.type = "SessionVersionMismatch" /\ UNCHANGED <<table, fanout, wanted>>
    /\ UNCHANGED <<callbacks, caller, toContact, pumping, sessionEvents, cancelled, torn>>

fanoutSessionEvent ==
    /\ pumping = "on" /\ fanout # <<>>
    /\ LET s == Head(fanout) IN
         /\ Len(sessionEvents[s.to]) < ProtoBuf
         /\ sessionEvents' = [sessionEvents EXCEPT ![s.to] = Append(@, s.event)]
    /\ fanout' = Tail(fanout)
    /\ UNCHANGED <<table, callbacks, caller, toContact, outChannelEvents, pumping,
                   cancelled, torn, wanted>>

\* At its select, or in the middle of a fanout, the pump sees the context.
PumpReturns ==
    /\ pumping = "on" /\ cancelled
    /\ pumping' = "done" /\ fanout' = <<>>
    /\ UNCHANGED <<table, callbacks, caller, toContact, outChannelEvents, sessionEvents,
                   cancelled, torn, wanted>>

\* The event loop of p takes a session event and runs its handler.
deliverSessionEvent(p) ==
    /\ Idle(p)
    /\ sessionEvents[p] # <<>>
    /\ sessionEvents' = [sessionEvents EXCEPT ![p] = Tail(@)]
    /\ UNCHANGED <<table, callbacks, caller, toContact, outChannelEvents, pumping, fanout,
                   cancelled, torn, wanted>>

-----------------------------------------------------------------------------
(* Runtime.Cancel.                                                         *)

Cancel ==
    /\ Cancels /\ ~cancelled
    /\ cancelled' = TRUE
    /\ UNCHANGED <<table, callbacks, caller, toContact, outChannelEvents, pumping, fanout,
                   sessionEvents, torn, wanted>>

retryTeardown ==
    /\ cancelled /\ ~torn
    /\ torn' = TRUE
    /\ armed' = armed \ {Timer(h) : h \in Host}
    /\ connectionRetries' = [h \in Host |-> Untracked]
    /\ UNCHANGED <<callbacks, caller, toContact, outChannelEvents, pumping, fanout,
                   sessionEvents, cancelled, wanted>>

-----------------------------------------------------------------------------
ProtocolStep(p) ==
    \/ \E h \in Dial : Connect(p, h)
    \/ \E h \in Track : ConnectWithRetry(p, h)
    \/ \E h \in Hang : Disconnect(p, h)
    \/ deliverSessionEvent(p)

TimerStep(h) == Fire(h) \/ CallbackChecks(h)

\* The steps of the runtime that do not involve the session layer.
Internal ==
    \/ \E p \in Proto : ProtocolStep(p)
    \/ \E h \in Host : TimerStep(h) \/ InitContact(h)
    \/ startSessionEvents \/ dispatchSessionEvent \/ fanoutSessionEvent \/ PumpReturns
    \/ Cancel \/ retryTeardown

\* Above an arbitrary session layer: it takes calls and reports anything.
SessionEmits(e) ==
    /\ Len(outChannelEvents) < EventsBuf
    /\ outChannelEvents' = Append(outChannelEvents, e)
    /\ UNCHANGED <<table, callbacks, caller, toContact, pumping, fanout, sessionEvents,
                   cancelled, torn, wanted>>

Next ==
    \/ Internal
    \/ \E g \in Goroutine : CallTaken(g)
    \/ \E h \in Host : CallbackTaken(h)
    \/ \E e \in SessionEvent : SessionEmits(e)

Spec == Init /\ [][Next]_vars

=============================================================================
