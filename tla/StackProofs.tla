----------------------------- MODULE StackProofs -----------------------------
(***************************************************************************)
(* The retry table and its timers, for any number of peers and protocols;  *)
(* and the layers together: the composition runs each of its components as *)
(* that component's own specification says, so that what is proved of the  *)
(* components holds in it, and it loses no wake-up of a retried peer.      *)
(***************************************************************************)
EXTENDS StackProps, TLAPS

-----------------------------------------------------------------------------
(* The retry table and its timers.                                         *)

IInv == TypeOK /\ TimersOwned /\ TrackedIsWanted

TableInv ==
    /\ connectionRetries \in [Host -> RetryState]
    /\ armed \subseteq Host \X (1..MaxTimers)
    /\ wanted \subseteq Host
    /\ TimersOwned /\ TrackedIsWanted

\* Deleting an entry and stopping its timer (stopRetryFor, and the same code
\* in onSessionUpForRetry and onSessionDownForRetry) keeps the table sound,
\* whether or not the peer remains wanted.
LEMMA StopKeeps ==
    ASSUME TableInv, NEW h \in Host, stopRetryFor(h), wanted' = wanted \/ wanted' = wanted \ {h}
    PROVE  TableInv'
<1>1. connectionRetries' \in [Host -> RetryState]
  BY RetryAssumption DEF TableInv, stopRetryFor, Untracked, RetryState
<1>2. armed' \subseteq armed BY DEF stopRetryFor
<1>3. ASSUME NEW a \in armed'
      PROVE  connectionRetries'[a[1]].tracked /\ connectionRetries'[a[1]].timer = a[2]
  <2>1. a \in Host \X (1..MaxTimers) /\ a \in armed BY <1>2, <1>3 DEF TableInv
  <2>2. PICK x \in Host, t \in 1..MaxTimers : a = <<x, t>> BY <2>1
  <2>3. connectionRetries[x].timer = t /\ connectionRetries[x].tracked
    BY <2>1, <2>2 DEF TableInv, TimersOwned
  <2>4. x # h BY <1>3, <2>2, <2>3 DEF stopRetryFor, Timer
  <2>5. connectionRetries'[x] = connectionRetries[x] BY <2>4 DEF stopRetryFor, TableInv
  <2> QED BY <2>2, <2>3, <2>5
<1>4. ASSUME NEW x \in Host, connectionRetries'[x].tracked PROVE x \in wanted'
  BY <1>4 DEF TableInv, stopRetryFor, Untracked, RetryState, TrackedIsWanted
<1> QED BY <1>1, <1>2, <1>3, <1>4 DEF TableInv, TimersOwned, TrackedIsWanted

\* Replacing the timer of a tracked peer (onSessionDownForRetry) keeps the
\* table sound: the old timer is stopped before the new one is armed.
LEMMA RescheduleKeeps ==
    ASSUME TableInv, NEW h \in Host, connectionRetries[h].tracked, reschedule(h),
           UNCHANGED wanted
    PROVE  TableInv'
<1>1. PICK t \in 1..MaxTimers :
        /\ connectionRetries' = [connectionRetries EXCEPT ![h] = Tracked(NextAttempt(h), t)]
        /\ armed' = (armed \ {Timer(h)}) \cup {<<h, t>>}
  BY Zenon DEF reschedule
<1>2. NextAttempt(h) \in Nat
  BY RetryAssumption DEF NextAttempt, TableInv, RetryState
<1>3. connectionRetries' \in [Host -> RetryState]
  BY <1>1, <1>2 DEF TableInv, Tracked, RetryState
<1>4. armed' \subseteq Host \X (1..MaxTimers) BY <1>1 DEF TableInv
<1>5. ASSUME NEW a \in armed'
      PROVE  connectionRetries'[a[1]].tracked /\ connectionRetries'[a[1]].timer = a[2]
  <2>1. CASE a = <<h, t>> BY <1>1, <2>1 DEF TableInv, Tracked
  <2>2. CASE a \in armed \ {Timer(h)}
    <3>1. PICK x \in Host, u \in 1..MaxTimers : a = <<x, u>> BY <2>2 DEF TableInv
    <3>2. connectionRetries[x].timer = u /\ connectionRetries[x].tracked
      BY <2>2, <3>1 DEF TableInv, TimersOwned
    <3>3. x # h BY <2>2, <3>1, <3>2 DEF Timer
    <3> QED BY <1>1, <3>1, <3>2, <3>3 DEF TableInv
  <2> QED BY <1>1, <2>1, <2>2
<1>6. ASSUME NEW x \in Host, connectionRetries'[x].tracked PROVE x \in wanted'
  BY <1>1, <1>6 DEF TableInv, TrackedIsWanted
<1> QED BY <1>3, <1>4, <1>5, <1>6 DEF TableInv, TimersOwned, TrackedIsWanted

\* ConnectWithRetry, by a protocol or by an Init method, keeps the table
\* sound and its caller in at most one session layer call.
LEMMA TrackKeeps ==
    ASSUME TableInv, NEW g \in Goroutine, NEW h \in Host, connectWithRetry(g, h),
           caller \in [Goroutine -> SessionCall]
    PROVE  TableInv' /\ caller' \in [Goroutine -> SessionCall]
<1>1. caller' \in [Goroutine -> SessionCall]
  BY DEF connectWithRetry, connect, SessionCall, CallOf
<1>2. CASE UNCHANGED table
  BY <1>1, <1>2 DEF TableInv, TimersOwned, TrackedIsWanted, connectWithRetry, table
<1>3. CASE ~connectionRetries[h].tracked /\ track(h)
  <2>1. connectionRetries' \in [Host -> RetryState]
    BY <1>3, RetryAssumption DEF track, Tracked, TableInv, RetryState
  <2>2. ASSUME NEW a \in armed'
        PROVE  connectionRetries'[a[1]].tracked /\ connectionRetries'[a[1]].timer = a[2]
    BY <1>3, <2>2 DEF track, TableInv, TimersOwned
  <2>3. ASSUME NEW x \in Host, connectionRetries'[x].tracked PROVE x \in wanted'
    BY <1>3, <2>3 DEF track, TableInv, TrackedIsWanted, connectWithRetry
  <2>4. wanted' \subseteq Host /\ armed' = armed
    BY <1>3 DEF TableInv, connectWithRetry, track
  <2> QED BY <1>1, <2>1, <2>2, <2>3, <2>4 DEF TableInv, TimersOwned, TrackedIsWanted
<1> QED BY <1>1, <1>2, <1>3 DEF connectWithRetry, table

\* A fanout is a sequence of sends to protocols.
LEMMA SendsType ==
    ASSUME NEW e \in ProtoEvent
    PROVE  SendsOf(e) \in Seq(FanoutSend)
<1>1. DOMAIN Protocols = 1..Len(Protocols) /\ Len(Protocols) \in Nat
  BY RetryAssumption
<1>2. \A i \in 1..Len(Protocols) : SendOf(Protocols[i], e) \in FanoutSend
  BY <1>1 DEF SendOf, Proto, FanoutSend
<1> QED BY <1>1, <1>2 DEF SendsOf

\* The rest of the type invariant, which the table lemmas do not speak of.
RestOK ==
    /\ checking \in [Host -> 0..MaxCallbacks]
    /\ connecting \in [Host -> 0..MaxCallbacks]
    /\ \A h \in Host : checking[h] + connecting[h] <= MaxCallbacks
    /\ caller \in [Goroutine -> SessionCall]
    /\ toContact \subseteq Contacts
    /\ outChannelEvents \in Seq(SessionEvent) /\ Len(outChannelEvents) <= EventsBuf
    /\ pumping \in {"off", "on", "done"}
    /\ fanout \in Seq(FanoutSend)
    /\ sessionEvents \in [Proto -> Seq(ProtoEvent)]
    /\ \A p \in Proto : Len(sessionEvents[p]) <= ProtoBuf
    /\ cancelled \in BOOLEAN /\ torn \in BOOLEAN

\* The two halves make up the invariant.
LEMMA Halves == IInv <=> TableInv /\ RestOK
BY Zenon DEF IInv, TypeOK, TableInv, RestOK

\* A step that leaves the table and the intents alone keeps the table sound.
LEMMA TableKept ==
    ASSUME TableInv, UNCHANGED <<table, wanted>> PROVE TableInv'
BY DEF TableInv, TimersOwned, TrackedIsWanted, table

\* The calls of protocols and Init methods (connect, connectWithRetry,
\* disconnect) and the session layer taking them.
LEMMA CallStep ==
    ASSUME TableInv, RestOK,
           \/ \E p \in Proto : \/ \E h \in Dial : Connect(p, h)
                               \/ \E h \in Track : ConnectWithRetry(p, h)
                               \/ \E h \in Hang : Disconnect(p, h)
           \/ \E h \in Host : InitContact(h)
           \/ startSessionEvents
           \/ \E g \in Goroutine : CallTaken(g)
    PROVE  TableInv' /\ RestOK'
<1>1. ASSUME NEW p \in Proto, NEW h \in Dial, Connect(p, h) PROVE TableInv' /\ RestOK'
  <2>1. h \in Host /\ p \in Goroutine BY Zenon, RetryAssumption DEF Goroutine
  <2>2. caller' \in [Goroutine -> SessionCall]
    BY <1>1, <2>1 DEF Connect, connect, SessionCall, CallOf, RestOK
  <2>3. UNCHANGED <<table, wanted>> BY <1>1 DEF Connect
  <2> QED BY <1>1, <2>2, <2>3, TableKept DEF Connect, RestOK, callbacks
<1>2. ASSUME NEW p \in Proto, NEW h \in Track, ConnectWithRetry(p, h) PROVE TableInv' /\ RestOK'
  <2>1. h \in Host /\ p \in Goroutine BY RetryAssumption DEF Goroutine
  <2>2. TableInv' /\ caller' \in [Goroutine -> SessionCall]
    BY Zenon, <1>2, <2>1, TrackKeeps DEF ConnectWithRetry, RestOK
  <2> QED BY <1>2, <2>2 DEF ConnectWithRetry, RestOK, callbacks
<1>3. ASSUME NEW p \in Proto, NEW h \in Hang, Disconnect(p, h) PROVE TableInv' /\ RestOK'
  <2>1. h \in Host /\ p \in Goroutine BY Zenon, RetryAssumption DEF Goroutine
  <2>2. caller' \in [Goroutine -> SessionCall]
    BY Zenon, <1>3, <2>1 DEF Disconnect, SessionCall, CallOf, RestOK
  <2>3. TableInv' BY <1>3, <2>1, StopKeeps DEF Disconnect
  <2> QED BY <1>3, <2>2, <2>3 DEF Disconnect, RestOK, callbacks
<1>4. ASSUME NEW h \in Host, InitContact(h) PROVE TableInv' /\ RestOK'
  <2>1. Main \in Goroutine BY DEF Goroutine
  <2>2. TableInv' /\ caller' \in [Goroutine -> SessionCall]
    BY Zenon, <1>4, <2>1, TrackKeeps DEF InitContact, RestOK
  <2> QED BY <1>4, <2>2 DEF InitContact, RestOK, callbacks
<1>5. CASE startSessionEvents
  <2>1. TableInv' BY <1>5, TableKept DEF startSessionEvents
  <2> QED BY <1>5, <2>1 DEF startSessionEvents, RestOK, callbacks
<1>6. ASSUME NEW g \in Goroutine, CallTaken(g) PROVE TableInv' /\ RestOK'
  <2>1. TableInv' BY <1>6, TableKept DEF CallTaken
  <2>2. caller' \in [Goroutine -> SessionCall] BY <1>6 DEF CallTaken, RestOK, SessionCall
  <2> QED BY <1>6, <2>1, <2>2 DEF CallTaken, RestOK, callbacks
<1> QED BY Zenon, <1>1, <1>2, <1>3, <1>4, <1>5, <1>6

\* Backoff timers firing, looking at the table and connecting.
LEMMA TimerKeeps ==
    ASSUME TableInv, RestOK, NEW h \in Host, TimerStep(h) \/ CallbackTaken(h)
    PROVE  TableInv' /\ RestOK'
<1>0. /\ \A x \in Host : checking[x] \in Nat /\ connecting[x] \in Nat
      /\ MaxCallbacks \in Nat
  BY RetryAssumption DEF RestOK
<1>1. CASE Fire(h)
  <2>1. armed' \subseteq armed /\ UNCHANGED <<connectionRetries, wanted>> BY <1>1 DEF Fire
  <2>2. TableInv' BY <2>1 DEF TableInv, TimersOwned, TrackedIsWanted
  <2>3. /\ checking' \in [Host -> 0..MaxCallbacks]
        /\ \A x \in Host : checking'[x] + connecting'[x] <= MaxCallbacks
    BY <1>0, <1>1 DEF Fire, RestOK
  <2> QED BY Zenon, <1>1, <2>2, <2>3 DEF Fire, RestOK
<1>2. CASE CallbackChecks(h)
  <2>1. TableInv' BY <1>2, TableKept DEF CallbackChecks
  <2>2. checking' = [checking EXCEPT ![h] = @ - 1]
        /\ (connecting' = [connecting EXCEPT ![h] = @ + 1] \/ connecting' = connecting)
        /\ checking[h] > 0
    BY <1>2 DEF CallbackChecks
  <2>3. /\ checking' \in [Host -> 0..MaxCallbacks]
        /\ connecting' \in [Host -> 0..MaxCallbacks]
        /\ \A x \in Host : checking'[x] + connecting'[x] <= MaxCallbacks
    <3>1. \A x \in Host : checking[x] + connecting[x] <= MaxCallbacks BY DEF RestOK
    <3>2. checking \in [Host -> Nat] /\ connecting \in [Host -> Nat] BY <1>0 DEF RestOK
    <3>3. \A x \in Host : /\ checking'[x] \in Nat /\ connecting'[x] \in Nat
                          /\ checking'[x] + connecting'[x] <= MaxCallbacks
      BY <1>0, <2>2, <3>1, <3>2
    <3>4. \A x \in Host : checking'[x] \in 0..MaxCallbacks /\ connecting'[x] \in 0..MaxCallbacks
      BY <1>0, <3>3
    <3> QED BY <2>2, <3>2, <3>3, <3>4
  <2> QED BY <1>2, <2>1, <2>3 DEF CallbackChecks, RestOK
<1>3. CASE CallbackTaken(h)
  <2>1. TableInv' BY <1>3, TableKept DEF CallbackTaken
  <2>2. /\ connecting' \in [Host -> 0..MaxCallbacks]
        /\ \A x \in Host : checking'[x] + connecting'[x] <= MaxCallbacks
    BY <1>0, <1>3 DEF CallbackTaken, RestOK
  <2> QED BY Zenon, <1>3, <2>1, <2>2 DEF CallbackTaken, RestOK
<1> QED BY <1>1, <1>2, <1>3 DEF TimerStep

\* The pump reading a session event and updating the retry table
\* (dispatchSessionEvent), and a protocol taking an event.
LEMMA DispatchKeeps ==
    ASSUME TableInv, RestOK, dispatchSessionEvent
    PROVE  TableInv' /\ RestOK'
<1> DEFINE e == Head(outChannelEvents)
           Sends == Seq(FanoutSend)
<1>1. PICK x \in SessionEvent : x = e
  BY DEF RestOK, dispatchSessionEvent
<1>2. outChannelEvents' \in Seq(SessionEvent) /\ Len(outChannelEvents') <= EventsBuf
  BY RetryAssumption DEF RestOK, dispatchSessionEvent
<1>3. x.host \in Host BY DEF SessionEvent
<1>4. /\ <<>> \in Sends
      /\ SendsOf(EventOf("connected", x.host)) \in Sends
      /\ SendsOf(EventOf("disconnected", x.host)) \in Sends
      /\ SendsOf(EventOf("givenUp", x.host)) \in Sends
  <2>1. \A k \in {"connected", "disconnected", "givenUp"} : EventOf(k, x.host) \in ProtoEvent
    BY <1>3 DEF EventOf, ProtoEvent
  <2> QED BY <2>1, SendsType
<1>5. ASSUME NEW after \in Sends, onSessionDown(x.host, after) PROVE TableInv' /\ fanout' \in Sends
  <2>1. CASE UNCHANGED <<table, wanted>> /\ fanout' = after BY <2>1, TableKept
  <2>2. CASE /\ stopRetryFor(x.host) /\ wanted' = wanted \ {x.host}
             /\ fanout' = SendsOf(EventOf("givenUp", x.host)) \o after
    <3>1. TableInv' BY <1>3, <2>2, StopKeeps
    <3> QED BY <1>4, <2>2, <3>1
  <2>3. CASE /\ connectionRetries[x.host].tracked /\ reschedule(x.host) /\ UNCHANGED wanted
             /\ fanout' = after
    BY <1>3, <2>3, RescheduleKeeps
  <2> QED BY <1>5, <2>1, <2>2, <2>3 DEF onSessionDown
<1>6. TableInv' /\ fanout' \in Sends
  <2>1. CASE onSessionUp(x.host)
    <3>1. stopRetryFor(x.host) /\ wanted' = wanted
          /\ fanout' = SendsOf(EventOf("connected", x.host))
      BY <2>1 DEF onSessionUp
    <3> QED BY <1>3, <1>4, <3>1, StopKeeps
  <2>2. CASE onSessionDown(x.host, SendsOf(EventOf("disconnected", x.host)))
    BY <1>4, <1>5, <2>2
  <2>3. CASE onSessionDown(x.host, <<>>) BY Zenon, <1>4, <1>5, <2>3
  <2>4. CASE UNCHANGED <<table, fanout, wanted>>
    BY <2>4, TableKept DEF RestOK
  <2> QED BY <1>1, <2>1, <2>2, <2>3, <2>4 DEF dispatchSessionEvent
<1> QED BY Zenon, <1>2, <1>6 DEF dispatchSessionEvent, RestOK, callbacks

\* Fanning out, taking an event, stopping, Cancel and its teardown, and the
\* session layer reporting an event.
LEMMA PumpKeeps ==
    ASSUME TableInv, RestOK,
           \/ fanoutSessionEvent \/ PumpReturns \/ Cancel \/ retryTeardown
           \/ \E p \in Proto : deliverSessionEvent(p)
           \/ \E e \in SessionEvent : SessionEmits(e)
    PROVE  TableInv' /\ RestOK'
<1>1. CASE fanoutSessionEvent
  <2>1. TableInv' BY Zenon, <1>1, TableKept DEF fanoutSessionEvent
  <2>2. PICK s \in FanoutSend : s = Head(fanout)
    <3>1. fanout # <<>> /\ fanout \in Seq(FanoutSend)
      BY Zenon, <1>1 DEF fanoutSessionEvent, RestOK
    <3> QED BY <3>1
  <2>3. fanout' \in Seq(FanoutSend)
    <3>1. fanout # <<>> /\ fanout \in Seq(FanoutSend) /\ fanout' = Tail(fanout)
      BY Zenon, <1>1 DEF fanoutSessionEvent, RestOK
    <3> QED BY <3>1
  <2>4. /\ sessionEvents' = [sessionEvents EXCEPT ![s.to] = Append(@, s.event)]
        /\ Len(sessionEvents[s.to]) < ProtoBuf /\ s.to \in Proto /\ s.event \in ProtoEvent
    BY Zenon, <1>1, <2>2 DEF fanoutSessionEvent, FanoutSend
  <2>5. /\ Append(sessionEvents[s.to], s.event) \in Seq(ProtoEvent)
        /\ Len(Append(sessionEvents[s.to], s.event)) = Len(sessionEvents[s.to]) + 1
        /\ Len(sessionEvents[s.to]) \in Nat
    BY <2>4 DEF RestOK
  <2>6. /\ sessionEvents' \in [Proto -> Seq(ProtoEvent)]
        /\ \A p \in Proto : Len(sessionEvents'[p]) <= ProtoBuf
    BY <2>4, <2>5, RetryAssumption DEF RestOK
  <2> QED BY <1>1, <2>1, <2>3, <2>6 DEF fanoutSessionEvent, RestOK, callbacks
<1>2. CASE PumpReturns
  <2>1. TableInv' BY <1>2, TableKept DEF PumpReturns
  <2> QED BY <1>2, <2>1 DEF PumpReturns, RestOK, callbacks
<1>3. CASE Cancel
  <2>1. TableInv' BY <1>3, TableKept DEF Cancel
  <2> QED BY <1>3, <2>1 DEF Cancel, RestOK, callbacks
<1>4. CASE retryTeardown
  <2>1. armed' = {}
    <3>1. SUFFICES ASSUME NEW a \in armed PROVE a \in {Timer(h) : h \in Host}
      BY <1>4 DEF retryTeardown
    <3>2. PICK h \in Host, t \in 1..MaxTimers : a = <<h, t>> BY DEF TableInv
    <3> QED BY <3>2 DEF TableInv, TimersOwned, Timer
  <2>2. connectionRetries' = [h \in Host |-> Untracked] /\ wanted' = wanted
    BY <1>4 DEF retryTeardown
  <2>3. TableInv'
    BY <2>1, <2>2, RetryAssumption
    DEF TableInv, TimersOwned, TrackedIsWanted, Untracked, RetryState
  <2> QED BY <1>4, <2>3 DEF retryTeardown, RestOK, callbacks
<1>5. ASSUME NEW p \in Proto, deliverSessionEvent(p) PROVE TableInv' /\ RestOK'
  <2>1. TableInv' BY <1>5, TableKept DEF deliverSessionEvent
  <2>2. /\ Tail(sessionEvents[p]) \in Seq(ProtoEvent)
        /\ Len(Tail(sessionEvents[p])) = Len(sessionEvents[p]) - 1
        /\ Len(sessionEvents[p]) \in Nat
    BY <1>5 DEF deliverSessionEvent, RestOK
  <2>3. /\ sessionEvents' \in [Proto -> Seq(ProtoEvent)]
        /\ \A q \in Proto : Len(sessionEvents'[q]) <= ProtoBuf
    BY <1>5, <2>2, RetryAssumption DEF deliverSessionEvent, RestOK
  <2> QED BY <1>5, <2>1, <2>3 DEF deliverSessionEvent, RestOK, callbacks
<1>6. ASSUME NEW e \in SessionEvent, SessionEmits(e) PROVE TableInv' /\ RestOK'
  <2>1. TableInv' BY <1>6, TableKept DEF SessionEmits
  <2>2. outChannelEvents' \in Seq(SessionEvent) /\ Len(outChannelEvents') <= EventsBuf
    BY <1>6, RetryAssumption DEF SessionEmits, RestOK
  <2> QED BY <1>6, <2>1, <2>2 DEF SessionEmits, RestOK, callbacks
<1> QED BY Zenon, <1>1, <1>2, <1>3, <1>4, <1>5, <1>6

\* Stuttering steps.
LEMMA StutterKeeps == ASSUME TableInv, RestOK, UNCHANGED vars PROVE TableInv' /\ RestOK'
<1>1. TableInv' BY TableKept DEF vars
<1> QED BY <1>1 DEF vars, RestOK, callbacks

\* The initial state of the runtime.
LEMMA InitHolds == Init => TableInv /\ RestOK
<1> SUFFICES ASSUME Init PROVE TableInv /\ RestOK OBVIOUS
<1>1. TableInv
  BY RetryAssumption DEF Init, TableInv, TimersOwned, TrackedIsWanted, Untracked, RetryState
<1>2. RestOK
  <2>1. /\ checking = [h \in Host |-> 0] /\ connecting = [h \in Host |-> 0]
        /\ outChannelEvents = <<>> /\ fanout = <<>>
        /\ sessionEvents = [p \in Proto |-> <<>>]
        /\ caller = [g \in Goroutine |-> NoCall]
    BY DEF Init
  <2>2. /\ checking \in [Host -> 0..MaxCallbacks] /\ connecting \in [Host -> 0..MaxCallbacks]
        /\ \A h \in Host : checking[h] + connecting[h] <= MaxCallbacks
    BY <2>1, RetryAssumption
  <2>3. /\ outChannelEvents \in Seq(SessionEvent) /\ Len(outChannelEvents) <= EventsBuf
        /\ fanout \in Seq(FanoutSend)
        /\ sessionEvents \in [Proto -> Seq(ProtoEvent)]
        /\ \A p \in Proto : Len(sessionEvents[p]) <= ProtoBuf
    BY <2>1, RetryAssumption
  <2>4. caller \in [Goroutine -> SessionCall] BY <2>1 DEF SessionCall
  <2> QED BY Zenon, <2>2, <2>3, <2>4 DEF Init, RestOK
<1> QED BY <1>1, <1>2

\* Every step of the runtime and of the session layer below it keeps the
\* invariant.
LEMMA InvariantStep == ASSUME IInv, [Next]_vars PROVE IInv'
<1> SUFFICES ASSUME TableInv, RestOK, [Next]_vars PROVE TableInv' /\ RestOK'
  BY Zenon, Halves DEF IInv, TypeOK, TableInv, RestOK
<1>1. CASE Internal
  <2>1. ASSUME NEW h \in Host, TimerStep(h) PROVE TableInv' /\ RestOK' BY <2>1, TimerKeeps
  <2>2. CASE dispatchSessionEvent BY <2>2, DispatchKeeps
  <2> QED BY <1>1, <2>1, <2>2, CallStep, PumpKeeps DEF Internal, ProtocolStep
<1>2. CASE \E h \in Host : CallbackTaken(h) BY <1>2, TimerKeeps
<1>3. CASE UNCHANGED vars BY <1>3, StutterKeeps
<1> QED BY <1>1, <1>2, <1>3, CallStep, PumpKeeps DEF Next

\* Whatever the session layer reports and however protocols, the pump, timers
\* and Cancel interleave, the retry table keeps its invariant.
THEOREM Invariance == Spec => []IInv
<1>1. Init => IInv BY InitHolds, Halves
<1>2. IInv /\ [Next]_vars => IInv' BY InvariantStep
<1> QED BY <1>1, <1>2, PTL DEF Spec

\* Every backoff timer that can still fire belongs to the table entry of its
\* peer, so each of Disconnect, success, giving up and Cancel stops it.
THEOREM NoStrayTimer == Spec => []TimersOwned
BY Invariance, PTL DEF IInv

\* Only peers that a protocol wants are in the retry table.
THEOREM RetriesWanted == Spec => []TrackedIsWanted
BY Invariance, PTL DEF IInv

\* Type correctness of the runtime's session side, mailbox bounds included.
THEOREM TypeCorrect == Spec => []TypeOK
BY Invariance, PTL DEF IInv

-----------------------------------------------------------------------------
(* The session layer of the stack.                                         *)

\* The session layer with its theorems, in the place of S.
P == INSTANCE SessionProofs
       WITH Dial <- Host, HelloOutcome <- {"ok"}, Kinds <- {}, MsgsBuf <- 1

-----------------------------------------------------------------------------
(* S and P are the same session layer.                                     *)

\* The assumptions of the session layer hold of the stack's constants.
LEMMA SessionConstants ==
    /\ Nil \notin Host /\ OutBuf \in Nat \ {0}
    /\ Host \subseteq Host /\ Hang \subseteq Host /\ Self \in Host
    /\ {"ok"} \subseteq {"ok", "error"} /\ {} \subseteq P!Kind /\ Cancels \in BOOLEAN
    /\ EventsBuf \in Nat \ {0} /\ 1 \in Nat \ {0}
<1>1. 1 \in Nat \ {0} OBVIOUS
<1>2. Hang \subseteq Host /\ EventsBuf \in Nat \ {0} /\ Cancels \in BOOLEAN /\ Nil \notin Host
  BY Zenon, RetryAssumption
<1> QED BY Zenon, <1>1, <1>2, StackAssumption

\* The calls the runtime makes.
LEMMA SameCalls ==
    ASSUME NEW h
    PROVE  (S!Connect(h) <=> P!Connect(h)) /\ (S!Disconnect(h) <=> P!Disconnect(h))
BY Zenon DEF S!Connect, P!Connect, S!Disconnect, P!Disconnect, S!Ready, P!Ready,
    S!handleClientConnectRequested, P!handleClientConnectRequested, S!Call, P!Call,
    S!RequestOf, P!RequestOf, S!UpUnchanged, P!UpUnchanged, S!ups, P!ups,
    S!layerVars, P!layerVars, S!cleanupServerMapping, P!cleanupServerMapping

\* The handler.
LEMMA SameHandler == S!Handler <=> P!Handler
<1>1. S!transportEventHandler <=> P!transportEventHandler
  <2>1. ASSUME NEW t PROVE S!handleConnected(t) <=> P!handleConnected(t)
    BY Zenon DEF S!handleConnected, P!handleConnected, S!MoveTo, P!MoveTo, S!Call, P!Call,
      S!RequestOf, P!RequestOf, S!Emit, P!Emit, S!EventOf, P!EventOf, S!maps, P!maps,
      S!setServerMapping, P!setServerMapping
  <2>2. ASSUME NEW t PROVE S!handleDisconnected(t) <=> P!handleDisconnected(t)
    BY Zenon DEF S!handleDisconnected, P!handleDisconnected, S!MoveTo, P!MoveTo,
      S!Emit, P!Emit, S!EventOf, P!EventOf, S!mapToHost, P!mapToHost,
      S!cleanupServerMapping, P!cleanupServerMapping
  <2>3. ASSUME NEW t PROVE S!handleFailed(t) <=> P!handleFailed(t)
    BY Zenon DEF S!handleFailed, P!handleFailed, S!MoveTo, P!MoveTo,
      S!Emit, P!Emit, S!EventOf, P!EventOf, S!mapToHost, P!mapToHost,
      S!cleanupServerMapping, P!cleanupServerMapping
  <2> QED BY Zenon, <2>1, <2>2, <2>3 DEF S!transportEventHandler, P!transportEventHandler,
      S!Ready, P!Ready, S!UpUnchanged, P!UpUnchanged, S!ups, P!ups
<1>2. S!transportMessageHandler <=> P!transportMessageHandler
  BY Zenon DEF S!transportMessageHandler, P!transportMessageHandler, S!Ready, P!Ready,
    S!Push, P!Push, S!maps, P!maps, S!handleServerHello, P!handleServerHello,
    S!ServerSide, P!ServerSide, S!setServerMapping, P!setServerMapping, S!Call, P!Call,
    S!RequestOf, P!RequestOf, S!Emit, P!Emit, S!EmitUnguarded, P!EmitUnguarded,
    S!EventOf, P!EventOf, S!Kind, P!Kind, S!handleIgnoredHandshake, P!handleIgnoredHandshake,
    S!MoveTo, P!MoveTo, S!Handshaking, P!Handshaking, S!handleVersionMismatch,
    P!handleVersionMismatch, S!UpUnchanged, P!UpUnchanged, S!ups, P!ups
<1>3. S!HandlerReturns <=> P!HandlerReturns
  BY Zenon DEF S!HandlerReturns, P!HandlerReturns, S!Ready, P!Ready, S!layerVars, P!layerVars,
    S!maps, P!maps, S!ups, P!ups
<1>4. /\ S!TransportCall <=> P!TransportCall
      /\ S!EmitEvent <=> P!EmitEvent
      /\ S!PushMessage <=> P!PushMessage
      /\ S!GiveUpOperation <=> P!GiveUpOperation
  BY Zenon DEF S!TransportCall, P!TransportCall, S!EmitEvent, P!EmitEvent, S!PushMessage,
    P!PushMessage, S!GiveUpOperation, P!GiveUpOperation, S!Doing, P!Doing, S!Done, P!Done,
    S!UpUnchanged, P!UpUnchanged, S!layerVars, P!layerVars, S!maps, P!maps, S!ups, P!ups
<1> QED BY Zenon, <1>1, <1>2, <1>3, <1>4 DEF S!Handler, P!Handler

\* So are their specifications.
LEMMA SameLayer == (S!Next <=> P!Next) /\ S!vars = P!vars
<1>1. S!Calls <=> P!Calls
  <2>1. ASSUME NEW h PROVE S!Send(h) <=> P!Send(h)
    BY Zenon DEF S!Send, P!Send, S!Ready, P!Ready, S!Call, P!Call, S!RequestOf, P!RequestOf,
      S!resolveUnderlyingHost, P!resolveUnderlyingHost, S!UpUnchanged, P!UpUnchanged,
      S!ups, P!ups, S!layerVars, P!layerVars, S!maps, P!maps
  <2> QED BY Zenon, <2>1, SameCalls DEF S!Calls, P!Calls
<1>2. S!sessionVars = P!sessionVars /\ S!layerVars = P!layerVars
  BY Zenon DEF S!sessionVars, P!sessionVars, S!maps, P!maps, S!ups, P!ups,
    S!layerVars, P!layerVars
<1>3. S!Environment <=> P!Environment
  <2>1. S!Event = P!Event /\ S!Payload = P!Payload
    BY Zenon DEF S!Event, P!Event, S!Payload, P!Payload
  <2>2. ASSUME NEW e
        PROVE  /\ S!TransportEvent(e) <=> P!TransportEvent(e)
               /\ S!TransportMessage(e) <=> P!TransportMessage(e)
    BY Zenon DEF S!TransportEvent, P!TransportEvent, S!TransportMessage, P!TransportMessage,
      S!sessionVars, P!sessionVars, S!maps, P!maps, S!ups, P!ups
  <2>3. /\ S!TransportServes <=> P!TransportServes
        /\ S!TransportCancel <=> P!TransportCancel
        /\ S!RuntimeReadsEvent <=> P!RuntimeReadsEvent
        /\ S!RuntimeReadsMessage <=> P!RuntimeReadsMessage
        /\ S!Cancel <=> P!Cancel
    BY Zenon DEF S!TransportServes, P!TransportServes, S!TransportCancel,
      P!TransportCancel, S!RuntimeReadsEvent, P!RuntimeReadsEvent, S!RuntimeReadsMessage,
      P!RuntimeReadsMessage, S!Cancel, P!Cancel, S!sessionVars, P!sessionVars,
      S!layerVars, P!layerVars, S!maps, P!maps, S!ups, P!ups
  <2> QED BY Zenon, <2>1, <2>2, <2>3 DEF S!Environment, P!Environment
<1> QED BY Zenon, <1>1, <1>2, <1>3, SameHandler DEF S!Next, P!Next, S!vars, P!vars

-----------------------------------------------------------------------------
(* Every step of the stack is a step of each component, or none of it.     *)

\* What protocols disconnect and what the transport serves.
CallsForm == \A g \in Goroutine : caller[g].op = "disconnect" => caller[g].host \in Hang
OwedForm == owed => request # Nil

Parts == TypeOK /\ S!TypeOK /\ CallsForm /\ OwedForm

\* What the session handler has yet to do is well formed.
LEMMA TodoForm ==
    ASSUME S!TypeOK, todo # <<>>
    PROVE  /\ Head(todo).op = "call" => Head(todo).arg \in S!Request
           /\ Head(todo).op = "emit" => Head(todo).arg \in SessionEvent
<1>1. Head(todo) \in S!Effect
  BY DEF S!TypeOK, S!SessionTypeOK
<1>2. ASSUME NEW x \in S!Effect
      PROVE  (x.op = "call" => x.arg \in S!Request) /\ (x.op = "emit" => x.arg \in SessionEvent)
  <2>1. S!SessionEvent = SessionEvent
    BY Zenon DEF S!SessionEvent, SessionEvent
  <2>2. CASE x \in [op : {"call"}, arg : S!Request, guarded : {FALSE}]
    BY <2>2
  <2>3. CASE x \in [op : {"emit"}, arg : S!SessionEvent, guarded : BOOLEAN]
    BY <2>1, <2>3
  <2>4. CASE x \in [op : {"push"}, arg : S!Message, guarded : {TRUE}]
    BY <2>4
  <2> QED BY Zenon, <2>2, <2>3, <2>4 DEF S!Effect
<1> QED BY Zenon, <1>1, <1>2

\* What each kind of step leaves alone.
LEMMA PrivateFrame == ASSUME Private
    PROVE  /\ UNCHANGED <<outEvents, outChannel, request, transportDone, owed, lost>>
           /\ UNCHANGED <<sessions, transportToLogical, logicalToTransport, todo>>
           /\ UNCHANGED <<outMessages, sessionDone, stopped, announced>>
BY Zenon DEF Private, transportPart, sessionPart

\* Steps of the runtime by itself that do not read the session layer's events.
Quiet ==
    \/ \E p \in Proto : ProtocolStep(p)
    \/ \E h \in Host : TimerStep(h) \/ InitContact(h) \/ (sessionDone /\ CallbackTaken(h))
    \/ \E g \in Goroutine : sessionDone /\ CallTaken(g)
    \/ startSessionEvents \/ fanoutSessionEvent \/ PumpReturns \/ Cancel \/ retryTeardown

\* They are steps of Retry and leave the session layer's events alone.
LEMMA QuietFrame == ASSUME Quiet PROVE Next /\ UNCHANGED outChannelEvents
<1>1. Next
  BY Zenon DEF Quiet, Next, Internal
<1>2. ASSUME NEW p \in Proto, ProtocolStep(p) PROVE UNCHANGED outChannelEvents
  BY Zenon, <1>2 DEF ProtocolStep, Connect, ConnectWithRetry, Disconnect, deliverSessionEvent
<1>3. ASSUME NEW h \in Host, TimerStep(h) \/ InitContact(h) \/ CallbackTaken(h)
      PROVE  UNCHANGED outChannelEvents
  BY Zenon, <1>3 DEF TimerStep, Fire, CallbackChecks, InitContact, CallbackTaken
<1>4. ASSUME NEW g \in Goroutine, CallTaken(g) PROVE UNCHANGED outChannelEvents
  BY Zenon, <1>4 DEF CallTaken
<1>5. CASE startSessionEvents \/ fanoutSessionEvent \/ PumpReturns \/ Cancel \/ retryTeardown
  BY Zenon, <1>1, <1>5 DEF startSessionEvents, fanoutSessionEvent, PumpReturns, Cancel, retryTeardown
<1> QED BY Zenon, <1>1, <1>2, <1>3, <1>4, <1>5 DEF Quiet

\* The steps of the stack, by the components that take part.
Parties ==
    \/ (Quiet \/ dispatchSessionEvent) /\ Private
    \/ \E g \in Goroutine : SessionCallTaken(g)
    \/ \E h \in Host : BackoffCallTaken(h)
    \/ HandlerStep \/ TransportStep \/ PeerLost \/ CancelSession \/ CancelTransport

\* There are no others.
LEMMA StepParties == ASSUME StackNext PROVE Parties
<1>1. ASSUME NEW p \in Proto, LoopStep(p) PROVE Parties
  BY Zenon, <1>1 DEF LoopStep, Parties, Quiet
<1>2. ASSUME NEW h \in Host, BackoffStep(h) \/ BackoffGivenUp(h) PROVE Parties
  BY Zenon, <1>2 DEF BackoffStep, BackoffGivenUp, Parties, Quiet
<1>3. ASSUME NEW g \in Goroutine, CallGivenUp(g) PROVE Parties
  BY Zenon, <1>3 DEF CallGivenUp, Parties, Quiet
<1>4. CASE InitStep \/ PumpStep \/ CancelContext \/ StopTimers
  BY Zenon, <1>4 DEF InitStep, PumpStep, CancelContext, StopTimers, Parties, Quiet
<1> QED BY Zenon, <1>1, <1>2, <1>3, <1>4 DEF StackNext, Parties

\* A step of the stack is a step of the session layer, of the transport it
\* stands on or of the runtime above it as Session has them, or none of it.
LEMMA SessionRuns ==
    ASSUME Parts, Parties
    PROVE  S!Next \/ UNCHANGED S!vars
<1> USE DEF S!vars, S!layerVars, S!sessionVars, S!maps, S!ups
<1>1. CASE Quiet /\ Private
  BY Zenon, <1>1, QuietFrame, PrivateFrame
<1>2. CASE dispatchSessionEvent /\ Private
  <2>1. S!RuntimeReadsEvent
    BY Zenon, <1>2, PrivateFrame DEF S!RuntimeReadsEvent, dispatchSessionEvent
  <2> QED BY Zenon, <2>1 DEF S!Next, S!Environment
<1>3. ASSUME NEW g \in Goroutine, SessionCallTaken(g) PROVE S!Next
  <2>1. caller[g] \in SessionCall
    BY Zenon DEF Parts, TypeOK
  <2>2. caller[g].op = "connect" => caller[g].host \in Host
    BY <2>1 DEF SessionCall, NoCall
  <2>3. caller[g].op = "disconnect" => caller[g].host \in Hang
    BY Zenon DEF Parts, CallsForm
  <2> QED BY Zenon, <1>3, <2>2, <2>3 DEF SessionCallTaken, S!Next, S!Calls
<1>4. ASSUME NEW h \in Host, BackoffCallTaken(h) PROVE S!Next
  BY Zenon, <1>4 DEF BackoffCallTaken, S!Next, S!Calls
<1>5. CASE HandlerStep
  BY Zenon, <1>5 DEF HandlerStep, S!Next
<1>6. CASE TransportStep \/ PeerLost
  <2>1. UNCHANGED S!sessionVars
    BY Zenon, <1>6 DEF TransportStep, PeerLost, vars, sessionPart
  <2>2. ASSUME T!Answer PROVE \E e \in S!Event : T!Report(e)
    <3>1. request \in S!Request /\ request.host \in Host
      BY <2>2 DEF T!Answer, Parts, OwedForm, S!TypeOK, S!LayerTypeOK, S!Request
    <3>2. \A ty \in {"Connected", "Failed"} : T!EventOf(ty, request.host) \in S!Event
      BY <3>1 DEF T!EventOf, S!Event
    <3> QED BY Zenon, <2>2, <3>2 DEF T!Answer
  <2>3. ASSUME T!Notice PROVE \E e \in S!Event : T!Report(e)
    BY Zenon, <2>3 DEF T!Notice, T!Event, S!Event
  <2>4. ASSUME NEW e \in S!Event, T!Report(e) PROVE S!Next
    <3>1. S!TransportEvent(e)
      BY Zenon, <2>1, <2>4 DEF S!TransportEvent, T!Report
    <3> QED BY Zenon, <3>1 DEF S!Next, S!Environment
  <2>5. ASSUME T!Serve PROVE S!Next
    <3>1. S!TransportServes
      BY Zenon, <2>1, <2>5 DEF S!TransportServes, T!Serve
    <3> QED BY Zenon, <3>1 DEF S!Next, S!Environment
  <2> QED BY Zenon, <1>6, <2>2, <2>3, <2>4, <2>5 DEF TransportStep, PeerLost
<1>7. CASE CancelSession \/ CancelTransport
  BY Zenon, <1>7 DEF CancelSession, CancelTransport, S!Next, S!Environment
<1> QED BY Zenon, <1>1, <1>2, <1>3, <1>4, <1>5, <1>6, <1>7 DEF Parties

\* A step of the stack is a step of the runtime as Retry has it, above a session
\* layer of which Retry assumes nothing, or none of it.
LEMMA RuntimeRuns ==
    ASSUME Parts, Parties
    PROVE  Next \/ UNCHANGED vars
<1>1. CASE (Quiet \/ dispatchSessionEvent) /\ Private
  BY Zenon, <1>1, QuietFrame DEF Next, Internal
<1>2. ASSUME NEW g \in Goroutine, SessionCallTaken(g) PROVE Next
  BY Zenon, <1>2 DEF SessionCallTaken, Next
<1>3. ASSUME NEW h \in Host, BackoffCallTaken(h) PROVE Next
  BY Zenon, <1>3 DEF BackoffCallTaken, Next
<1>4. ASSUME UNCHANGED runtimePart, UNCHANGED outChannelEvents PROVE UNCHANGED vars
  BY Zenon, <1>4 DEF runtimePart, vars, table, callbacks
<1>5. CASE HandlerStep
  <2>1. UNCHANGED runtimePart
    BY Zenon, <1>5 DEF HandlerStep
  <2>2. CASE S!EmitEvent
    <3>1. Head(todo).arg \in SessionEvent
      BY Zenon, <2>2, TodoForm DEF S!EmitEvent, S!Doing, Parts
    <3>2. SessionEmits(Head(todo).arg)
      BY Zenon, <2>1, <2>2 DEF SessionEmits, S!EmitEvent, runtimePart
    <3> QED BY Zenon, <3>1, <3>2 DEF Next
  <2>3. CASE ~S!EmitEvent
    <3>1. UNCHANGED outChannelEvents
      BY Zenon, <1>5, <2>3 DEF HandlerStep, S!Handler, S!transportEventHandler,
        S!transportMessageHandler, S!HandlerReturns, S!TransportCall, S!PushMessage,
        S!GiveUpOperation, S!UpUnchanged, S!ups
    <3> QED BY Zenon, <1>4, <2>1, <3>1
  <2> QED BY Zenon, <2>2, <2>3
<1>6. CASE TransportStep \/ PeerLost
  BY Zenon, <1>6 DEF TransportStep, PeerLost
<1>7. CASE CancelSession \/ CancelTransport
  BY Zenon, <1>4, <1>7 DEF CancelSession, CancelTransport, S!Cancel, S!TransportCancel,
    S!sessionVars, S!ups
<1> QED BY Zenon, <1>1, <1>2, <1>3, <1>5, <1>6, <1>7 DEF Parties

\* A step of the stack keeps to the contract of the transport, or takes no part
\* in it: the session layer makes one call at a time and reads the reports in
\* order.
LEMMA TransportRuns ==
    ASSUME Parts, Parties
    PROVE  T!Next \/ UNCHANGED T!transportVars
<1> USE DEF T!transportVars, T!layerVars
<1>1. CASE (Quiet \/ dispatchSessionEvent) /\ Private
  BY Zenon, <1>1, PrivateFrame
<1>2. ASSUME \/ \E g \in Goroutine : SessionCallTaken(g)
             \/ \E h \in Host : BackoffCallTaken(h)
      PROVE  UNCHANGED T!transportVars
  BY Zenon, <1>2 DEF SessionCallTaken, BackoffCallTaken, S!Connect, S!Disconnect, S!layerVars
<1>3. CASE HandlerStep
  <2>1. owed' = IF request' = request THEN owed ELSE request'.op = "connect"
    BY Zenon, <1>3 DEF HandlerStep
  <2>2. CASE S!TransportCall
    <3>1. Head(todo).arg \in T!Request /\ Nil \notin T!Request
      BY Zenon, <2>2, TodoForm, StackAssumption DEF S!TransportCall, S!Doing, Parts,
        S!Request, T!Request, S!Kind, T!Kind
    <3>2. request = Nil /\ request' = Head(todo).arg
          /\ UNCHANGED <<outEvents, outChannel, transportDone>>
      BY Zenon, <2>2 DEF S!TransportCall
    <3>3. request' # request
      BY Zenon, <3>1, <3>2
    <3>4. T!Take
      BY Zenon, <2>1, <3>1, <3>2, <3>3 DEF T!Take
    <3> QED BY Zenon, <3>4 DEF T!Next
  <2>3. CASE S!transportEventHandler \/ S!transportMessageHandler
    <3>1. T!Read
      BY Zenon, <2>1, <2>3 DEF T!Read, S!transportEventHandler, S!transportMessageHandler
    <3> QED BY Zenon, <3>1 DEF T!Next
  <2>4. CASE S!HandlerReturns \/ S!EmitEvent \/ S!PushMessage \/ S!GiveUpOperation
    BY Zenon, <2>1, <2>4 DEF S!HandlerReturns, S!EmitEvent, S!PushMessage, S!GiveUpOperation,
      S!layerVars
  <2> QED BY Zenon, <1>3, <2>2, <2>3, <2>4 DEF HandlerStep, S!Handler
<1>4. CASE TransportStep \/ PeerLost
  BY Zenon, <1>4 DEF TransportStep, PeerLost, T!Next
<1>5. CASE CancelSession
  BY Zenon, <1>5 DEF CancelSession, S!Cancel, S!layerVars
<1>6. CASE CancelTransport
  <2>1. T!Stop
    BY Zenon, <1>6 DEF CancelTransport, S!TransportCancel, T!Stop
  <2> QED BY Zenon, <2>1 DEF T!Next
<1> QED BY Zenon, <1>1, <1>2, <1>3, <1>4, <1>5, <1>6 DEF Parties

-----------------------------------------------------------------------------
(* So the composition keeps the invariants of its components.              *)

Composed == IInv /\ P!Inductive /\ CallsForm /\ OwedForm

\* The invariants of the components hold the types of both.
LEMMA ComposedParts == Composed => Parts
<1>1. P!TypeOK <=> S!TypeOK
  BY Zenon DEF P!TypeOK, S!TypeOK, P!LayerTypeOK, S!LayerTypeOK, P!SessionTypeOK,
    S!SessionTypeOK, P!Event, S!Event, P!Message, S!Message, P!Kind, S!Kind, P!Request,
    S!Request, P!Effect, S!Effect, P!SessionEvent, S!SessionEvent, P!State, S!State
<1> QED BY Zenon, <1>1 DEF Composed, Parts, IInv, P!Inductive, P!IInv

\* Calls to Disconnect are for the peers that protocols disconnect, and a dial
\* is owed only while a request is served.
LEMMA FormsStep ==
    ASSUME Parts, Parties
    PROVE  CallsForm' /\ OwedForm'
<1>0. caller \in [Goroutine -> SessionCall] /\ CallsForm
  BY Zenon DEF Parts, TypeOK
<1>1. CallsForm'
  <2>1. CASE UNCHANGED caller
    BY Zenon, <1>0, <2>1 DEF CallsForm
  <2>2. ASSUME NEW g \in Goroutine, NEW c, caller' = [caller EXCEPT ![g] = c],
               c.op = "disconnect" => c.host \in Hang
        PROVE  CallsForm'
    BY Zenon, <1>0, <2>2 DEF CallsForm
  <2>3. \A h : CallOf("connect", h).op # "disconnect" /\ NoCall.op # "disconnect"
    BY DEF CallOf, NoCall
  <2>4. \A h : CallOf("disconnect", h).host = h
    BY DEF CallOf
  <2>5. ASSUME NEW p \in Proto, ProtocolStep(p) PROVE CallsForm'
    <3>1. p \in Goroutine
      BY Zenon DEF Goroutine
    <3>2. ASSUME NEW h, connect(p, h) PROVE CallsForm'
      BY Zenon, <2>1, <2>2, <2>3, <3>1, <3>2 DEF connect
    <3>3. ASSUME NEW h \in Hang, Disconnect(p, h) PROVE CallsForm'
      BY ZenonT(40), <2>1, <2>2, <2>4, <3>1, <3>3 DEF Disconnect
    <3>4. UNCHANGED caller \/ (\E h : connect(p, h)) \/ \E h \in Hang : Disconnect(p, h)
      BY Zenon, <2>5 DEF ProtocolStep, Connect, ConnectWithRetry, connectWithRetry,
        deliverSessionEvent
    <3> QED BY Zenon, <2>1, <3>2, <3>3, <3>4
  <2>6. ASSUME NEW h \in Host, InitContact(h) PROVE CallsForm'
    <3>1. Main \in Goroutine
      BY Zenon DEF Goroutine
    <3>2. UNCHANGED caller \/ connect(Main, h)
      BY Zenon, <2>6 DEF InitContact, connectWithRetry
    <3> QED BY Zenon, <2>1, <2>2, <2>3, <3>1, <3>2 DEF connect
  <2>7. ASSUME NEW g \in Goroutine, CallTaken(g) PROVE CallsForm'
    BY Zenon, <2>2, <2>3, <2>7 DEF CallTaken
  <2>8. ASSUME NEW h \in Host, TimerStep(h) \/ CallbackTaken(h) PROVE UNCHANGED caller
    BY Zenon, <2>8 DEF TimerStep, Fire, CallbackChecks, CallbackTaken
  <2>9. CASE \/ startSessionEvents \/ fanoutSessionEvent \/ PumpReturns \/ Cancel
             \/ retryTeardown \/ dispatchSessionEvent
    BY Zenon, <2>1, <2>9 DEF startSessionEvents, fanoutSessionEvent, PumpReturns, Cancel,
      retryTeardown, dispatchSessionEvent
  <2>10. CASE \E g \in Goroutine : SessionCallTaken(g)
    BY Zenon, <2>7, <2>10 DEF SessionCallTaken
  <2>11. CASE \E h \in Host : BackoffCallTaken(h)
    BY Zenon, <2>1, <2>8, <2>11 DEF BackoffCallTaken
  <2>12. CASE HandlerStep \/ TransportStep \/ PeerLost \/ CancelSession \/ CancelTransport
    BY Zenon, <2>1, <2>12 DEF HandlerStep, TransportStep, PeerLost, CancelSession,
      CancelTransport, runtimePart, vars
  <2>13. CASE Quiet
    BY Zenon, <2>1, <2>5, <2>6, <2>7, <2>8, <2>9, <2>13 DEF Quiet
  <2> QED BY Zenon, <2>9, <2>10, <2>11, <2>12, <2>13 DEF Parties
<1>2. OwedForm'
  <2>1. OwedForm /\ Nil \notin T!Request
    BY Zenon, StackAssumption DEF Parts, S!Request, T!Request, S!Kind, T!Kind
  <2>2. CASE UNCHANGED T!transportVars
    BY Zenon, <2>1, <2>2 DEF T!transportVars, T!layerVars, OwedForm
  <2>3. CASE T!Next
    BY Zenon, <2>1, <2>3 DEF T!Next, T!Answer, T!Serve, T!Notice, T!Receive, T!Stop, T!Take,
      T!Read, T!Report, OwedForm
  <2> QED BY Zenon, <2>2, <2>3, TransportRuns
<1> QED BY Zenon, <1>1, <1>2

\* Since every step is one of each component or none, their invariants are kept.
LEMMA ComposedStep == ASSUME Composed, [StackNext]_stackVars PROVE Composed'
<1>1. Parts
  BY Zenon, ComposedParts
<1>2. CASE StackNext
  <2>1. Parties
    BY Zenon, <1>2, StepParties
  <2>2. IInv'
    BY Zenon, <1>1, <2>1, RuntimeRuns, InvariantStep DEF Composed
  <2>3. P!Next \/ UNCHANGED P!vars
    <3>1. S!Next \/ UNCHANGED S!vars
      BY Zenon, <1>1, <2>1, SessionRuns
    <3> QED BY Zenon, <3>1, SameLayer DEF S!vars, P!vars, S!layerVars, P!layerVars,
      S!sessionVars, P!sessionVars, S!maps, P!maps, S!ups, P!ups
  <2>4. P!Inductive'
    BY Zenon, <2>3, SessionConstants, P!InductiveStep DEF Composed
  <2> QED BY Zenon, <1>1, <2>1, <2>2, <2>4, FormsStep DEF Composed
<1>3. CASE UNCHANGED stackVars
  <2>1. UNCHANGED vars /\ UNCHANGED P!vars /\ UNCHANGED <<caller, owed, request>>
    BY Zenon, <1>3 DEF stackVars, vars, transportPart, sessionPart, P!vars, P!layerVars,
      P!sessionVars, P!maps, P!ups
  <2>2. IInv'
    BY Zenon, <2>1, InvariantStep DEF Composed
  <2>3. P!Inductive'
    BY Zenon, <2>1, SessionConstants, P!InductiveStep DEF Composed
  <2>4. CallsForm' /\ OwedForm'
    BY Zenon, <2>1 DEF Composed, CallsForm, OwedForm
  <2> QED BY Zenon, <2>2, <2>3, <2>4 DEF Composed
<1> QED BY Zenon, <1>2, <1>3

\* They hold in the initial state.
LEMMA ComposedInit ==
    ASSUME StackInit
    PROVE  Composed /\ Init /\ S!Init /\ T!Init
<1>1. Init /\ T!Init /\ S!SessionInit
  BY Zenon DEF StackInit
<1>2. S!Init /\ P!Init
  BY Zenon, <1>1 DEF S!Init, P!Init, S!LayerInit, P!LayerInit, T!Init, T!LayerInit,
    S!SessionInit, P!SessionInit
<1>3. IInv
  BY Zenon, <1>1, InitHolds, Halves
<1>4. P!Inductive
  BY Zenon, <1>2, SessionConstants, P!InductiveInit
<1>5. CallsForm
  <2>1. NoCall.op # "disconnect"
    BY DEF NoCall
  <2> QED BY Zenon, <1>1, <2>1 DEF CallsForm, Init
<1>6. OwedForm
  BY Zenon, <1>1 DEF OwedForm, T!Init
<1> QED BY Zenon, <1>1, <1>2, <1>3, <1>4, <1>5, <1>6 DEF Composed

\* The invariants of the components are invariants of the stack.
THEOREM StackInvariance == StackSpec => []Composed
<1>1. StackInit => Composed
  BY Zenon, ComposedInit
<1>2. Composed /\ [StackNext]_stackVars => Composed'
  BY Zenon, ComposedStep
<1> QED BY <1>1, <1>2, PTL DEF StackSpec

\* The stack behaves as each of its components' specifications says: as the
\* runtime of Retry, whose session layer may report anything, as the session
\* layer of Session, whose transport may report anything, and as the transport
\* of Transport.  Each component's assumptions on the others are met.
THEOREM StackRunsComponents == StackSpec => Spec /\ S!Spec /\ T!Spec
<1>1. StackInit => Init /\ S!Init /\ T!Init
  BY Zenon, ComposedInit
<1>2. Composed /\ [StackNext]_stackVars
        => [Next]_vars /\ [S!Next]_(S!vars) /\ [T!Next]_(T!transportVars)
  <2>1. ASSUME Composed, StackNext
        PROVE  [Next]_vars /\ [S!Next]_(S!vars) /\ [T!Next]_(T!transportVars)
    BY Zenon, <2>1, ComposedParts, StepParties, RuntimeRuns, SessionRuns, TransportRuns
  <2>2. ASSUME UNCHANGED stackVars
        PROVE  UNCHANGED vars /\ UNCHANGED S!vars /\ UNCHANGED T!transportVars
    BY Zenon, <2>2 DEF stackVars, vars, transportPart, sessionPart, S!vars, S!layerVars,
      S!sessionVars, S!maps, S!ups, T!transportVars, T!layerVars
  <2> QED BY Zenon, <2>1, <2>2
<1> QED BY <1>1, <1>2, StackInvariance, PTL DEF StackSpec, Spec, S!Spec, T!Spec

-----------------------------------------------------------------------------
(* The elements of a channel or of the operations left to do.              *)

Elems(q) == {q[i] : i \in DOMAIN q}

\* Writing to a channel adds an element.
LEMMA ElemsAppend ==
    ASSUME NEW X, NEW q \in Seq(X), NEW x \in X
    PROVE  Elems(Append(q, x)) = Elems(q) \cup {x}
<1>1. /\ Len(q) \in Nat /\ DOMAIN q = 1..Len(q)
      /\ DOMAIN Append(q, x) = 1..(Len(q) + 1)
      /\ Append(q, x)[Len(q) + 1] = x
      /\ \A i \in 1..Len(q) : Append(q, x)[i] = q[i]
  OBVIOUS
<1>2. \A i \in 1..(Len(q) + 1) : i \in 1..Len(q) \/ i = Len(q) + 1
  BY <1>1
<1>3. Len(q) + 1 \in 1..(Len(q) + 1) /\ \A i \in 1..Len(q) : i \in 1..(Len(q) + 1)
  BY <1>1
<1> QED BY Zenon, <1>1, <1>2, <1>3 DEF Elems

\* Reading from a channel takes its first element.
LEMMA ElemsTail ==
    ASSUME NEW X, NEW q \in Seq(X), q # <<>>
    PROVE  Elems(q) = Elems(Tail(q)) \cup {Head(q)}
<1>1. /\ Len(q) \in Nat /\ Len(q) > 0 /\ DOMAIN q = 1..Len(q)
      /\ DOMAIN Tail(q) = 1..(Len(q) - 1)
      /\ Head(q) = q[1]
      /\ \A i \in 1..(Len(q) - 1) : Tail(q)[i] = q[i + 1]
  OBVIOUS
<1>2. /\ 1 \in DOMAIN q
      /\ \A i \in DOMAIN Tail(q) : i + 1 \in DOMAIN q
      /\ \A i \in DOMAIN q : i = 1 \/ (i - 1 \in DOMAIN Tail(q) /\ (i - 1) + 1 = i)
  BY <1>1
<1>3. \A i \in DOMAIN q : i = 1 \/ \E j \in DOMAIN Tail(q) : Tail(q)[j] = q[i]
  BY <1>1, <1>2
<1>4. \A j \in DOMAIN Tail(q) : \E i \in DOMAIN q : Tail(q)[j] = q[i]
  BY Zenon, <1>1, <1>2
<1>5. ASSUME NEW e \in Elems(q) PROVE e \in Elems(Tail(q)) \cup {Head(q)}
  <2>1. PICK i \in DOMAIN q : e = q[i]
    BY Zenon DEF Elems
  <2>2. CASE i = 1
    BY Zenon, <1>1, <2>1, <2>2
  <2>3. CASE \E j \in DOMAIN Tail(q) : Tail(q)[j] = q[i]
    BY Zenon, <2>1, <2>3 DEF Elems
  <2> QED BY Zenon, <1>3, <2>2, <2>3
<1>6. ASSUME NEW e \in Elems(Tail(q)) \cup {Head(q)} PROVE e \in Elems(q)
  <2>1. CASE e = Head(q)
    BY Zenon, <1>1, <1>2, <2>1 DEF Elems
  <2>2. CASE e \in Elems(Tail(q))
    <3>1. PICK j \in DOMAIN Tail(q) : e = Tail(q)[j]
      BY Zenon, <2>2 DEF Elems
    <3> QED BY Zenon, <1>4, <3>1 DEF Elems
  <2> QED BY Zenon, <2>1, <2>2
<1> QED BY Zenon, <1>5, <1>6

\* Short sequences.
LEMMA ElemsShort ==
    ASSUME NEW x, NEW y
    PROVE  Elems(<<>>) = {} /\ Elems(<<x>>) = {x} /\ Elems(<<x, y>>) = {x, y}
<1>1. /\ DOMAIN <<>> = 1..0 /\ \A i \in 1..0 : FALSE
      /\ DOMAIN <<x>> = {1} /\ <<x>>[1] = x
      /\ DOMAIN <<x, y>> = {1, 2} /\ <<x, y>>[1] = x /\ <<x, y>>[2] = y
  OBVIOUS
<1> QED BY Zenon, <1>1 DEF Elems

-----------------------------------------------------------------------------
(* No wake-up is lost.  RetryUnderWay counts a dial and its answer as      *)
(* under way; what matters of them is the session they will move, so the   *)
(* invariant speaks of its state, and says apart what a handshaking        *)
(* session is waiting for.                                                 *)

\* The session handler is going to dial h, or the transport is dialling it.
Asked(h) ==
    \E x \in Elems(todo) : x.op = "call" /\ x.arg.op = "connect" /\ x.arg.host = h
Dialled(h) == Asked(h) \/ (owed /\ request.host = h)

\* The session handler is going to report an event about h.
Telling(h) == \E x \in Elems(todo) : x.op = "emit" /\ x.arg.host = h

\* Cancel goes from the runtime down.
CancelOrder == (sessionDone => cancelled) /\ (transportDone => cancelled)

\* Without payloads no peer has another version.
Matching(e) == e.type \in {"SessionConnected", "SessionDisconnected", "SessionFailed"}
NoPayload ==
    /\ outChannel = <<>>
    /\ \A x \in Elems(todo) : x.op = "emit" => Matching(x.arg)
    /\ \A e \in Elems(outChannelEvents) : Matching(e)

\* The transport has reported something, or Connected, about h.
Heard(h) == \E e \in Elems(outEvents) : e.host = h
HeardUp(h) == \E e \in Elems(outEvents) : e.type = "Connected" /\ e.host = h

\* Connected comes for sessions that were dialled only, so none is a server's;
\* and a session that is being set up is dialled, or its fate is reported.
DialOK(h) ==
    /\ sessions[h].state # "HandshakingServer"
    /\ sessions[h].state = "Idle" => ~Dialled(h) /\ ~HeardUp(h)
    /\ sessions[h].state = "HandshakingClient" /\ ~cancelled => Dialled(h) \/ Heard(h)
DialsOK == \A h \in Host : DialOK(h)

\* A retried peer has a session that is up or being set up, or something is
\* under way that will set one up or report that there is none.
Armed(h) == \E t \in 1..MaxTimers : <<h, t>> \in armed
Fired(h) == checking[h] > 0 \/ connecting[h] > 0
Calling(h) == \E g \in Goroutine : caller[g] = CallOf("connect", h)
Told(h) == \E e \in Elems(outChannelEvents) : e.host = h
Live(h) == sessions[h].state \in {"HandshakingClient", "Established"}
Way(h) == Armed(h) \/ Fired(h) \/ Calling(h) \/ Telling(h) \/ Told(h) \/ Live(h)
OnTheWay == \A h \in Host : connectionRetries[h].tracked /\ ~cancelled => Way(h)

Wake == CancelOrder /\ NoPayload /\ DialsOK /\ OnTheWay

\* The fields of the handler's operations.
LEMMA OpFields ==
    ASSUME NEW o, NEW h, NEW k, NEW l
    PROVE  /\ S!Call(o, h, k, l).op = "call"
           /\ S!Call(o, h, k, l).arg.op = o /\ S!Call(o, h, k, l).arg.host = h
           /\ S!Emit(o, h).op = "emit"
           /\ S!Emit(o, h).arg.type = o /\ S!Emit(o, h).arg.host = h
BY DEF S!Call, S!RequestOf, S!Emit, S!EventOf

\* What the session layer's own invariant gives here, where every address is
\* one that may be dialled: sessions and reports are about the host itself.
LEMMA OwnNames ==
    ASSUME Composed, NEW h \in Host
    PROVE  /\ sessions[h].state = "HandshakingClient" => sessions[h].logical = h
           /\ S!mapToHost(h) = h
<1>1. P!ClientNamesPeer /\ P!DialNamesItself
  BY Zenon DEF Composed, P!Inductive, P!IInv
<1> QED BY Zenon, <1>1 DEF P!ClientNamesPeer, P!DialNamesItself, S!mapToHost

\* A state machine's move leaves the others alone.
LEMMA MoveFacts ==
    ASSUME Composed, NEW t \in Host, NEW r, sessions' = [sessions EXCEPT ![t] = r]
    PROVE  sessions'[t] = r /\ \A h \in Host : h # t => sessions'[h] = sessions[h]
<1>1. sessions \in [Host -> [state : S!State, logical : Host \cup {Nil}]]
  BY Zenon, ComposedParts DEF Parts, S!TypeOK, S!SessionTypeOK
<1> QED BY Zenon, <1>1

\* Connect: the session is up already, being set up, or set up now.
LEMMA ConnectEffect ==
    ASSUME Composed, DialsOK, NEW x \in Host, S!Connect(x)
    PROVE  /\ todo = <<>>
           /\ \A h \in Host : h # x => sessions'[h].state = sessions[h].state
           /\ \/ /\ todo' = <<>> /\ sessions'[x].state = sessions[x].state
                 /\ sessions[x].state \in {"HandshakingClient", "Established"}
              \/ /\ todo' = <<S!Call("connect", x, "app", Nil)>>
                 /\ sessions'[x].state = "HandshakingClient"
<1>1. todo = <<>> /\ S!handleClientConnectRequested(x)
  BY Zenon DEF S!Connect, S!Ready
<1>2. sessions[x].state \in S!State /\ sessions[x].state # "HandshakingServer"
  <2>1. sessions \in [Host -> [state : S!State, logical : Host \cup {Nil}]]
    BY Zenon, ComposedParts DEF Parts, S!TypeOK, S!SessionTypeOK
  <2>2. sessions[x].state \in S!State
    BY <2>1
  <2> QED BY Zenon, <2>2 DEF DialsOK, DialOK
<1>3. CASE /\ sessions' = [sessions EXCEPT
                  ![x] = [state |-> "HandshakingClient", logical |-> x]]
           /\ todo' = <<S!Call("connect", x, "app", Nil)>>
  <2>1. [state |-> "HandshakingClient", logical |-> x].state = "HandshakingClient"
    OBVIOUS
  <2> QED BY Zenon, <1>1, <1>3, <2>1, MoveFacts
<1>4. CASE /\ sessions[x].state \notin {"Idle", "Failed", "Closing"}
           /\ sessions' = [sessions EXCEPT ![x] = [state |-> @.state, logical |-> x]]
           /\ todo' = todo
  <2>1. [state |-> sessions[x].state, logical |-> x].state = sessions[x].state
    OBVIOUS
  <2>2. sessions[x].state \in {"HandshakingClient", "Established"}
    BY Zenon, <1>2, <1>4 DEF S!State
  <2> QED BY Zenon, <1>1, <1>4, <2>1, <2>2, MoveFacts
<1> QED BY Zenon, <1>1, <1>3, <1>4 DEF S!handleClientConnectRequested

\* MoveTo changes the state of one session.
LEMMA MoveToFacts ==
    ASSUME Composed, NEW t \in Host, NEW st, S!MoveTo(t, st)
    PROVE  /\ sessions'[t].state = st
           /\ \A h \in Host : h # t => sessions'[h].state = sessions[h].state
<1>1. [state |-> st, logical |-> sessions[t].logical].state = st
  OBVIOUS
<1> QED BY ZenonT(40), <1>1, MoveFacts DEF S!MoveTo

\* What taking the transport's next event, which is about t, does: the session
\* of t ends up established, failed or closing, and if it was up or being set
\* up and is not any more, that is going to be reported.
Effected(t) ==
    /\ sessions'[t].state \in {"Established", "Failed", "Closing"}
    /\ \A h \in Host : h # t => sessions'[h].state = sessions[h].state
    /\ \A x \in Elems(todo)' :
         (x.op = "emit" => Matching(x.arg)) /\ (x.op = "call" => x.arg.op # "connect")
    /\ sessions[t].state \in {"HandshakingClient", "Established"} =>
         sessions'[t].state = "Established" \/ Telling(t)'

LEMMA EventEffect ==
    ASSUME Composed, DialsOK, S!transportEventHandler
    PROVE  /\ todo = <<>> /\ outEvents # <<>> /\ outEvents' = Tail(outEvents)
           /\ Head(outEvents) \in S!Event /\ Head(outEvents).host \in Host
           /\ Effected(Head(outEvents).host)
<1>1. todo = <<>> /\ outEvents # <<>> /\ outEvents' = Tail(outEvents)
  BY Zenon DEF S!transportEventHandler, S!Ready
<1>2. PICK e \in S!Event : e = Head(outEvents) /\ e \in Elems(outEvents)
  <2>1. outEvents \in Seq(S!Event)
    BY Zenon, ComposedParts DEF Parts, S!TypeOK, S!LayerTypeOK
  <2>2. Head(outEvents) \in S!Event
    BY <1>1, <2>1
  <2> QED BY Zenon, <1>1, <2>1, <2>2, ElemsTail
<1> DEFINE t == e.host
           st == sessions[t].state
<1>3. t \in Host
  BY DEF S!Event
<1>4. /\ st = "HandshakingClient" => sessions[t].logical = t
      /\ S!mapToHost(t) = t /\ st # "HandshakingServer"
      /\ st = "Idle" => e.type # "Connected"
  BY Zenon, <1>2, <1>3, OwnNames DEF DialsOK, DialOK, HeardUp
<1> HIDE DEF t
<1>5. Elems(<<>>) = {} /\ \A x, y : Elems(<<x>>) = {x} /\ Elems(<<x, y>>) = {x, y}
  BY Zenon, ElemsShort
<1>6. \A ty : LET x == S!Emit(ty, t)
              IN  x.op = "emit" /\ x.op # "call" /\ x.arg.type = ty /\ x.arg.host = t
  BY OpFields
<1>7. LET x == S!Call("send", t, "hello", Self)
      IN  x.op = "call" /\ x.op # "emit" /\ x.arg.op # "connect"
  BY OpFields
<1> SUFFICES Effected(t)
  BY Zenon, <1>1, <1>2, <1>3 DEF t
<1>8. CASE S!handleConnected(t) /\ e.type = "Connected"
  <2>1. CASE /\ S!MoveTo(t, "Established")
             /\ todo' = <<S!Call("send", t, "hello", Self), S!Emit("SessionConnected", t)>>
    <3>1. Elems(todo') = {S!Call("send", t, "hello", Self), S!Emit("SessionConnected", t)}
      BY Zenon, <2>1, ElemsShort
    <3>2. \A x \in Elems(todo') :
            (x.op = "emit" => Matching(x.arg)) /\ (x.op = "call" => x.arg.op # "connect")
      BY Zenon, <1>6, <1>7, <3>1 DEF Matching
    <3> QED BY Zenon, <1>3, <2>1, <3>2, MoveToFacts DEF Effected
  <2>2. CASE st \in {"Established", "Failed", "Closing"} /\ UNCHANGED <<sessions, todo>>
    BY Zenon, <1>1, <1>5, <2>2 DEF Effected
  <2> QED BY Zenon, <1>4, <1>8, <2>1, <2>2 DEF S!handleConnected, S!maps
<1>9. ASSUME NEW ty \in {"SessionDisconnected", "SessionFailed"}, todo' = <<S!Emit(ty, t)>>
       PROVE  /\ Telling(t)'
              /\ \A x \in Elems(todo') :
                   (x.op = "emit" => Matching(x.arg)) /\ (x.op = "call" => x.arg.op # "connect")
  <2>1. Elems(todo') = {S!Emit(ty, t)}
    BY Zenon, <1>5, <1>9
  <2>2. Telling(t)'
    BY Zenon, <1>6, <2>1 DEF Telling
  <2> QED BY Zenon, <1>6, <2>1, <2>2 DEF Matching
<1>10. CASE S!handleDisconnected(t)
  <2>1. CASE S!MoveTo(t, "Closing") /\ todo' = <<S!Emit("SessionDisconnected", t)>>
    BY Zenon, <1>3, <1>9, <2>1, MoveToFacts DEF Effected
  <2>2. CASE st \in {"Idle", "Failed", "Closing"} /\ S!MoveTo(t, "Failed") /\ todo' = todo
    <3>1. st \notin {"HandshakingClient", "Established"}
      BY Zenon, <2>2
    <3> QED BY Zenon, <1>1, <1>3, <1>5, <2>2, <3>1, MoveToFacts DEF Effected
  <2> QED BY Zenon, <1>4, <1>10, <2>1, <2>2 DEF S!handleDisconnected
<1>11. CASE S!handleFailed(t)
  <2>1. S!MoveTo(t, "Failed") /\ todo' = <<S!Emit("SessionFailed", t)>>
    BY Zenon, <1>4, <1>11 DEF S!handleFailed
  <2> QED BY Zenon, <1>3, <1>9, <2>1, MoveToFacts DEF Effected
<1> QED BY Zenon, <1>2, <1>8, <1>10, <1>11 DEF S!transportEventHandler, t

\* EmitEvent hands the event to the runtime.
LEMMA EmitElems ==
    ASSUME Parts, S!EmitEvent
    PROVE  /\ Head(todo).op = "emit" /\ Head(todo).arg \in SessionEvent
           /\ Elems(outChannelEvents') = Elems(outChannelEvents) \cup {Head(todo).arg}
<1>1. /\ Head(todo).op = "emit" /\ todo # <<>>
      /\ outChannelEvents' = Append(outChannelEvents, Head(todo).arg)
  BY Zenon DEF S!EmitEvent, S!Doing
<1>2. Head(todo).arg \in SessionEvent
  BY Zenon, <1>1, TodoForm DEF Parts
<1>3. outChannelEvents \in Seq(SessionEvent)
  BY Zenon DEF Parts, TypeOK
<1>4. Elems(Append(outChannelEvents, Head(todo).arg))
        = Elems(outChannelEvents) \cup {Head(todo).arg}
  BY <1>2, <1>3, ElemsAppend
<1> QED BY Zenon, <1>1, <1>2, <1>4

\* What the dialling side of the invariant speaks of.
DialInv == CancelOrder /\ NoPayload /\ DialsOK

\* The runtime by itself: it reads session events, and its context is cancelled
\* for good.
LEMMA RuntimeDials ==
    ASSUME Composed, DialInv, Quiet \/ dispatchSessionEvent, Private
    PROVE  DialInv'
<1>1. cancelled \in BOOLEAN /\ outChannelEvents \in Seq(SessionEvent)
  BY Zenon DEF Composed, IInv, TypeOK
<1>2. cancelled => cancelled'
  <2>1. ASSUME NEW p \in Proto, ProtocolStep(p) PROVE UNCHANGED cancelled
    BY Zenon, <2>1 DEF ProtocolStep, Connect, ConnectWithRetry, Disconnect,
      deliverSessionEvent
  <2>2. ASSUME NEW h \in Host, TimerStep(h) \/ InitContact(h) \/ CallbackTaken(h)
        PROVE  UNCHANGED cancelled
    BY Zenon, <2>2 DEF TimerStep, Fire, CallbackChecks, InitContact, CallbackTaken
  <2>3. ASSUME NEW g \in Goroutine, CallTaken(g) PROVE UNCHANGED cancelled
    BY Zenon, <2>3 DEF CallTaken
  <2>4. CASE \/ startSessionEvents \/ fanoutSessionEvent \/ PumpReturns \/ Cancel
             \/ retryTeardown \/ dispatchSessionEvent
    BY Zenon, <2>4 DEF startSessionEvents, fanoutSessionEvent, PumpReturns, Cancel,
      retryTeardown, dispatchSessionEvent
  <2> QED BY Zenon, <2>1, <2>2, <2>3, <2>4 DEF Quiet
<1>3. \A e \in Elems(outChannelEvents') : e \in Elems(outChannelEvents)
  <2>1. CASE dispatchSessionEvent
    <3>1. outChannelEvents # <<>> /\ outChannelEvents' = Tail(outChannelEvents)
      BY Zenon, <2>1 DEF dispatchSessionEvent
    <3>2. Head(outChannelEvents) \in SessionEvent
      BY <1>1, <3>1
    <3> QED BY Zenon, <1>1, <3>1, <3>2, ElemsTail
  <2>2. CASE Quiet
    BY Zenon, <2>2, QuietFrame
  <2> QED BY Zenon, <2>1, <2>2
<1>4. /\ UNCHANGED <<outEvents, outChannel, request, transportDone, owed>>
      /\ UNCHANGED <<sessions, todo, sessionDone>>
  BY Zenon, PrivateFrame
<1>5. CancelOrder' /\ NoPayload'
  BY Zenon, <1>2, <1>3, <1>4 DEF DialInv, CancelOrder, NoPayload
<1>6. DialsOK'
  <2>1. \A h : (Dialled(h)' <=> Dialled(h)) /\ (Heard(h)' <=> Heard(h))
                /\ (HeardUp(h)' <=> HeardUp(h))
    BY Zenon, <1>4 DEF Dialled, Asked, Heard, HeardUp
  <2> QED BY Zenon, <1>1, <1>2, <1>4, <2>1 DEF DialInv, DialsOK, DialOK
<1> QED BY Zenon, <1>5, <1>6 DEF DialInv

\* A Connect, of a protocol, of Init or of a backoff timer, and a Disconnect.
LEMMA CallDials ==
    ASSUME Composed, DialInv, NEW x \in Host, S!Connect(x) \/ S!Disconnect(x),
           UNCHANGED <<owed, cancelled, outChannelEvents>>
    PROVE  DialInv'
<1>1. UNCHANGED <<outEvents, outChannel, request, transportDone, sessionDone>>
  BY Zenon DEF S!Connect, S!Disconnect, S!layerVars, S!UpUnchanged
<1>2. todo = <<>> /\ Elems(todo) = {}
  BY Zenon, ElemsShort DEF S!Connect, S!Disconnect, S!Ready
<1>3. \A h : ~Asked(h) /\ (Dialled(h) <=> owed /\ request.host = h)
  BY Zenon, <1>2 DEF Asked, Dialled
<1>4. \A h : /\ (Heard(h)' <=> Heard(h)) /\ (HeardUp(h)' <=> HeardUp(h))
             /\ (Dialled(h)' <=> Asked(h)' \/ Dialled(h))
  BY Zenon, <1>1, <1>3 DEF Heard, HeardUp, Dialled
<1>5. CancelOrder'
  BY Zenon, <1>1 DEF DialInv, CancelOrder
<1>6. ASSUME NEW c, todo' = <<c>>, c.op = "call"
      PROVE  NoPayload' /\ \A h : Asked(h)' <=> c.arg.op = "connect" /\ c.arg.host = h
  <2>1. Elems(todo') = {c} /\ c.op # "emit"
    BY Zenon, <1>6, ElemsShort
  <2> QED BY Zenon, <1>1, <1>6, <2>1 DEF DialInv, NoPayload, Asked
<1>7. CASE S!Connect(x)
  <2>1. \A h \in Host : h # x => sessions'[h].state = sessions[h].state
    BY Zenon, <1>7, ConnectEffect DEF DialInv
  <2>2. CASE todo' = <<>> /\ sessions'[x].state = sessions[x].state
    <3>1. \A h \in Host : sessions'[h].state = sessions[h].state
      BY Zenon, <2>1, <2>2
    <3>2. NoPayload' /\ \A h : ~Asked(h)'
      BY Zenon, <1>1, <1>2, <2>2 DEF DialInv, NoPayload, Asked
    <3> QED BY Zenon, <1>1, <1>4, <1>5, <3>1, <3>2 DEF DialInv, DialsOK, DialOK
  <2>3. CASE /\ todo' = <<S!Call("connect", x, "app", Nil)>>
             /\ sessions'[x].state = "HandshakingClient"
    <3>1. NoPayload' /\ \A h : (Asked(h)' => h = x) /\ Asked(x)'
      <4>1. LET c == S!Call("connect", x, "app", Nil)
            IN  c.op = "call" /\ c.arg.op = "connect" /\ c.arg.host = x
        BY SMTT(30), OpFields
      <4> QED BY Zenon, <1>6, <2>3, <4>1
    <3>2. DialOK(x)'
      BY Zenon, <1>4, <2>3, <3>1 DEF DialOK
    <3>3. ASSUME NEW h \in Host, h # x PROVE DialOK(h)'
      <4>1. DialOK(h) /\ ~Asked(h)' /\ sessions'[h].state = sessions[h].state
        BY Zenon, <2>1, <3>1, <3>3 DEF DialInv, DialsOK
      <4> QED BY Zenon, <1>1, <1>4, <4>1 DEF DialOK
    <3> QED BY Zenon, <1>5, <3>1, <3>2, <3>3 DEF DialInv, DialsOK
  <2> QED BY Zenon, <1>7, <2>2, <2>3, ConnectEffect DEF DialInv
<1>8. CASE S!Disconnect(x)
  <2>1. todo' = <<S!Call("disconnect", x, "app", Nil)>> /\ UNCHANGED sessions
    BY Zenon, <1>8 DEF S!Disconnect
  <2>2. NoPayload' /\ \A h : ~Asked(h)'
    <3>1. LET c == S!Call("disconnect", x, "app", Nil)
          IN  c.op = "call" /\ c.arg.op # "connect"
      BY SMTT(30), OpFields
    <3> QED BY Zenon, <1>6, <2>1, <3>1
  <2> QED BY Zenon, <1>1, <1>4, <1>5, <2>1, <2>2 DEF DialInv, DialsOK, DialOK
<1> QED BY Zenon, <1>7, <1>8

\* The session handler takes a transport event.
LEMMA EventDials ==
    ASSUME Composed, DialInv, S!transportEventHandler, UNCHANGED <<owed, cancelled>>
    PROVE  DialInv'
<1>1. UNCHANGED <<outChannel, request, transportDone, outChannelEvents, sessionDone>>
  BY Zenon DEF S!transportEventHandler, S!UpUnchanged, S!ups
<1>2. PICK t \in Host :
        /\ todo = <<>> /\ outEvents # <<>> /\ outEvents' = Tail(outEvents)
        /\ Head(outEvents) \in S!Event /\ t = Head(outEvents).host /\ Effected(t)
  BY Zenon, EventEffect DEF DialInv
<1>3. Elems(outEvents) = Elems(outEvents') \cup {Head(outEvents)}
  <2>1. outEvents \in Seq(S!Event)
    BY Zenon, ComposedParts DEF Parts, S!TypeOK, S!LayerTypeOK
  <2> QED BY Zenon, <1>2, <2>1, ElemsTail
<1>4. CancelOrder'
  BY Zenon, <1>1 DEF DialInv, CancelOrder
<1>5. NoPayload'
  BY Zenon, <1>1, <1>2 DEF DialInv, NoPayload, Effected
<1>6. \A h : ~Asked(h) /\ ~Asked(h)' /\ (Dialled(h)' <=> Dialled(h))
  <2>1. Elems(todo) = {}
    BY Zenon, <1>2, ElemsShort
  <2>2. \A h : ~Asked(h) /\ ~Asked(h)'
    BY Zenon, <1>2, <2>1 DEF Asked, Effected
  <2> QED BY Zenon, <1>1, <2>2 DEF Dialled
<1>7. DialOK(t)'
  BY Zenon, <1>2 DEF DialOK, Effected
<1>8. ASSUME NEW h \in Host, h # t PROVE DialOK(h)'
  <2>1. DialOK(h) /\ sessions'[h].state = sessions[h].state
    BY Zenon, <1>2, <1>8 DEF DialInv, DialsOK, Effected
  <2>2. Heard(h) => Heard(h)'
    BY Zenon, <1>2, <1>3, <1>8 DEF Heard
  <2>3. HeardUp(h)' => HeardUp(h)
    BY Zenon, <1>3 DEF HeardUp
  <2> QED BY Zenon, <1>6, <2>1, <2>2, <2>3 DEF DialOK
<1> QED BY Zenon, <1>4, <1>5, <1>7, <1>8 DEF DialInv, DialsOK

\* The handler performs the next of its operations: the call on the transport
\* becomes the request that is served, an event goes to the runtime.
LEMMA OperationDials ==
    ASSUME Composed, DialInv,
           S!TransportCall \/ S!EmitEvent \/ S!PushMessage \/ S!GiveUpOperation,
           owed' = IF request' = request THEN owed ELSE request'.op = "connect",
           UNCHANGED cancelled
    PROVE  DialInv'
<1>1. /\ UNCHANGED <<outEvents, outChannel, transportDone, sessionDone, sessions>>
      /\ todo # <<>> /\ todo' = Tail(todo)
  BY Zenon DEF S!TransportCall, S!EmitEvent, S!PushMessage, S!GiveUpOperation, S!Done,
    S!layerVars, S!UpUnchanged, S!maps, S!Doing
<1>2. Parts
  BY Zenon, ComposedParts
<1>3. Elems(todo) = Elems(todo') \cup {Head(todo)}
  <2>1. todo \in Seq(S!Effect)
    BY Zenon, <1>2 DEF Parts, S!TypeOK, S!SessionTypeOK
  <2>2. Head(todo) \in S!Effect
    BY <1>1, <2>1
  <2> QED BY Zenon, <1>1, <2>1, <2>2, ElemsTail
<1>4. CancelOrder'
  BY Zenon, <1>1 DEF DialInv, CancelOrder
<1>5. NoPayload'
  <2>1. outChannel' = <<>> /\ \A x \in Elems(todo') : x.op = "emit" => Matching(x.arg)
    BY Zenon, <1>1, <1>3 DEF DialInv, NoPayload
  <2>2. \A e \in Elems(outChannelEvents') : Matching(e)
    <3>1. CASE S!EmitEvent
      <4>1. /\ Head(todo).op = "emit"
            /\ Elems(outChannelEvents') = Elems(outChannelEvents) \cup {Head(todo).arg}
        BY Zenon, <1>2, <3>1, EmitElems
      <4>2. Matching(Head(todo).arg)
        BY Zenon, <1>3, <4>1 DEF DialInv, NoPayload
      <4> QED BY Zenon, <4>1, <4>2 DEF DialInv, NoPayload
    <3>2. CASE S!TransportCall \/ S!PushMessage \/ S!GiveUpOperation
      <4>1. UNCHANGED outChannelEvents
        BY Zenon, <3>2 DEF S!TransportCall, S!PushMessage, S!GiveUpOperation, S!ups,
          S!UpUnchanged
      <4> QED BY Zenon, <4>1 DEF DialInv, NoPayload
    <3> QED BY Zenon, <3>1, <3>2
  <2> QED BY Zenon, <2>1, <2>2 DEF NoPayload
<1>6. \A h : (Heard(h)' <=> Heard(h)) /\ (HeardUp(h)' <=> HeardUp(h))
  BY Zenon, <1>1 DEF Heard, HeardUp
<1>7. ASSUME NEW h PROVE (Dialled(h)' => Dialled(h)) /\ (Dialled(h) /\ ~cancelled => Dialled(h)')
  <2>1. CASE S!TransportCall
    <3>1. request = Nil /\ request' = Head(todo).arg /\ Head(todo).op = "call" /\ ~owed
      BY Zenon, <1>2, <2>1 DEF S!TransportCall, S!Doing, Parts, OwedForm
    <3>2. request' # request
      BY Zenon, <1>1, <1>2, <3>1, TodoForm, StackAssumption DEF Parts
    <3>3. owed' <=> Head(todo).arg.op = "connect"
      BY Zenon, <3>1, <3>2
    <3>4. Asked(h) <=> Asked(h)' \/ (Head(todo).arg.op = "connect" /\ Head(todo).arg.host = h)
      BY Zenon, <1>3, <3>1 DEF Asked
    <3> QED BY Zenon, <3>1, <3>3, <3>4 DEF Dialled
  <2>2. CASE S!EmitEvent \/ S!PushMessage
    <3>1. Head(todo).op # "call" /\ UNCHANGED request
      BY Zenon, <2>2 DEF S!EmitEvent, S!PushMessage, S!Doing, S!layerVars
    <3>2. Asked(h) <=> Asked(h)'
      BY Zenon, <1>3, <3>1 DEF Asked
    <3> QED BY Zenon, <3>1, <3>2 DEF Dialled
  <2>3. CASE S!GiveUpOperation
    <3>1. UNCHANGED request /\ (sessionDone \/ transportDone)
      BY Zenon, <2>3 DEF S!GiveUpOperation, S!layerVars
    <3>2. cancelled
      BY Zenon, <3>1 DEF DialInv, CancelOrder
    <3>3. Asked(h)' => Asked(h)
      BY Zenon, <1>3 DEF Asked
    <3> QED BY Zenon, <3>1, <3>2, <3>3 DEF Dialled
  <2> QED BY Zenon, <2>1, <2>2, <2>3
<1>8. DialsOK'
  BY Zenon, <1>1, <1>6, <1>7 DEF DialInv, DialsOK, DialOK
<1> QED BY Zenon, <1>4, <1>5, <1>8 DEF DialInv

\* The transport reports the end of a dial, a loss or a failed write, or is done
\* with a call; the layers' contexts are cancelled.
LEMMA TransportDials ==
    ASSUME Composed, DialInv,
           TransportStep \/ PeerLost \/ CancelSession \/ CancelTransport
    PROVE  DialInv'
<1>1. UNCHANGED <<outChannel, outChannelEvents, todo, sessions, cancelled>>
  BY Zenon DEF TransportStep, PeerLost, CancelSession, CancelTransport, T!Answer, T!Serve,
    T!Notice, T!Report, S!Cancel, S!TransportCancel, S!layerVars, S!sessionVars, S!maps,
    S!ups, vars, sessionPart, runtimePart
<1>2. CancelOrder'
  <2>1. CASE TransportStep \/ PeerLost
    <3>1. UNCHANGED <<sessionDone, transportDone>>
      BY Zenon, <2>1 DEF TransportStep, PeerLost, T!Answer, T!Serve, T!Notice, T!Report,
        sessionPart
    <3> QED BY Zenon, <1>1, <3>1 DEF DialInv, CancelOrder
  <2>2. CASE CancelSession \/ CancelTransport
    <3>1. cancelled
      BY Zenon, <2>2 DEF CancelSession, CancelTransport, DialInv, CancelOrder
    <3> QED BY Zenon, <1>1, <3>1 DEF CancelOrder
  <2> QED BY Zenon, <2>1, <2>2
<1>3. NoPayload' /\ \A h : Asked(h)' <=> Asked(h)
  BY Zenon, <1>1 DEF DialInv, NoPayload, Asked
<1>4. ASSUME NEW h \in Host,
             /\ HeardUp(h)' => HeardUp(h) \/ Dialled(h)
             /\ Heard(h) => Heard(h)'
             /\ Dialled(h)' => Dialled(h)
             /\ Dialled(h) => Dialled(h)' \/ Heard(h)'
      PROVE  DialOK(h)'
  BY Zenon, <1>1, <1>4 DEF DialInv, DialsOK, DialOK
<1>5. ASSUME NEW e \in S!Event, T!Report(e)
      PROVE  /\ UNCHANGED request
             /\ \A h : Heard(h)' <=> Heard(h) \/ e.host = h
             /\ \A h : HeardUp(h)' <=> HeardUp(h) \/ (e.type = "Connected" /\ e.host = h)
  <2>1. outEvents \in Seq(S!Event)
    BY Zenon, ComposedParts DEF Parts, S!TypeOK, S!LayerTypeOK
  <2>2. Elems(Append(outEvents, e)) = Elems(outEvents) \cup {e}
    BY <2>1, ElemsAppend
  <2>3. outEvents' = Append(outEvents, e) /\ UNCHANGED request
    BY Zenon, <1>5 DEF T!Report
  <2>4. Elems(outEvents') = Elems(outEvents) \cup {e}
    BY Zenon, <2>2, <2>3
  <2> QED BY Zenon, <2>3, <2>4 DEF Heard, HeardUp
<1>6. CASE T!Answer
  <2>1. PICK e \in S!Event : e.host = request.host /\ T!Report(e)
    <3>1. PICK ty \in {"Connected", "Failed"} : T!Report(T!EventOf(ty, request.host))
      BY Zenon, <1>6 DEF T!Answer
    <3>2. request \in S!Request
      BY Zenon, <1>6, ComposedParts DEF T!Answer, Parts, OwedForm, S!TypeOK, S!LayerTypeOK
    <3>3. request.host \in Host
      BY <3>2 DEF S!Request
    <3>4. T!EventOf(ty, request.host) \in S!Event
          /\ T!EventOf(ty, request.host).host = request.host
      BY <3>3 DEF T!EventOf, S!Event
    <3> QED BY Zenon, <3>1, <3>4
  <2>2. owed /\ ~owed'
    BY Zenon, <1>6 DEF T!Answer
  <2> QED BY Zenon, <1>2, <1>3, <1>4, <1>5, <2>1, <2>2 DEF DialInv, DialsOK, Dialled
<1>7. CASE T!Notice
  <2>1. PICK e \in S!Event : e.type # "Connected" /\ T!Report(e)
    BY Zenon, <1>7 DEF T!Notice, T!Event, S!Event
  <2>2. UNCHANGED owed
    BY Zenon, <1>7 DEF T!Notice
  <2> QED BY Zenon, <1>2, <1>3, <1>4, <1>5, <2>1, <2>2 DEF DialInv, DialsOK, Dialled
<1>8. CASE T!Serve
  <2>1. ~owed /\ UNCHANGED <<owed, outEvents>>
    BY Zenon, <1>8 DEF T!Serve
  <2>2. \A h : (Dialled(h)' <=> Dialled(h)) /\ (Heard(h)' <=> Heard(h))
               /\ (HeardUp(h)' <=> HeardUp(h))
    BY Zenon, <1>3, <2>1 DEF Dialled, Heard, HeardUp
  <2> QED BY Zenon, <1>2, <1>3, <1>4, <2>2 DEF DialInv, DialsOK
<1>9. CASE CancelSession \/ CancelTransport
  <2>1. UNCHANGED <<owed, outEvents, request>>
    BY Zenon, <1>9 DEF CancelSession, CancelTransport, S!Cancel, S!TransportCancel, S!layerVars
  <2>2. \A h : (Dialled(h)' <=> Dialled(h)) /\ (Heard(h)' <=> Heard(h))
               /\ (HeardUp(h)' <=> HeardUp(h))
    BY Zenon, <1>3, <2>1 DEF Dialled, Heard, HeardUp
  <2> QED BY Zenon, <1>2, <1>3, <1>4, <2>2 DEF DialInv, DialsOK
<1> QED BY Zenon, <1>6, <1>7, <1>8, <1>9 DEF TransportStep, PeerLost

\* Every step keeps the dialling side of the invariant.
LEMMA DialStep == ASSUME Composed, DialInv, Parties PROVE DialInv'
<1>1. ASSUME NEW g \in Goroutine, SessionCallTaken(g) PROVE DialInv'
  <2>1. caller[g] \in SessionCall
    BY Zenon DEF Composed, IInv, TypeOK
  <2>2. caller[g].op \in {"connect", "disconnect"} => caller[g].host \in Host
    BY <2>1 DEF SessionCall, NoCall
  <2>3. UNCHANGED <<owed, cancelled, outChannelEvents>>
    BY Zenon, <1>1 DEF SessionCallTaken, CallTaken
  <2> QED BY Zenon, <1>1, <2>2, <2>3, CallDials DEF SessionCallTaken
<1>2. ASSUME NEW h \in Host, BackoffCallTaken(h) PROVE DialInv'
  <2>1. UNCHANGED <<owed, cancelled, outChannelEvents>>
    BY Zenon, <1>2 DEF BackoffCallTaken, CallbackTaken
  <2> QED BY Zenon, <1>2, <2>1, CallDials DEF BackoffCallTaken
<1>3. CASE HandlerStep
  <2>1. /\ UNCHANGED cancelled
        /\ owed' = IF request' = request THEN owed ELSE request'.op = "connect"
    BY Zenon, <1>3 DEF HandlerStep, runtimePart
  <2>2. CASE S!transportEventHandler
    <3>1. UNCHANGED owed
      BY Zenon, <2>1, <2>2 DEF S!transportEventHandler
    <3> QED BY Zenon, <2>1, <2>2, <3>1, EventDials
  <2>3. CASE S!transportMessageHandler
    BY Zenon, <2>3 DEF S!transportMessageHandler, DialInv, NoPayload
  <2>4. CASE S!HandlerReturns
    <3>1. /\ UNCHANGED <<outEvents, outChannel, transportDone, sessionDone, sessions>>
          /\ UNCHANGED <<request, todo, outChannelEvents>>
      BY Zenon, <2>4 DEF S!HandlerReturns, S!layerVars, S!maps, S!ups
    <3>2. UNCHANGED owed
      BY Zenon, <2>1, <3>1
    <3>3. \A h : (Dialled(h)' <=> Dialled(h)) /\ (Heard(h)' <=> Heard(h))
                 /\ (HeardUp(h)' <=> HeardUp(h))
      BY Zenon, <3>1, <3>2 DEF Dialled, Asked, Heard, HeardUp
    <3>4. DialsOK'
      BY Zenon, <2>1, <3>1, <3>3 DEF DialInv, DialsOK, DialOK
    <3> QED BY Zenon, <2>1, <3>1, <3>4 DEF DialInv, CancelOrder, NoPayload
  <2>5. CASE S!TransportCall \/ S!EmitEvent \/ S!PushMessage \/ S!GiveUpOperation
    BY Zenon, <2>1, <2>5, OperationDials
  <2> QED BY Zenon, <1>3, <2>2, <2>3, <2>4, <2>5 DEF HandlerStep, S!Handler
<1> QED BY Zenon, <1>1, <1>2, <1>3, RuntimeDials, TransportDials DEF Parties

-----------------------------------------------------------------------------
(* The retried peers.                                                      *)

\* Stopping or replacing the timer of one peer leaves the other peers alone.
LEMMA OtherTimers ==
    ASSUME Composed, NEW x \in Host, NEW h \in Host, h # x, NEW new,
           connectionRetries' = [connectionRetries EXCEPT ![x] = new],
           (armed \ {Timer(x)}) \subseteq armed'
    PROVE  connectionRetries'[h] = connectionRetries[h] /\ (Armed(h) => Armed(h)')
<1>1. connectionRetries'[h] = connectionRetries[h]
  BY Zenon DEF Composed, IInv, TypeOK
<1>2. ASSUME NEW t PROVE <<h, t>> # Timer(x)
  BY DEF Timer
<1> QED BY Zenon, <1>1, <1>2 DEF Armed

\* stopRetryFor leaves its peer untracked.
LEMMA StopWay ==
    ASSUME Composed, NEW x \in Host, stopRetryFor(x)
    PROVE  /\ ~connectionRetries'[x].tracked
           /\ \A h \in Host : h # x =>
                connectionRetries'[h] = connectionRetries[h] /\ (Armed(h) => Armed(h)')
<1>1. connectionRetries' = [connectionRetries EXCEPT ![x] = Untracked]
      /\ armed' = armed \ {Timer(x)}
  BY Zenon DEF stopRetryFor
<1>2. ~Untracked.tracked
  BY DEF Untracked
<1>3. connectionRetries'[x] = Untracked
  BY Zenon, <1>1 DEF Composed, IInv, TypeOK
<1>4. (armed \ {Timer(x)}) \subseteq armed'
  BY Zenon, <1>1
<1>5. ASSUME NEW h \in Host, h # x
      PROVE  connectionRetries'[h] = connectionRetries[h] /\ (Armed(h) => Armed(h)')
  BY Zenon, <1>1, <1>4, <1>5, OtherTimers
<1> QED BY Zenon, <1>2, <1>3, <1>5

\* A goroutine that was in no call enters one.
LEMMA EnterCall ==
    ASSUME Composed, NEW g \in Goroutine, Idle(g), NEW c, caller' = [caller EXCEPT ![g] = c]
    PROVE  /\ \A h : Calling(h) => Calling(h)'
           /\ \A h : c = CallOf("connect", h) => Calling(h)'
<1>1. caller \in [Goroutine -> SessionCall]
  BY Zenon DEF Composed, IInv, TypeOK
<1>2. \A h : CallOf("connect", h) # NoCall
  BY Zenon DEF CallOf, NoCall
<1>3. \A k \in Goroutine : caller'[k] = IF k = g THEN c ELSE caller[k]
  BY Zenon, <1>1
<1>4. ASSUME NEW h, Calling(h) PROVE Calling(h)'
  <2>1. PICK k \in Goroutine : caller[k] = CallOf("connect", h)
    BY Zenon, <1>4 DEF Calling
  <2>2. k # g
    BY Zenon, <1>2, <2>1 DEF Idle
  <2> QED BY Zenon, <1>3, <2>1, <2>2 DEF Calling
<1>5. ASSUME NEW h, c = CallOf("connect", h) PROVE Calling(h)'
  BY Zenon, <1>3, <1>5 DEF Calling
<1> QED BY Zenon, <1>4, <1>5

\* ConnectWithRetry: the peer is retried already, or its first attempt is made.
LEMMA TrackWay ==
    ASSUME Composed, NEW g \in Goroutine, NEW x \in Host, connectWithRetry(g, x)
    PROVE  /\ \A h : Armed(h) => Armed(h)'
           /\ \A h : Calling(h) => Calling(h)'
           /\ \A h \in Host : connectionRetries'[h].tracked /\ ~cancelled =>
                connectionRetries[h].tracked \/ Calling(h)'
<1>1. CASE UNCHANGED <<table, caller>>
  BY Zenon, <1>1 DEF table, Armed, Calling
<1>2. CASE track(x) /\ connect(g, x)
  <2>1. UNCHANGED armed /\ connectionRetries' = [connectionRetries EXCEPT ![x] = Tracked(0, 0)]
    BY Zenon, <1>2 DEF track
  <2>2. \A h \in Host : h # x => connectionRetries'[h] = connectionRetries[h]
    BY Zenon, <2>1 DEF Composed, IInv, TypeOK
  <2>3. CASE cancelled
    <3>1. UNCHANGED caller
      BY Zenon, <1>2, <2>3 DEF connect
    <3> QED BY Zenon, <2>1, <2>3, <3>1 DEF Armed, Calling
  <2>4. CASE ~cancelled
    <3>1. Idle(g) /\ caller' = [caller EXCEPT ![g] = CallOf("connect", x)]
      BY Zenon, <1>2, <2>4 DEF connect, connectWithRetry
    <3>2. Calling(x)' /\ \A h : Calling(h) => Calling(h)'
      BY Zenon, <3>1, EnterCall
    <3> QED BY Zenon, <2>1, <2>2, <3>2 DEF Armed
  <2> QED BY Zenon, <2>3, <2>4
<1> QED BY Zenon, <1>1, <1>2 DEF connectWithRetry

\* A fired timer looks at the table, and goes on to connect.
LEMMA TimerWay ==
    ASSUME Composed, NEW x \in Host, TimerStep(x), NEW h \in Host,
           connectionRetries[h].tracked, ~cancelled, Armed(h) \/ Fired(h)
    PROVE  Armed(h)' \/ Fired(h)'
<1>1. /\ checking \in [Host -> 0..MaxCallbacks] /\ connecting \in [Host -> 0..MaxCallbacks]
  BY Zenon DEF Composed, IInv, TypeOK
<1>2. CASE Fire(x)
  <2>1. PICK t \in 1..MaxTimers : armed' = armed \ {<<x, t>>}
    BY Zenon, <1>2 DEF Fire
  <2>2. checking' = [checking EXCEPT ![x] = @ + 1] /\ UNCHANGED connecting
    BY Zenon, <1>2 DEF Fire
  <2>3. CASE h = x
    <3>1. checking'[x] > 0
      BY <1>1, <2>2, RetryAssumption
    <3> QED BY Zenon, <2>3, <3>1 DEF Fired
  <2>4. CASE h # x
    <3>1. checking'[h] = checking[h]
      BY Zenon, <1>1, <2>2, <2>4
    <3>2. \A u : <<h, u>> # <<x, t>>
      BY Zenon, <2>4
    <3> QED BY Zenon, <2>1, <2>2, <3>1, <3>2 DEF Armed, Fired
  <2> QED BY Zenon, <2>3, <2>4
<1>3. CASE CallbackChecks(x)
  <2>1. UNCHANGED armed /\ checking' = [checking EXCEPT ![x] = @ - 1]
        /\ connecting' = IF connectionRetries[x].tracked /\ ~cancelled
                         THEN [connecting EXCEPT ![x] = @ + 1] ELSE connecting
    BY Zenon, <1>3 DEF CallbackChecks, table
  <2>2. CASE h = x
    <3>1. connecting' = [connecting EXCEPT ![x] = @ + 1]
      BY Zenon, <2>1, <2>2
    <3>2. connecting'[x] > 0
      BY <1>1, <3>1, RetryAssumption
    <3> QED BY Zenon, <2>2, <3>2 DEF Fired
  <2>3. CASE h # x
    <3>1. checking'[h] = checking[h] /\ connecting'[h] = connecting[h]
      BY Zenon, <1>1, <2>1, <2>3
    <3> QED BY Zenon, <2>1, <3>1 DEF Armed, Fired
  <2> QED BY Zenon, <2>2, <2>3
<1> QED BY Zenon, <1>2, <1>3 DEF TimerStep

\* What the runtime has under way for h.
Inner(h) == Armed(h) \/ Fired(h) \/ Calling(h)

\* The runtime by itself.
LEMMA QuietWay ==
    ASSUME Composed, CancelOrder, Quiet, NEW h \in Host,
           connectionRetries'[h].tracked, ~cancelled'
    PROVE  ~cancelled /\ ((connectionRetries[h].tracked /\ (Inner(h) => Inner(h)')) \/ Inner(h)')
<1> DEFINE Goal == (connectionRetries[h].tracked /\ (Inner(h) => Inner(h)')) \/ Inner(h)'
<1>1. ASSUME UNCHANGED <<connectionRetries, armed, checking, connecting, caller>>
      PROVE  Goal
  BY Zenon, <1>1 DEF Inner, Armed, Fired, Calling
<1>2. ASSUME NEW g \in Goroutine, NEW x \in Host, connectWithRetry(g, x), UNCHANGED callbacks,
             ~cancelled
      PROVE  Goal
  <2>1. Fired(h)' <=> Fired(h)
    BY Zenon, <1>2 DEF callbacks, Fired
  <2> QED BY Zenon, <1>2, <2>1, TrackWay DEF Inner
<1>3. ASSUME NEW p \in Proto, ProtocolStep(p) PROVE ~cancelled /\ Goal
  <2>0. p \in Goroutine /\ Dial \subseteq Host /\ Track \subseteq Host /\ Hang \subseteq Host
    BY Zenon, RetryAssumption DEF Goroutine
  <2>1. ~cancelled
    BY Zenon, <1>3 DEF ProtocolStep, Connect, ConnectWithRetry, Disconnect, deliverSessionEvent
  <2>2. ASSUME NEW x \in Host, Connect(p, x) PROVE Goal
    <3>1. /\ Idle(p) /\ caller' = [caller EXCEPT ![p] = CallOf("connect", x)]
          /\ UNCHANGED <<connectionRetries, armed, checking, connecting>>
      BY Zenon, <2>1, <2>2 DEF Connect, connect, table, callbacks
    <3>2. Calling(h) => Calling(h)'
      BY Zenon, <2>0, <3>1, EnterCall
    <3> QED BY Zenon, <3>1, <3>2 DEF Inner, Armed, Fired
  <2>3. ASSUME NEW x \in Host, ConnectWithRetry(p, x) PROVE Goal
    BY Zenon, <1>2, <2>0, <2>1, <2>3 DEF ConnectWithRetry
  <2>4. ASSUME NEW x \in Host, Disconnect(p, x) PROVE Goal
    <3>1. /\ Idle(p) /\ caller' = [caller EXCEPT ![p] = CallOf("disconnect", x)]
          /\ UNCHANGED <<checking, connecting>> /\ stopRetryFor(x)
      BY Zenon, <2>1, <2>4 DEF Disconnect, callbacks
    <3>2. Calling(h) => Calling(h)'
      BY Zenon, <2>0, <3>1, EnterCall
    <3>3. connectionRetries'[h] = connectionRetries[h] /\ (Armed(h) => Armed(h)')
      BY Zenon, <3>1, StopWay
    <3> QED BY Zenon, <3>1, <3>2, <3>3 DEF Inner, Fired
  <2>5. CASE deliverSessionEvent(p)
    BY Zenon, <1>1, <2>1, <2>5 DEF deliverSessionEvent, table, callbacks
  <2> QED BY Zenon, <1>3, <2>0, <2>1, <2>2, <2>3, <2>4, <2>5 DEF ProtocolStep
<1>4. ASSUME NEW x \in Host, TimerStep(x) PROVE ~cancelled /\ Goal
  <2>1. UNCHANGED <<cancelled, connectionRetries, caller>>
    BY Zenon, <1>4 DEF TimerStep, Fire, CallbackChecks, table
  <2> QED BY Zenon, <1>4, <2>1, TimerWay DEF Inner, Calling
<1>5. ASSUME NEW x \in Host, InitContact(x) PROVE ~cancelled /\ Goal
  <2>1. Main \in Goroutine /\ ~cancelled
    BY Zenon, <1>5 DEF InitContact, Goroutine
  <2> QED BY Zenon, <1>2, <1>5, <2>1 DEF InitContact
<1>6. ASSUME \/ \E x \in Host : sessionDone /\ CallbackTaken(x)
             \/ \E g \in Goroutine : sessionDone /\ CallTaken(g)
      PROVE  FALSE
  BY Zenon, <1>6 DEF CallbackTaken, CallTaken, CancelOrder
<1>7. ASSUME startSessionEvents \/ fanoutSessionEvent PROVE ~cancelled /\ Goal
  <2>1. UNCHANGED <<connectionRetries, armed, checking, connecting, caller, cancelled>>
    BY Zenon, <1>7 DEF startSessionEvents, fanoutSessionEvent, table, callbacks
  <2> QED BY Zenon, <1>1, <2>1
<1>8. ASSUME PumpReturns \/ Cancel \/ retryTeardown PROVE FALSE
  <2>1. CASE PumpReturns \/ retryTeardown
    <3>1. cancelled /\ cancelled' = cancelled
      BY Zenon, <2>1 DEF PumpReturns, retryTeardown
    <3> QED BY Zenon, <3>1
  <2>2. CASE Cancel
    BY Zenon, <2>2 DEF Cancel
  <2> QED BY Zenon, <1>8, <2>1, <2>2
<1> QED BY Zenon, <1>3, <1>4, <1>5, <1>6, <1>7, <1>8 DEF Quiet

\* The pump: the peer of the event it takes is no longer retried or has a timer.
LEMMA PumpWay ==
    ASSUME Composed, NoPayload, dispatchSessionEvent, NEW h \in Host,
           connectionRetries'[h].tracked
    PROVE  \/ Armed(h)'
           \/ /\ connectionRetries[h].tracked /\ (Armed(h) => Armed(h)')
              /\ Told(h) => Told(h)'
<1>1. /\ outChannelEvents \in Seq(SessionEvent) /\ outChannelEvents # <<>>
      /\ outChannelEvents' = Tail(outChannelEvents)
      /\ connectionRetries \in [Host -> RetryState]
  BY Zenon DEF dispatchSessionEvent, Composed, IInv, TypeOK
<1>2. PICK e \in SessionEvent : e = Head(outChannelEvents)
  BY <1>1
<1>3. Elems(outChannelEvents) = Elems(outChannelEvents') \cup {e}
  BY Zenon, <1>1, <1>2, ElemsTail
<1>4. Matching(e)
  BY Zenon, <1>3 DEF NoPayload
<1>5. PICK x \in Host : x = e.host
  BY DEF SessionEvent
<1>6. h # x => (Told(h) => Told(h)')
  BY Zenon, <1>3, <1>5 DEF Told
<1>7. CASE stopRetryFor(x)
  <2>1. h # x
    BY Zenon, <1>7, StopWay
  <2>2. connectionRetries'[h] = connectionRetries[h] /\ (Armed(h) => Armed(h)')
    BY Zenon, <1>7, <2>1, StopWay
  <2> QED BY Zenon, <1>6, <2>1, <2>2
<1>8. CASE reschedule(x)
  <2>1. PICK t \in 1..MaxTimers :
          /\ connectionRetries' = [connectionRetries EXCEPT ![x] = Tracked(NextAttempt(x), t)]
          /\ armed' = (armed \ {Timer(x)}) \cup {<<x, t>>}
    BY Zenon, <1>8 DEF reschedule
  <2>2. CASE h = x
    BY Zenon, <2>1, <2>2 DEF Armed
  <2>3. CASE h # x
    <3>1. (armed \ {Timer(x)}) \subseteq armed'
      BY Zenon, <2>1
    <3>2. connectionRetries'[h] = connectionRetries[h] /\ (Armed(h) => Armed(h)')
      BY Zenon, <2>1, <2>3, <3>1, OtherTimers
    <3> QED BY Zenon, <1>6, <2>3, <3>2
  <2> QED BY Zenon, <2>2, <2>3
<1>9. CASE ~connectionRetries[x].tracked /\ UNCHANGED table
  <2>1. connectionRetries' = connectionRetries /\ armed' = armed
    BY Zenon, <1>9 DEF table
  <2>2. h # x
    BY Zenon, <1>9, <2>1
  <2> QED BY Zenon, <1>6, <2>1, <2>2 DEF Armed
<1> QED BY Zenon, <1>2, <1>4, <1>5, <1>7, <1>8, <1>9 DEF dispatchSessionEvent, onSessionUp,
  onSessionDown, Matching

\* The runtime by itself and the pump.
LEMMA RuntimeWay ==
    ASSUME Composed, Wake, Quiet \/ dispatchSessionEvent, Private
    PROVE  OnTheWay'
<1>1. CancelOrder /\ NoPayload /\ OnTheWay
  BY Zenon DEF Wake
<1>2. \A h : (Telling(h)' <=> Telling(h)) /\ (Live(h)' <=> Live(h))
  BY Zenon, PrivateFrame DEF Telling, Live
<1> SUFFICES ASSUME NEW h \in Host, connectionRetries'[h].tracked, ~cancelled'
             PROVE  Way(h)'
  BY Zenon DEF OnTheWay
<1>3. ASSUME Quiet PROVE Way(h)'
  <2>1. ~cancelled /\ ((connectionRetries[h].tracked /\ (Inner(h) => Inner(h)')) \/ Inner(h)')
    BY Zenon, <1>1, <1>3, QuietWay
  <2>2. Told(h)' <=> Told(h)
    BY Zenon, <1>3, QuietFrame DEF Told
  <2> QED BY Zenon, <1>1, <1>2, <2>1, <2>2 DEF OnTheWay, Way, Inner
<1>4. ASSUME dispatchSessionEvent PROVE Way(h)'
  <2>1. ~cancelled /\ (Fired(h)' <=> Fired(h)) /\ (Calling(h)' <=> Calling(h))
    BY Zenon, <1>4 DEF dispatchSessionEvent, callbacks, Fired, Calling
  <2>2. \/ Armed(h)'
        \/ /\ connectionRetries[h].tracked /\ (Armed(h) => Armed(h)')
           /\ Told(h) => Told(h)'
    BY Zenon, <1>1, <1>4, PumpWay
  <2> QED BY Zenon, <1>1, <1>2, <2>1, <2>2 DEF OnTheWay, Way
<1> QED BY Zenon, <1>3, <1>4

\* Connect leaves the session up or being set up, and takes none down.
LEMMA ConnectWay ==
    ASSUME Composed, DialsOK, NEW x \in Host, S!Connect(x)
    PROVE  /\ Live(x)' /\ \A h \in Host : Live(h) => Live(h)'
           /\ \A h : ~Telling(h)
<1>1. todo = <<>> /\ \A h \in Host : h # x => sessions'[h].state = sessions[h].state
  BY Zenon, ConnectEffect
<1>2. sessions'[x].state \in {"HandshakingClient", "Established"}
  BY Zenon, ConnectEffect
<1>3. Elems(todo) = {}
  BY Zenon, <1>1, ElemsShort
<1>4. \A h : ~Telling(h)
  BY Zenon, <1>3 DEF Telling
<1>5. Live(x)' /\ \A h \in Host : h # x /\ Live(h) => Live(h)'
  BY Zenon, <1>1, <1>2 DEF Live
<1> QED BY Zenon, <1>4, <1>5

\* A call that the session handler takes.
LEMMA CallWay ==
    ASSUME Composed, Wake, NEW g \in Goroutine, SessionCallTaken(g)
    PROVE  OnTheWay'
<1>1. DialsOK /\ OnTheWay
  BY Zenon DEF Wake
<1>2. caller \in [Goroutine -> SessionCall]
  BY Zenon DEF Composed, IInv, TypeOK
<1>3. /\ caller' = [caller EXCEPT ![g] = NoCall]
      /\ UNCHANGED <<connectionRetries, armed, checking, connecting, outChannelEvents, cancelled>>
  BY Zenon DEF SessionCallTaken, CallTaken, table, callbacks
<1>4. \A h : /\ (Armed(h)' <=> Armed(h)) /\ (Fired(h)' <=> Fired(h)) /\ (Told(h)' <=> Told(h))
  BY Zenon, <1>3 DEF Armed, Fired, Told
<1>5. \A h : Calling(h) => Calling(h)' \/ caller[g] = CallOf("connect", h)
  BY Zenon, <1>2, <1>3 DEF Calling
<1>6. ASSUME caller[g].op = "connect", S!Connect(caller[g].host) PROVE OnTheWay'
  <2>1. PICK x \in Host : x = caller[g].host
    <3>1. caller[g] \in SessionCall
      BY Zenon, <1>2
    <3> QED BY <1>6, <3>1 DEF SessionCall, NoCall
  <2>2. \A h : CallOf("connect", h).host = h
    BY DEF CallOf
  <2>3. /\ Live(x)' /\ \A h \in Host : Live(h) => Live(h)'
        /\ \A h : ~Telling(h)
    BY Zenon, <1>1, <1>6, <2>1, ConnectWay
  <2>4. \A h : Calling(h) => Calling(h)' \/ h = x
    BY Zenon, <1>5, <2>1, <2>2
  <2> QED BY Zenon, <1>1, <1>3, <1>4, <2>3, <2>4 DEF OnTheWay, Way
<1>7. ASSUME caller[g].op = "disconnect", S!Disconnect(caller[g].host) PROVE OnTheWay'
  <2>1. todo = <<>> /\ UNCHANGED sessions
    BY Zenon, <1>7 DEF S!Disconnect, S!Ready
  <2>2. Elems(todo) = {}
    BY Zenon, <2>1, ElemsShort
  <2>3. \A h : ~Telling(h) /\ (Live(h)' <=> Live(h))
    BY Zenon, <2>1, <2>2 DEF Telling, Live
  <2>4. \A h : caller[g] # CallOf("connect", h)
    BY <1>7 DEF CallOf
  <2> QED BY Zenon, <1>1, <1>3, <1>4, <1>5, <2>3, <2>4 DEF OnTheWay, Way
<1> QED BY Zenon, <1>6, <1>7 DEF SessionCallTaken

\* A backoff timer's connect that the session handler takes.
LEMMA BackoffWay ==
    ASSUME Composed, Wake, NEW x \in Host, BackoffCallTaken(x)
    PROVE  OnTheWay'
<1>1. DialsOK /\ OnTheWay
  BY Zenon DEF Wake
<1>2. connecting \in [Host -> 0..MaxCallbacks]
  BY Zenon DEF Composed, IInv, TypeOK
<1>3. /\ connecting' = [connecting EXCEPT ![x] = @ - 1]
      /\ UNCHANGED <<connectionRetries, armed, checking, caller, outChannelEvents, cancelled>>
  BY Zenon DEF BackoffCallTaken, CallbackTaken, table
<1>4. /\ Live(x)' /\ \A h \in Host : Live(h) => Live(h)'
      /\ \A h : ~Telling(h)
  BY Zenon, <1>1, ConnectWay DEF BackoffCallTaken
<1>5. \A h : /\ (Armed(h)' <=> Armed(h)) /\ (Calling(h)' <=> Calling(h)) /\ (Told(h)' <=> Told(h))
  BY Zenon, <1>3 DEF Armed, Calling, Told
<1>6. \A h \in Host : h # x => (Fired(h)' <=> Fired(h))
  BY Zenon, <1>2, <1>3 DEF Fired
<1> QED BY Zenon, <1>1, <1>3, <1>4, <1>5, <1>6 DEF OnTheWay, Way

\* The handler performs the next of its operations.
LEMMA OperationWay ==
    ASSUME Composed, CancelOrder,
           S!TransportCall \/ S!EmitEvent \/ S!PushMessage \/ S!GiveUpOperation,
           ~cancelled, NEW h \in Host
    PROVE  /\ Live(h)' <=> Live(h)
           /\ Telling(h) \/ Told(h) => Telling(h)' \/ Told(h)'
<1>1. todo # <<>> /\ todo' = Tail(todo) /\ UNCHANGED sessions
  BY Zenon DEF S!TransportCall, S!EmitEvent, S!PushMessage, S!GiveUpOperation, S!Done,
    S!maps, S!Doing
<1>2. Parts
  BY Zenon, ComposedParts
<1>3. Elems(todo) = Elems(todo') \cup {Head(todo)}
  <2>1. todo \in Seq(S!Effect)
    BY Zenon, <1>2 DEF Parts, S!TypeOK, S!SessionTypeOK
  <2>2. Head(todo) \in S!Effect
    BY <1>1, <2>1
  <2> QED BY Zenon, <1>1, <2>1, <2>2, ElemsTail
<1>4. Live(h)' <=> Live(h)
  BY Zenon, <1>1 DEF Live
<1>5. ASSUME S!EmitEvent PROVE Telling(h) \/ Told(h) => Telling(h)' \/ Told(h)'
  <2>1. Elems(outChannelEvents') = Elems(outChannelEvents) \cup {Head(todo).arg}
    BY Zenon, <1>2, <1>5, EmitElems
  <2>2. Told(h) => Told(h)'
    BY Zenon, <2>1 DEF Told
  <2>3. Head(todo).arg.host = h => Told(h)'
    BY Zenon, <2>1 DEF Told
  <2>4. Telling(h) => Telling(h)' \/ Head(todo).arg.host = h
    BY Zenon, <1>3 DEF Telling
  <2> QED BY Zenon, <2>2, <2>3, <2>4
<1>6. ASSUME S!TransportCall \/ S!PushMessage
      PROVE  Telling(h) \/ Told(h) => Telling(h)' \/ Told(h)'
  <2>1. Head(todo).op # "emit" /\ UNCHANGED outChannelEvents
    BY Zenon, <1>6 DEF S!TransportCall, S!PushMessage, S!Doing, S!ups, S!UpUnchanged
  <2>2. Told(h) => Told(h)'
    BY Zenon, <2>1 DEF Told
  <2>3. Telling(h) => Telling(h)'
    BY Zenon, <1>3, <2>1 DEF Telling
  <2> QED BY Zenon, <2>2, <2>3
<1>7. ASSUME S!GiveUpOperation PROVE FALSE
  <2>1. sessionDone \/ transportDone
    BY Zenon, <1>7 DEF S!GiveUpOperation
  <2> QED BY Zenon, <2>1 DEF CancelOrder
<1> QED BY Zenon, <1>4, <1>5, <1>6, <1>7

\* The session handler's steps leave the runtime alone, and a session that they
\* take down they are going to report.
LEMMA HandlerWay == ASSUME Composed, Wake, HandlerStep PROVE OnTheWay'
<1>1. CancelOrder /\ NoPayload /\ DialsOK /\ OnTheWay
  BY Zenon DEF Wake
<1>2. UNCHANGED <<connectionRetries, armed, checking, connecting, caller, cancelled>>
  BY Zenon DEF HandlerStep, runtimePart, table, callbacks
<1>3. \A h : /\ (Armed(h)' <=> Armed(h)) /\ (Fired(h)' <=> Fired(h))
             /\ (Calling(h)' <=> Calling(h))
  BY Zenon, <1>2 DEF Armed, Fired, Calling
<1> SUFFICES ASSUME NEW h \in Host, ~cancelled
             PROVE  Live(h) \/ Telling(h) \/ Told(h) => Live(h)' \/ Telling(h)' \/ Told(h)'
  BY Zenon, <1>1, <1>2, <1>3 DEF OnTheWay, Way
<1>4. CASE S!transportEventHandler
  <2>1. UNCHANGED outChannelEvents
    BY Zenon, <1>4 DEF S!transportEventHandler, S!UpUnchanged, S!ups
  <2>2. PICK t \in Host : todo = <<>> /\ Effected(t)
    BY Zenon, <1>1, <1>4, EventEffect
  <2>3. Elems(todo) = {}
    BY Zenon, <2>2, ElemsShort
  <2>4. ~Telling(h) /\ (Told(h)' <=> Told(h))
    BY Zenon, <2>1, <2>3 DEF Telling, Told
  <2>5. CASE h = t
    BY Zenon, <2>2, <2>4, <2>5 DEF Effected, Live
  <2>6. CASE h # t
    <3>1. Live(h)' <=> Live(h)
      BY Zenon, <2>2, <2>6 DEF Effected, Live
    <3> QED BY Zenon, <2>4, <3>1
  <2> QED BY Zenon, <2>5, <2>6
<1>5. CASE S!transportMessageHandler
  BY Zenon, <1>1, <1>5 DEF S!transportMessageHandler, NoPayload
<1>6. CASE S!HandlerReturns
  <2>1. UNCHANGED <<sessions, todo, outChannelEvents>>
    BY Zenon, <1>6 DEF S!HandlerReturns, S!maps, S!ups
  <2> QED BY Zenon, <2>1 DEF Live, Telling, Told
<1>7. CASE S!TransportCall \/ S!EmitEvent \/ S!PushMessage \/ S!GiveUpOperation
  BY Zenon, <1>1, <1>7, OperationWay
<1> QED BY Zenon, <1>4, <1>5, <1>6, <1>7 DEF HandlerStep, S!Handler

\* Every step keeps the whole invariant.
LEMMA WakeStep == ASSUME Composed, Wake, [StackNext]_stackVars PROVE Wake'
<1>1. CASE StackNext
  <2>1. Parties
    BY Zenon, <1>1, StepParties
  <2>2. DialInv'
    BY Zenon, <2>1, DialStep DEF Wake, DialInv
  <2>3. ASSUME TransportStep \/ PeerLost \/ CancelSession \/ CancelTransport PROVE OnTheWay'
    <3>1. /\ UNCHANGED <<connectionRetries, armed, checking, connecting, caller>>
          /\ UNCHANGED <<outChannelEvents, todo, sessions, cancelled>>
      BY Zenon, <2>3 DEF TransportStep, PeerLost, CancelSession, CancelTransport, S!Cancel,
        S!TransportCancel, S!layerVars, S!sessionVars, S!maps, S!ups, vars, sessionPart,
        runtimePart, table, callbacks
    <3>2. \A h : /\ (Armed(h)' <=> Armed(h)) /\ (Fired(h)' <=> Fired(h))
                 /\ (Calling(h)' <=> Calling(h)) /\ (Telling(h)' <=> Telling(h))
                 /\ (Told(h)' <=> Told(h)) /\ (Live(h)' <=> Live(h))
      BY Zenon, <3>1 DEF Armed, Fired, Calling, Telling, Told, Live
    <3> QED BY Zenon, <3>1, <3>2 DEF Wake, OnTheWay, Way
  <2>4. OnTheWay'
    BY Zenon, <2>1, <2>3, RuntimeWay, CallWay, BackoffWay, HandlerWay DEF Parties
  <2> QED BY Zenon, <2>2, <2>4 DEF Wake, DialInv
<1>2. CASE UNCHANGED stackVars
  <2>1. /\ UNCHANGED <<connectionRetries, armed, checking, connecting, caller, cancelled>>
        /\ UNCHANGED <<outEvents, outChannel, request, transportDone, owed>>
        /\ UNCHANGED <<outChannelEvents, todo, sessions, sessionDone>>
    BY Zenon, <1>2 DEF stackVars, vars, table, callbacks, transportPart, sessionPart
  <2>2. \A h : /\ (Armed(h)' <=> Armed(h)) /\ (Fired(h)' <=> Fired(h))
               /\ (Calling(h)' <=> Calling(h)) /\ (Telling(h)' <=> Telling(h))
               /\ (Told(h)' <=> Told(h)) /\ (Live(h)' <=> Live(h))
    BY Zenon, <2>1 DEF Armed, Fired, Calling, Telling, Told, Live
  <2>3. \A h : (Dialled(h)' <=> Dialled(h)) /\ (Heard(h)' <=> Heard(h))
               /\ (HeardUp(h)' <=> HeardUp(h))
    BY Zenon, <2>1 DEF Dialled, Asked, Heard, HeardUp
  <2>4. OnTheWay'
    BY Zenon, <2>1, <2>2 DEF Wake, OnTheWay, Way
  <2>5. DialsOK'
    BY Zenon, <2>1, <2>3 DEF Wake, DialsOK, DialOK
  <2> QED BY Zenon, <2>1, <2>4, <2>5 DEF Wake, CancelOrder, NoPayload
<1> QED BY Zenon, <1>1, <1>2

\* Nothing is tracked, dialled or reported at first.
LEMMA WakeInit == ASSUME StackInit PROVE Wake
<1>1. /\ connectionRetries = [h \in Host |-> Untracked] /\ cancelled = FALSE
      /\ outChannelEvents = <<>>
  BY Zenon DEF StackInit, Init
<1>2. /\ todo = <<>> /\ sessionDone = FALSE
      /\ sessions = [h \in Host |-> [state |-> "Idle", logical |-> Nil]]
  BY Zenon DEF StackInit, S!SessionInit
<1>3. outEvents = <<>> /\ outChannel = <<>> /\ transportDone = FALSE /\ owed = FALSE
  BY Zenon DEF StackInit, T!Init, T!LayerInit
<1>4. Elems(todo) = {} /\ Elems(outEvents) = {} /\ Elems(outChannelEvents) = {}
  BY Zenon, <1>1, <1>2, <1>3, ElemsShort
<1>5. \A h : ~Dialled(h) /\ ~Heard(h) /\ ~HeardUp(h)
  BY Zenon, <1>3, <1>4 DEF Dialled, Asked, Heard, HeardUp
<1>6. \A h \in Host : sessions[h].state = "Idle" /\ ~connectionRetries[h].tracked
  BY Zenon, <1>1, <1>2 DEF Untracked
<1>7. DialsOK /\ OnTheWay
  BY Zenon, <1>5, <1>6 DEF DialsOK, DialOK, OnTheWay
<1> QED BY Zenon, <1>2, <1>3, <1>4, <1>7 DEF Wake, CancelOrder, NoPayload

\* A peer that is being retried is on its way to its next event.
LEMMA WakeUnderWay == ASSUME Composed, Wake PROVE RetryUnderWay
<1> SUFFICES ASSUME NEW h \in Host, connectionRetries[h].tracked, ~cancelled
             PROVE  \/ \E t \in 1..MaxTimers : <<h, t>> \in armed
                    \/ checking[h] + connecting[h] > 0
                    \/ CallOf("connect", h) \in {caller[g] : g \in Goroutine}
                    \/ Reports(h) \/ (owed /\ request.host = h)
                    \/ About(outEvents, h) \/ About(outChannelEvents, h)
                    \/ sessions[h].state = "Established"
  BY Zenon DEF RetryUnderWay
<1>1. Way(h) /\ DialOK(h)
  BY Zenon DEF Wake, OnTheWay, DialsOK
<1>2. checking[h] \in Nat /\ connecting[h] \in Nat
  BY RetryAssumption DEF Composed, IInv, TypeOK
<1>3. Fired(h) => checking[h] + connecting[h] > 0
  BY SMTT(30), <1>2 DEF Fired
<1>4. Calling(h) => CallOf("connect", h) \in {caller[g] : g \in Goroutine}
  BY Zenon DEF Calling
<1>5. Telling(h) \/ Asked(h) => Reports(h)
  BY Zenon DEF Telling, Asked, Elems, Reports
<1>6. (Heard(h) => About(outEvents, h)) /\ (Told(h) => About(outChannelEvents, h))
  BY Zenon DEF Heard, Told, Elems, About
<1>7. Live(h) => sessions[h].state = "Established" \/ Dialled(h) \/ Heard(h)
  BY Zenon, <1>1 DEF Live, DialOK
<1> QED BY Zenon, <1>1, <1>3, <1>4, <1>5, <1>6, <1>7 DEF Way, Armed, Dialled

\* No wake-up is lost, for any number of peers, buffers, timers and losses: as
\* long as the runtime is up, a peer that it retries has an established session
\* or something under way that will bring the next event about it (retry.go
\* 118-165, session.go 537-573).
THEOREM NoLostWakeUp == StackSpec => []RetryUnderWay
<1>1. StackInit => Wake
  BY Zenon, WakeInit
<1>2. Composed /\ Wake /\ [StackNext]_stackVars => Wake'
  BY Zenon, WakeStep
<1>3. Composed /\ Wake => RetryUnderWay
  BY Zenon, WakeUnderWay
<1> QED BY <1>1, <1>2, <1>3, StackInvariance, PTL DEF StackSpec

=============================================================================
