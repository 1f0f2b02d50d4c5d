------------------------------- MODULE Session -------------------------------
(***************************************************************************)
(* SessionLayer of pkg/transport/session.go: one goroutine (handler) that  *)
(* turns transport events and handshake messages into per-transport-host   *)
(* session state machines, keeps the transport <-> logical host maps, and  *)
(* emits session events and application messages upwards.                  *)
(*                                                                         *)
(* The handler goroutine takes one input at a time.  What an input changes *)
(* in the maps is one step; the channel operations it then performs, each  *)
(* of which may block, are queued in `todo' and happen one step each, in   *)
(* the order of the code.  No other goroutine reads the maps, so updating  *)
(* them before the first blocking operation is not observable.             *)
(***************************************************************************)
EXTENDS Layer

CONSTANTS
    Dial,          \* addresses the protocols pass to Connect
    Hang,          \* addresses the protocols pass to Disconnect
    HelloOutcome,  \* how encodeHello(self) may end: "ok", "error"
    Self,          \* this node's logical host
    Kinds,         \* payload kinds peers send
    Cancels,       \* whether the contexts may be cancelled
    EventsBuf,     \* capacity of outChannelEvents
    MsgsBuf        \* capacity of outMessages

VARIABLES
    sessions,            \* map[Host]*sessionConn; an absent key is Idle
    transportToLogical,  \* map[Host]Host; an absent key is Nil
    logicalToTransport,  \* map[Host]Host; an absent key is Nil
    todo,                \* channel operations the handler has yet to do
    outChannelEvents,    \* chan SessionEvent
    outMessages,         \* chan SessionMessage
    sessionDone,         \* the session layer's context is cancelled
    stopped,             \* handler has returned
    announced            \* history: peers whose last event was SessionConnected

maps == <<sessions, transportToLogical, logicalToTransport>>
ups == <<outChannelEvents, outMessages>>
sessionVars == <<maps, todo, ups, sessionDone, stopped, announced>>
vars == <<layerVars, sessionVars>>

ASSUME SessionAssumption ==
    /\ Dial \subseteq Host /\ Hang \subseteq Host /\ Self \in Host
    /\ HelloOutcome \subseteq {"ok", "error"} /\ Kinds \subseteq Kind /\ Cancels \in BOOLEAN
    /\ EventsBuf \in Nat \ {0} /\ MsgsBuf \in Nat \ {0}

State == {"Idle", "HandshakingClient", "HandshakingServer", "Established",
          "Failed", "Closing"}

SessionEvent == [type : {"SessionConnected", "SessionDisconnected",
                         "SessionFailed", "SessionVersionMismatch"},
                 host : Host]

\* Channel operations of the handler goroutine.  `guarded' is whether the
\* operation gives up when the session context is cancelled.
Call(o, h, k, l) == [op |-> "call", arg |-> RequestOf(o, h, k, l), guarded |-> FALSE]
Emit(ty, h) == [op |-> "emit", arg |-> EventOf(ty, h), guarded |-> TRUE]
EmitUnguarded(ty, h) == [op |-> "emit", arg |-> EventOf(ty, h), guarded |-> FALSE]
Push(m) == [op |-> "push", arg |-> m, guarded |-> TRUE]

Effect ==
    [op : {"call"}, arg : Request, guarded : {FALSE}]
    \cup [op : {"emit"}, arg : SessionEvent, guarded : BOOLEAN]
    \cup [op : {"push"}, arg : Message, guarded : {TRUE}]

SessionTypeOK ==
    /\ sessions \in [Host -> [state : State, logical : Host \cup {Nil}]]
    /\ transportToLogical \in [Host -> Host \cup {Nil}]
    /\ logicalToTransport \in [Host -> Host \cup {Nil}]
    /\ todo \in Seq(Effect)
    /\ outChannelEvents \in Seq(SessionEvent) /\ Len(outChannelEvents) <= EventsBuf
    /\ outMessages \in Seq(Message) /\ Len(outMessages) <= MsgsBuf
    /\ sessionDone \in BOOLEAN
    /\ stopped \in BOOLEAN
    /\ announced \in SUBSET Host

SessionInit ==
    /\ sessions = [h \in Host |-> [state |-> "Idle", logical |-> Nil]]
    /\ transportToLogical = [h \in Host |-> Nil]
    /\ logicalToTransport = [h \in Host |-> Nil]
    /\ todo = <<>>
    /\ outChannelEvents = <<>>
    /\ outMessages = <<>>
    /\ sessionDone = FALSE
    /\ stopped = FALSE
    /\ announced = {}

-----------------------------------------------------------------------------
(* Host maps.                                                              *)

setServerMapping(t, l) ==
    /\ transportToLogical' = [transportToLogical EXCEPT ![t] = l]
    /\ logicalToTransport' = [logicalToTransport EXCEPT ![l] = t]

\* Mistake: the reverse entry is left behind.
cleanupOneSide(t) ==
    /\ transportToLogical' = [transportToLogical EXCEPT ![t] = Nil]
    /\ UNCHANGED logicalToTransport

cleanupServerMapping(t) ==
    IF transportToLogical[t] = Nil
    THEN UNCHANGED <<transportToLogical, logicalToTransport>>
    ELSE /\ transportToLogical' = [transportToLogical EXCEPT ![t] = Nil]
         /\ logicalToTransport' =
                [logicalToTransport EXCEPT ![transportToLogical[t]] = Nil]

resolveUnderlyingHost(l) ==
    IF logicalToTransport[l] = Nil THEN l ELSE logicalToTransport[l]

mapToHost(t) ==
    IF transportToLogical[t] = Nil THEN t ELSE transportToLogical[t]

-----------------------------------------------------------------------------
(* The session state machine of transport host t.                          *)

Ready == ~stopped /\ todo = <<>>

MoveTo(t, st) ==
    sessions' = [sessions EXCEPT ![t] = [state |-> st, logical |-> @.logical]]

\* Mistake: a session that was lost is not taken up again.
handleConnectUnlessClosing(h) ==
    /\ announced' = announced
    /\ UNCHANGED <<transportToLogical, logicalToTransport>>
    /\ \/ /\ sessions[h].state \in {"Idle", "Failed"}
          /\ sessions' = [sessions EXCEPT
                ![h] = [state |-> "HandshakingClient", logical |-> h]]
          /\ todo' = <<Call("connect", h, "app", Nil)>>
       \/ /\ sessions[h].state \notin {"Idle", "Failed"}
          /\ sessions' = [sessions EXCEPT
                ![h] = [state |-> @.state, logical |-> h]]
          /\ todo' = todo

\* connectClient: withSession(h, h) names the session after h even when the
\* request is then ignored.
handleClientConnectRequested(h) ==
    /\ announced' = announced
    /\ UNCHANGED <<transportToLogical, logicalToTransport>>
    /\ \/ /\ sessions[h].state \in {"Idle", "Failed", "Closing"}
          /\ sessions' = [sessions EXCEPT
                ![h] = [state |-> "HandshakingClient", logical |-> h]]
          /\ todo' = <<Call("connect", h, "app", Nil)>>
       \/ /\ sessions[h].state \notin {"Idle", "Failed", "Closing"}
          /\ sessions' = [sessions EXCEPT
                ![h] = [state |-> @.state, logical |-> h]]
          /\ todo' = todo

handleConnected(t) ==
    \/ /\ sessions[t].state = "HandshakingClient"
       /\ "ok" \in HelloOutcome
       /\ MoveTo(t, "Established")
       /\ setServerMapping(t, sessions[t].logical)
       /\ todo' = <<Call("send", t, "hello", Self),
                    Emit("SessionConnected", sessions[t].logical)>>
       /\ announced' = announced \cup {sessions[t].logical}
    \/ /\ sessions[t].state = "HandshakingClient"
       /\ "error" \in HelloOutcome
       /\ MoveTo(t, "Failed")
       /\ todo' = <<Emit("SessionFailed", sessions[t].logical)>>
       /\ announced' = announced \ {sessions[t].logical}
       /\ UNCHANGED <<transportToLogical, logicalToTransport>>
    \/ /\ sessions[t].state \in {"Idle", "HandshakingServer"}
       /\ MoveTo(t, "HandshakingServer")
       /\ UNCHANGED <<transportToLogical, logicalToTransport, todo, announced>>
    \/ /\ sessions[t].state \in {"Established", "Failed", "Closing"}
       /\ UNCHANGED <<maps, todo, announced>>

\* Mistake: the peer is looked up after the map entry is gone.
handleDisconnectedLateLookup(t) ==
    \/ /\ sessions[t].state \in
            {"Established", "HandshakingClient", "HandshakingServer"}
       /\ MoveTo(t, "Closing")
       /\ cleanupServerMapping(t)
       /\ todo' = <<Emit("SessionDisconnected", t)>>
       /\ announced' = announced \ {t}
    \/ /\ sessions[t].state \in {"Idle", "Failed", "Closing"}
       /\ MoveTo(t, "Failed")
       /\ UNCHANGED <<transportToLogical, logicalToTransport, todo, announced>>

handleDisconnected(t) ==
    \/ /\ sessions[t].state \in
            {"Established", "HandshakingClient", "HandshakingServer"}
       /\ MoveTo(t, "Closing")
       /\ cleanupServerMapping(t)
       /\ todo' = <<Emit("SessionDisconnected", mapToHost(t))>>
       /\ announced' = announced \ {mapToHost(t)}
    \/ /\ sessions[t].state \in {"Idle", "Failed", "Closing"}
       /\ MoveTo(t, "Failed")
       /\ UNCHANGED <<transportToLogical, logicalToTransport, todo, announced>>

\* Mistake: a failed session keeps its map entries.
handleFailedNoCleanup(t) ==
    /\ MoveTo(t, "Failed")
    /\ todo' = <<Emit("SessionFailed", mapToHost(t))>>
    /\ announced' = announced \ {mapToHost(t)}
    /\ UNCHANGED <<transportToLogical, logicalToTransport>>

handleFailed(t) ==
    /\ MoveTo(t, "Failed")
    /\ cleanupServerMapping(t)
    /\ todo' = <<Emit("SessionFailed", mapToHost(t))>>
    /\ announced' = announced \ {mapToHost(t)}

\* A handshake message on a session that has no state yet makes it a server.
ServerSide(t) == sessions[t].state \in {"Idle", "HandshakingServer"}
Handshaking(t) == IF sessions[t].state = "Idle" THEN "HandshakingServer"
                                               ELSE sessions[t].state

handleServerHello(t, l) ==
    /\ ServerSide(t)
    /\ sessions' = [sessions EXCEPT ![t] = [state |-> "Established", logical |-> l]]
    /\ setServerMapping(t, l)
    /\ todo' = <<Call("send", t, "ack", Nil), Emit("SessionConnected", l)>>
    /\ announced' = announced \cup {l}

\* An Ack, a payload that does not parse, and a Hello for which this is not
\* a handshaking server are logged and otherwise ignored.
handleIgnoredHandshake(t, k) ==
    /\ \/ k \in {"ack", "malformed"}
       \/ k = "hello" /\ ~ServerSide(t)
    /\ MoveTo(t, Handshaking(t))
    /\ UNCHANGED <<transportToLogical, logicalToTransport, todo, announced>>

handleVersionMismatch(t) ==
    /\ MoveTo(t, Handshaking(t))
    /\ todo' = <<EmitUnguarded("SessionVersionMismatch", t),
                 Call("disconnect", t, "app", Nil)>>
    /\ UNCHANGED <<transportToLogical, logicalToTransport, announced>>

-----------------------------------------------------------------------------
(* The handler loop: one action per branch of its select.                  *)

UpUnchanged == UNCHANGED <<ups, sessionDone, stopped>>

Connect(h) ==
    /\ Ready
    /\ handleClientConnectRequested(h)
    /\ UpUnchanged /\ UNCHANGED layerVars

\* disconnect drops the map entry at once and leaves the state machine to
\* the Disconnected event.  The host is not resolved.
Disconnect(h) ==
    /\ Ready
    /\ todo' = <<Call("disconnect", h, "app", Nil)>>
    /\ cleanupServerMapping(h)
    /\ UpUnchanged /\ UNCHANGED <<layerVars, sessions, announced>>

Send(l) ==
    /\ Ready
    /\ todo' = <<Call("send", resolveUnderlyingHost(l), "app", Nil)>>
    /\ UpUnchanged /\ UNCHANGED <<layerVars, maps, announced>>

transportEventHandler ==
    /\ Ready
    /\ outEvents # <<>>
    /\ outEvents' = Tail(outEvents)
    /\ LET e == Head(outEvents) IN
         \/ e.type = "Connected" /\ handleConnected(e.host)
         \/ e.type = "Disconnected" /\ handleDisconnected(e.host)
         \/ e.type = "Failed" /\ handleFailed(e.host)
    /\ UpUnchanged /\ UNCHANGED <<outChannel, request, transportDone>>

transportMessageHandler ==
    /\ Ready
    /\ outChannel # <<>>
    /\ outChannel' = Tail(outChannel)
    /\ LET m == Head(outChannel) IN
         \/ /\ m.kind = "app"
            /\ todo' = <<Push(m)>>
            /\ UNCHANGED <<maps, announced>>
         \/ m.kind = "hello" /\ handleServerHello(m.host, m.from)
         \/ m.kind \in Kind /\ handleIgnoredHandshake(m.host, m.kind)
         \/ m.kind = "version" /\ handleVersionMismatch(m.host)
         \/ m.kind = "unknown" /\ UNCHANGED <<maps, todo, announced>>
    /\ UpUnchanged /\ UNCHANGED <<outEvents, request, transportDone>>

\* select chooses ctx.Done() among the ready branches.
HandlerReturns ==
    /\ Ready /\ sessionDone
    /\ stopped' = TRUE
    /\ UNCHANGED <<layerVars, maps, todo, ups, sessionDone, announced>>

-----------------------------------------------------------------------------
(* The blocking channel operations, in order.                              *)

Doing(op) == ~stopped /\ todo # <<>> /\ Head(todo).op = op
Done == todo' = Tail(todo)

TransportCall ==
    /\ Doing("call")
    /\ request = Nil
    /\ request' = Head(todo).arg
    /\ Done
    /\ UpUnchanged
    /\ UNCHANGED <<outEvents, outChannel, transportDone, maps, announced>>

EmitEvent ==
    /\ Doing("emit")
    /\ Len(outChannelEvents) < EventsBuf
    /\ outChannelEvents' = Append(outChannelEvents, Head(todo).arg)
    /\ Done
    /\ UNCHANGED <<layerVars, maps, outMessages, sessionDone, stopped, announced>>

PushMessage ==
    /\ Doing("push")
    /\ Len(outMessages) < MsgsBuf
    /\ outMessages' = Append(outMessages, Head(todo).arg)
    /\ Done
    /\ UNCHANGED <<layerVars, maps, outChannelEvents, sessionDone, stopped, announced>>

\* Mistake: a call on the transport ignores the transport's context.
GiveUpOwnOperation ==
    /\ ~stopped /\ todo # <<>>
    /\ Head(todo).guarded /\ sessionDone
    /\ Done
    /\ UNCHANGED <<layerVars, maps, ups, sessionDone, stopped, announced>>

\* Mistake: the sends on the out channels have no ctx.Done() branch.
GiveUpCallOnly ==
    /\ ~stopped /\ todo # <<>>
    /\ Head(todo).op = "call" /\ transportDone
    /\ Done
    /\ UNCHANGED <<layerVars, maps, ups, sessionDone, stopped, announced>>

\* The ctx.Done() branch of a guarded operation; for a call it is the
\* transport's own context that matters.
GiveUpOperation ==
    /\ ~stopped /\ todo # <<>>
    /\ \/ Head(todo).guarded /\ sessionDone
       \/ Head(todo).op = "call" /\ transportDone
    /\ Done
    /\ UNCHANGED <<layerVars, maps, ups, sessionDone, stopped, announced>>

Cancel ==
    /\ Cancels /\ ~sessionDone
    /\ sessionDone' = TRUE
    /\ UNCHANGED <<layerVars, maps, todo, ups, stopped, announced>>

\* Everything the handler goroutine does of its own accord.
Handler ==
    \/ transportEventHandler \/ transportMessageHandler \/ HandlerReturns
    \/ TransportCall \/ EmitEvent \/ PushMessage \/ GiveUpOperation

Calls ==
    \/ \E h \in Dial : Connect(h)
    \/ \E h \in Hang : Disconnect(h)
    \/ \E h \in Host : Send(h)

-----------------------------------------------------------------------------
(* The session layer over an arbitrary transport, below a runtime that     *)
(* reads its two channels.  Layer is an interface (WithTransport accepts   *)
(* any implementation), so the transport may report anything in any order. *)
(* One assumption: an address that is dialled is a node's listening        *)
(* address, and a Hello that arrives from it, if any, announces it.        *)

TransportEvent(e) ==
    /\ Len(outEvents) < OutBuf
    /\ outEvents' = Append(outEvents, e)
    /\ UNCHANGED <<outChannel, request, transportDone, sessionVars>>

TransportMessage(m) ==
    /\ Len(outChannel) < OutBuf
    /\ m.kind = "hello" /\ m.host \in Dial => m.from = m.host
    /\ outChannel' = Append(outChannel, m)
    /\ UNCHANGED <<outEvents, request, transportDone, sessionVars>>

TransportServes ==
    /\ request # Nil
    /\ request' = Nil
    /\ UNCHANGED <<outEvents, outChannel, transportDone, sessionVars>>

TransportCancel ==
    /\ Cancels /\ ~transportDone
    /\ transportDone' = TRUE
    /\ UNCHANGED <<outEvents, outChannel, request, sessionVars>>

RuntimeReadsEvent ==
    /\ outChannelEvents # <<>>
    /\ outChannelEvents' = Tail(outChannelEvents)
    /\ UNCHANGED <<layerVars, maps, todo, outMessages, sessionDone, stopped, announced>>

RuntimeReadsMessage ==
    /\ outMessages # <<>>
    /\ outMessages' = Tail(outMessages)
    /\ UNCHANGED <<layerVars, maps, todo, outChannelEvents, sessionDone, stopped, announced>>

\* A Hello names a host, every other payload names none.
Payload == [host : Host, kind : Kinds \ {"hello"}, from : {Nil}]
           \cup [host : Host, kind : Kinds \cap {"hello"}, from : Host]

Environment ==
    \/ \E e \in Event : TransportEvent(e)
    \/ \E m \in Payload : TransportMessage(m)
    \/ TransportServes \/ TransportCancel
    \/ RuntimeReadsEvent \/ RuntimeReadsMessage
    \/ Cancel

Init == LayerInit /\ SessionInit
Next == Handler \/ Calls \/ Environment
Spec == Init /\ [][Next]_vars

TypeOK == LayerTypeOK /\ SessionTypeOK

=============================================================================
