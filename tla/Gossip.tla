------------------------------- MODULE Gossip -------------------------------
(***************************************************************************)
(* The gossip program (cmd/gossip): on every node a membership protocol,   *)
(* which keeps the view of connected peers, and a gossip protocol, which   *)
(* caches that view and pushes every new message to the peers in it.  Each *)
(* runs on an event loop of its own.  Membership publishes a ViewChanged   *)
(* per change (publishNotification of pkg/protorun/runtime.go), and the    *)
(* cache starts from the reply to a GetView request.                       *)
(*                                                                         *)
(* The session layers below are abstract: a session <<n, m, k>> was        *)
(* dialled by n and accepted by m, and each end notices its loss by        *)
(* itself.  Shutdown is left to Ipc and Session.                           *)
(***************************************************************************)
EXTENDS Naturals, Sequences, FiniteSets

CONSTANTS
    Node,
    Session,    \* sessions <<dialler, acceptor, k>> that may be set up
    Id,         \* message ids: bounds the broadcasts
    Nil,
    NotifyBuf,  \* capacity of gossip's notificationEvents
    Loses       \* whether sessions may be lost

VARIABLES
    sessions,            \* [Node -> sessions up at that node's session layer]
    used,                \* sessions that have been set up
    doubled,             \* history: [Node -> peers it had two sessions with at once]
    sessionEvents,       \* [Node -> chan of membership's session events]
    members,             \* membership's view: [Node -> SUBSET Node]
    publishing,          \* [Node -> the ViewChanged membership is sending, or Nil]
    getView,             \* [Node -> progress of gossip's GetView request]
    snapshot,            \* [Node -> the peers in the reply]
    notificationEvents,  \* [Node -> chan of ViewChanged]
    view,                \* gossip's view
    seen,                \* [Node -> ids seen]
    delivered,           \* history: [Node -> [Id -> calls of onDeliver]]
    sending,             \* [Node -> the message gossip is fanning out, and to whom]
    inflight,            \* messages between nodes
    learned              \* history: [Node -> [Id -> the session an id came by, or Nil]]

net == <<sessions, used, doubled, inflight>>
membership == <<sessionEvents, members, publishing>>
cache == <<getView, snapshot, notificationEvents, view>>
gossip == <<seen, delivered, sending, learned>>
vars == <<net, membership, cache, gossip>>

Change == [type : {"added", "removed"}, host : Node]

ASSUME GossipAssumption ==
    /\ Session \subseteq {s \in Node \X Node \X Nat : s[1] # s[2]}
    /\ Nil \notin Node \cup Session \cup Id \cup Change
    /\ NotifyBuf \in Nat \ {0} /\ Loses \in BOOLEAN

Dialler(s) == s[1]
Acceptor(s) == s[2]
Ends(s) == {s[1], s[2]}
OtherEnd(n, s) == IF n = Dialler(s) THEN Acceptor(s) ELSE Dialler(s)
Between(n, m) == {s \in sessions[n] : OtherEnd(n, s) = m}

ChangeOf(ty, h) == [type |-> ty, host |-> h]
Packet == [via : Session, to : Node, id : Id]
PacketOf(s, m, i) == [via |-> s, to |-> m, id |-> i]
Idle == [id |-> Nil, to |-> {}]
SendingOf(i, peers) == IF peers = {} THEN Idle ELSE [id |-> i, to |-> peers]

TypeOK ==
    /\ sessions \in [Node -> SUBSET Session] /\ used \subseteq Session
    /\ doubled \in [Node -> SUBSET Node]
    /\ sessionEvents \in [Node -> Seq([type : {"connected", "disconnected"}, host : Node])]
    /\ members \in [Node -> SUBSET Node]
    /\ publishing \in [Node -> Change \cup {Nil}]
    /\ getView \in [Node -> {"queued", "answered", "done"}]
    /\ snapshot \in [Node -> SUBSET Node]
    /\ notificationEvents \in [Node -> Seq(Change)]
    /\ \A n \in Node : Len(notificationEvents[n]) <= NotifyBuf
    /\ view \in [Node -> SUBSET Node]
    /\ seen \in [Node -> SUBSET Id]
    /\ delivered \in [Node -> [Id -> Nat]]
    /\ sending \in [Node -> [id : Id \cup {Nil}, to : SUBSET Node]]
    /\ inflight \subseteq Packet
    /\ learned \in [Node -> [Id -> Session \cup {Nil}]]

\* After the Init methods: the GetView request is in membership's mailbox.
\* The pump of session events is started after them.
Init ==
    /\ sessions = [n \in Node |-> {}] /\ used = {} /\ doubled = [n \in Node |-> {}]
    /\ sessionEvents = [n \in Node |-> <<>>]
    /\ members = [n \in Node |-> {}]
    /\ publishing = [n \in Node |-> Nil]
    /\ getView = [n \in Node |-> "queued"]
    /\ snapshot = [n \in Node |-> {}]
    /\ notificationEvents = [n \in Node |-> <<>>]
    /\ view = [n \in Node |-> {}]
    /\ seen = [n \in Node |-> {}]
    /\ delivered = [n \in Node |-> [i \in Id |-> 0]]
    /\ sending = [n \in Node |-> Idle]
    /\ inflight = {}
    /\ learned = [n \in Node |-> [i \in Id |-> Nil]]

-----------------------------------------------------------------------------
(* The session layers.  A dialler has one session at a time with a host it *)
(* dials; the acceptor may not have noticed the loss of an earlier one.    *)

Establish(s) ==
    /\ s \notin used
    /\ \A t \in sessions[Dialler(s)] : Dialler(t) = Dialler(s) => Acceptor(t) # Acceptor(s)
    /\ used' = used \cup {s}
    /\ doubled' = [n \in Node |-> IF n \in Ends(s) /\ Between(n, OtherEnd(n, s)) # {}
                                  THEN doubled[n] \cup {OtherEnd(n, s)} ELSE doubled[n]]
    /\ sessions' = [n \in Node |-> IF n \in Ends(s) THEN sessions[n] \cup {s} ELSE sessions[n]]
    /\ sessionEvents' =
         [n \in Node |-> IF n \in Ends(s)
            THEN Append(sessionEvents[n], [type |-> "connected", host |-> OtherEnd(n, s)])
            ELSE sessionEvents[n]]
    /\ UNCHANGED <<inflight, members, publishing, cache, gossip>>

Lose(n, s) ==
    /\ Loses /\ s \in sessions[n]
    /\ sessions' = [sessions EXCEPT ![n] = @ \ {s}]
    /\ sessionEvents' =
         [sessionEvents EXCEPT ![n] =
            Append(@, [type |-> "disconnected", host |-> OtherEnd(n, s)])]
    /\ UNCHANGED <<used, doubled, inflight, members, publishing, cache, gossip>>

\* What was under way on a session that one end has lost.
LosePacket(pkt) ==
    /\ pkt \in inflight
    /\ \E n \in Ends(pkt.via) : pkt.via \notin sessions[n]
    /\ inflight' = inflight \ {pkt}
    /\ UNCHANGED <<sessions, used, doubled, membership, cache, gossip>>

-----------------------------------------------------------------------------
(* Membership.                                                             *)

SessionEvent(n, ty) ==
    /\ publishing[n] = Nil
    /\ sessionEvents[n] # <<>> /\ Head(sessionEvents[n]).type = ty
    /\ sessionEvents' = [sessionEvents EXCEPT ![n] = Tail(@)]

OnSessionConnected(n) ==
    /\ SessionEvent(n, "connected")
    /\ LET h == Head(sessionEvents[n]).host IN
         \/ h \in members[n] /\ UNCHANGED <<members, publishing>>
         \/ /\ h \notin members[n]
            /\ members' = [members EXCEPT ![n] = @ \cup {h}]
            /\ publishing' = [publishing EXCEPT ![n] = ChangeOf("added", h)]
    /\ UNCHANGED <<net, cache, gossip>>

\* Mistake: the peer is reported as gone and stays in the view.
OnSessionDisconnectedKeeps(n) ==
    /\ SessionEvent(n, "disconnected")
    /\ LET h == Head(sessionEvents[n]).host IN
         \/ h \notin members[n] /\ UNCHANGED publishing
         \/ /\ h \in members[n]
            /\ publishing' = [publishing EXCEPT ![n] = ChangeOf("removed", h)]
    /\ UNCHANGED <<net, members, cache, gossip>>

OnSessionDisconnected(n) ==
    /\ SessionEvent(n, "disconnected")
    /\ LET h == Head(sessionEvents[n]).host IN
         \/ h \notin members[n] /\ UNCHANGED <<members, publishing>>
         \/ /\ h \in members[n]
            /\ members' = [members EXCEPT ![n] = @ \ {h}]
            /\ publishing' = [publishing EXCEPT ![n] = ChangeOf("removed", h)]
    /\ UNCHANGED <<net, cache, gossip>>

\* Waits for room in gossip's mailbox.
publishNotification(n) ==
    /\ publishing[n] # Nil
    /\ Len(notificationEvents[n]) < NotifyBuf
    /\ notificationEvents' = [notificationEvents EXCEPT ![n] = Append(@, publishing[n])]
    /\ publishing' = [publishing EXCEPT ![n] = Nil]
    /\ UNCHANGED <<net, sessionEvents, members, getView, snapshot, view, gossip>>

handleGetView(n) ==
    /\ publishing[n] = Nil /\ getView[n] = "queued"
    /\ getView' = [getView EXCEPT ![n] = "answered"]
    /\ snapshot' = [snapshot EXCEPT ![n] = members[n]]
    /\ UNCHANGED <<net, membership, notificationEvents, view, gossip>>

-----------------------------------------------------------------------------
(* Gossip.  While it fans a message out its event loop does nothing else.  *)

Ready(n) == sending[n] = Idle

\* The reply and the notifications come by different channels, in any order.
handleInitialView(n) ==
    /\ Ready(n) /\ getView[n] = "answered"
    /\ getView' = [getView EXCEPT ![n] = "done"]
    /\ view' = [view EXCEPT ![n] = snapshot[n]]
    /\ UNCHANGED <<net, membership, snapshot, notificationEvents, gossip>>

\* The request timed out: its callback only logs, and a later reply is dropped.
initialViewFails(n) ==
    /\ Ready(n) /\ getView[n] # "done"
    /\ getView' = [getView EXCEPT ![n] = "done"]
    /\ UNCHANGED <<net, membership, snapshot, notificationEvents, view, gossip>>

Apply(peers, ch) == IF ch.type = "added" THEN peers \cup {ch.host} ELSE peers \ {ch.host}

\* Mistake: removals are not applied.
ApplyAdditions(n) ==
    /\ Ready(n) /\ notificationEvents[n] # <<>>
    /\ notificationEvents' = [notificationEvents EXCEPT ![n] = Tail(@)]
    /\ view' = [view EXCEPT ![n] = IF Head(notificationEvents[n]).type = "added"
                                   THEN Apply(@, Head(notificationEvents[n])) ELSE @]
    /\ UNCHANGED <<net, membership, getView, snapshot, gossip>>

handleViewChanged(n) ==
    /\ Ready(n) /\ notificationEvents[n] # <<>>
    /\ notificationEvents' = [notificationEvents EXCEPT ![n] = Tail(@)]
    /\ view' = [view EXCEPT ![n] = Apply(@, Head(notificationEvents[n]))]
    /\ UNCHANGED <<net, membership, getView, snapshot, gossip>>

\* onDeliver, and the fanout of i to peers begins.
Deliver(n, i, peers, s) ==
    /\ seen' = [seen EXCEPT ![n] = @ \cup {i}]
    /\ delivered' = [delivered EXCEPT ![n][i] = @ + 1]
    /\ learned' = [learned EXCEPT ![n][i] = s]
    /\ sending' = [sending EXCEPT ![n] = SendingOf(i, peers)]

\* A TriggerBroadcast request or a periodic tick, with an id nobody has used.
disseminate(n, i) ==
    /\ Ready(n) /\ \A m \in Node : i \notin seen[m]
    /\ Deliver(n, i, view[n], Nil)
    /\ UNCHANGED <<net, membership, cache>>

\* The name a message's sender goes by: the transport host of the session,
\* which on the accepting end is an ephemeral address and in nobody's view.
SenderName(n, s) == IF n = Dialler(s) THEN Acceptor(s) ELSE Nil

\* A packet is in flight until the event loop takes it: the connection, the
\* runtime that decodes it (processMessage) and the mailbox included.
Receives(n, pkt) == Ready(n) /\ pkt \in inflight /\ pkt.to = n

\* Mistake: a message already seen is delivered again.
handleDuplicate(n, pkt) ==
    /\ Receives(n, pkt)
    /\ inflight' = inflight \ {pkt}
    /\ \/ /\ pkt.id \in seen[n]
          /\ Deliver(n, pkt.id, {}, learned[n][pkt.id])
       \/ /\ pkt.id \notin seen[n]
          /\ Deliver(n, pkt.id, view[n] \ {SenderName(n, pkt.via)}, pkt.via)
    /\ UNCHANGED <<sessions, used, doubled, membership, cache>>

\* Mistake: a message is forwarded to its sender too.
handleAndEcho(n, pkt) ==
    /\ Receives(n, pkt)
    /\ inflight' = inflight \ {pkt}
    /\ \/ pkt.id \in seen[n] /\ UNCHANGED gossip
       \/ pkt.id \notin seen[n] /\ Deliver(n, pkt.id, view[n], pkt.via)
    /\ UNCHANGED <<sessions, used, doubled, membership, cache>>

\* Mistake: a message is delivered and not forwarded.
handleNoForward(n, pkt) ==
    /\ Receives(n, pkt)
    /\ inflight' = inflight \ {pkt}
    /\ \/ pkt.id \in seen[n] /\ UNCHANGED gossip
       \/ pkt.id \notin seen[n] /\ Deliver(n, pkt.id, {}, pkt.via)
    /\ UNCHANGED <<sessions, used, doubled, membership, cache>>

handleInbound(n, pkt) ==
    /\ Receives(n, pkt)
    /\ inflight' = inflight \ {pkt}
    /\ \/ pkt.id \in seen[n] /\ UNCHANGED gossip
       \/ /\ pkt.id \notin seen[n]
          /\ Deliver(n, pkt.id, view[n] \ {SenderName(n, pkt.via)}, pkt.via)
    /\ UNCHANGED <<sessions, used, doubled, membership, cache>>

\* Send to one peer of the fanout.  Without a session nothing is sent; of
\* several, which one the session layer resolves to, if any, is not modelled.
fanout(n, m) ==
    /\ m \in sending[n].to
    /\ sending' = [sending EXCEPT ![n] = SendingOf(@.id, @.to \ {m})]
    /\ \/ \E s \in Between(n, m) : inflight' = inflight \cup {PacketOf(s, m, sending[n].id)}
       \/ Between(n, m) = {} /\ UNCHANGED inflight
       \/ Cardinality({s \in Session : Ends(s) = {n, m}}) > 1 /\ UNCHANGED inflight
    /\ UNCHANGED <<sessions, used, doubled, membership, cache, seen, delivered, learned>>

-----------------------------------------------------------------------------
MembershipStep(n) ==
    \/ OnSessionConnected(n) \/ OnSessionDisconnected(n)
    \/ publishNotification(n) \/ handleGetView(n)

GossipStep(n) ==
    \/ handleInitialView(n) \/ handleViewChanged(n)
    \/ \E pkt \in inflight : handleInbound(n, pkt)
    \/ \E m \in Node : fanout(n, m)

Next ==
    \/ \E n \in Node :
         \/ MembershipStep(n) \/ GossipStep(n) \/ initialViewFails(n)
         \/ \E i \in Id : disseminate(n, i)
         \/ \E s \in Session : Lose(n, s)
    \/ \E s \in Session : Establish(s)
    \/ \E pkt \in inflight : LosePacket(pkt)

Spec == Init /\ [][Next]_vars

=============================================================================
