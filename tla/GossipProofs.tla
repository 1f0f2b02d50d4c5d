---------------------------- MODULE GossipProofs ----------------------------
(***************************************************************************)
(* The gossip program, for any nodes, sessions and broadcasts.             *)
(***************************************************************************)
EXTENDS GossipProps, TLAPS

-----------------------------------------------------------------------------
(* The inductive invariant.                                                *)

\* A session is up at its ends only, and one at a time with a peer unless
\* `doubled' records it.
SessionsOK ==
    /\ \A n \in Node : \A s \in sessions[n] : n \in Ends(s)
    /\ \A n, m \in Node : m \notin doubled[n] => \A s, t \in Between(n, m) : s = t

\* Whether there is a session with m is what the last event about m says that
\* membership has yet to handle, and otherwise what its view says.
EventsTell ==
    \A n, m \in Node : m \notin doubled[n] =>
        /\ LastSays(sessionEvents[n], m, "connected") => Between(n, m) # {}
        /\ LastSays(sessionEvents[n], m, "disconnected") => Between(n, m) = {}
        /\ NoneSays(sessionEvents[n], m) => (m \in members[n] <=> Between(n, m) # {})

\* A node has seen what it sends or has sent, and does not send it to the peer
\* it dialled and got it from.
SendersKnow ==
    /\ \A n \in Node : \A m \in sending[n].to :
         /\ sending[n].id \in seen[n]
         /\ \A s \in Session : Dialler(s) = n /\ Acceptor(s) = m =>
              learned[n][sending[n].id] # s
    /\ \A pkt \in inflight :
         /\ pkt.to \in Ends(pkt.via)
         /\ pkt.id \in seen[OtherEnd(pkt.to, pkt.via)]

IInv ==
    /\ TypeOK /\ DeliveredOnce /\ SessionsOK /\ EventsTell /\ SendersKnow
    /\ DiallerExcludesSender

-----------------------------------------------------------------------------
(* Sessions and sequences of changes.                                      *)

\* A session has two different ends, each of which is the other's other end.
LEMMA EndFacts ==
    ASSUME NEW s \in Session
    PROVE  /\ Dialler(s) \in Node /\ Acceptor(s) \in Node /\ Dialler(s) # Acceptor(s)
           /\ Ends(s) = {Dialler(s), Acceptor(s)}
           /\ \A n \in Ends(s) : /\ OtherEnd(n, s) \in Node /\ OtherEnd(n, s) \in Ends(s)
                                 /\ OtherEnd(n, s) # n /\ OtherEnd(OtherEnd(n, s), s) = n
                                 /\ n \in Node
<1>1. s \in Node \X Node \X Nat /\ s[1] # s[2] BY GossipAssumption
<1>2. s[1] \in Node /\ s[2] \in Node BY <1>1
<1> QED BY <1>1, <1>2 DEF Dialler, Acceptor, Ends, OtherEnd

\* A change that is appended is the last word on its host, and says nothing of
\* the others.
LEMMA AppendSays ==
    ASSUME NEW R, NEW ch \in Seq(R), NEW e \in R, NEW m, NEW ty
    PROVE  /\ LastSays(Append(ch, e), m, ty) <=>
                IF e.host = m THEN e.type = ty ELSE LastSays(ch, m, ty)
           /\ NoneSays(Append(ch, e), m) <=> e.host # m /\ NoneSays(ch, m)
<1> DEFINE a == Append(ch, e)
<1>1. /\ Len(ch) \in Nat /\ DOMAIN ch = 1..Len(ch) /\ DOMAIN a = 1..(Len(ch) + 1)
      /\ a[Len(ch) + 1] = e /\ \A k \in 1..Len(ch) : a[k] = ch[k]
  OBVIOUS
<1> HIDE DEF a
<1>2. NoneSays(a, m) <=> e.host # m /\ NoneSays(ch, m)
  BY <1>1 DEF NoneSays
<1>3. CASE e.host = m
  <2>1. ASSUME e.type = ty PROVE LastSays(a, m, ty)
    <3>1. /\ Len(ch) + 1 \in DOMAIN a /\ a[Len(ch) + 1].host = m /\ a[Len(ch) + 1].type = ty
          /\ \A j \in DOMAIN a : ~(j > Len(ch) + 1)
      BY <1>1, <1>3, <2>1
    <3> QED BY <3>1 DEF LastSays
  <2>2. ASSUME LastSays(a, m, ty) PROVE e.type = ty
    <3>1. PICK k \in DOMAIN a : /\ a[k].host = m /\ a[k].type = ty
                                /\ \A j \in DOMAIN a : j > k => a[j].host # m
      BY <2>2 DEF LastSays
    <3>2. k = Len(ch) + 1 BY <1>1, <1>3, <3>1
    <3> QED BY <1>1, <3>1, <3>2
  <2> QED BY <1>2, <1>3, <2>1, <2>2 DEF a
<1>4. CASE e.host # m
  <2>1. LastSays(a, m, ty) <=> LastSays(ch, m, ty)
    BY <1>1, <1>4 DEF LastSays
  <2> QED BY <1>2, <1>4, <2>1 DEF a
<1> QED BY <1>3, <1>4

\* Of a sequence that begins with e, the rest has the last word on all that it
\* mentions, and e on its host otherwise.
LEMMA TailSays ==
    ASSUME NEW R, NEW ch \in Seq(R), ch # <<>>, NEW m, NEW ty
    PROVE  /\ LastSays(ch, m, ty) <=>
                \/ LastSays(Tail(ch), m, ty)
                \/ NoneSays(Tail(ch), m) /\ Head(ch).host = m /\ Head(ch).type = ty
           /\ NoneSays(ch, m) <=> NoneSays(Tail(ch), m) /\ Head(ch).host # m
<1> DEFINE t == Tail(ch)
<1>1. /\ Len(ch) \in Nat \ {0} /\ DOMAIN ch = 1..Len(ch) /\ DOMAIN t = 1..(Len(ch) - 1)
      /\ Head(ch) = ch[1] /\ \A k \in 1..(Len(ch) - 1) : t[k] = ch[k + 1]
  OBVIOUS
<1> HIDE DEF t
<1>2. \A k \in 2..Len(ch) : k - 1 \in DOMAIN t /\ t[k - 1] = ch[k]
  BY <1>1
<1>3. NoneSays(ch, m) <=> NoneSays(t, m) /\ Head(ch).host # m
  <2>1. ASSUME NoneSays(t, m), Head(ch).host # m, NEW k \in DOMAIN ch PROVE ch[k].host # m
    <3>1. CASE k = 1 BY <1>1, <2>1, <3>1
    <3>2. CASE k # 1
      <4>1. k \in 2..Len(ch) BY <1>1, <3>2
      <4> QED BY <1>2, <2>1, <4>1 DEF NoneSays
    <3> QED BY <3>1, <3>2
  <2>2. ASSUME NoneSays(ch, m) PROVE NoneSays(t, m) /\ Head(ch).host # m
    BY <1>1, <2>2 DEF NoneSays
  <2> QED BY <2>1, <2>2 DEF NoneSays
<1>4. ASSUME LastSays(ch, m, ty)
      PROVE  \/ LastSays(t, m, ty)
             \/ NoneSays(t, m) /\ Head(ch).host = m /\ Head(ch).type = ty
  <2>1. PICK k \in DOMAIN ch : /\ ch[k].host = m /\ ch[k].type = ty
                               /\ \A j \in DOMAIN ch : j > k => ch[j].host # m
    BY <1>4 DEF LastSays
  <2>2. CASE k = 1 BY SMTT(30), <1>1, <2>1, <2>2 DEF NoneSays
  <2>3. CASE k # 1
    <3>1. k - 1 \in DOMAIN t /\ t[k - 1] = ch[k] BY <1>1, <2>3
    <3>2. ASSUME NEW j \in DOMAIN t, j > k - 1 PROVE t[j].host # m
      <4>1. j + 1 \in DOMAIN ch /\ j + 1 > k /\ ch[j + 1] = t[j] BY <1>1, <3>2
      <4> QED BY <2>1, <4>1
    <3> QED BY <2>1, <3>1, <3>2 DEF LastSays
  <2> QED BY <2>2, <2>3
<1>5. ASSUME LastSays(t, m, ty) PROVE LastSays(ch, m, ty)
  <2>1. PICK k \in DOMAIN t : /\ t[k].host = m /\ t[k].type = ty
                              /\ \A j \in DOMAIN t : j > k => t[j].host # m
    BY <1>5 DEF LastSays
  <2>2. k + 1 \in DOMAIN ch /\ ch[k + 1] = t[k] BY <1>1
  <2>3. ASSUME NEW j \in DOMAIN ch, j > k + 1 PROVE ch[j].host # m
    <3>1. j - 1 \in DOMAIN t /\ j - 1 > k /\ t[j - 1] = ch[j] BY <1>1, <2>3
    <3> QED BY <2>1, <3>1
  <2> QED BY <2>1, <2>2, <2>3 DEF LastSays
<1>6. ASSUME NoneSays(t, m), Head(ch).host = m, Head(ch).type = ty
      PROVE  LastSays(ch, m, ty)
  <2>1. \A j \in DOMAIN ch : j > 1 => ch[j].host # m
    BY <1>1, <1>2, <1>6 DEF NoneSays
  <2> QED BY <1>1, <1>6, <2>1 DEF LastSays
<1> QED BY <1>3, <1>4, <1>5, <1>6 DEF t

-----------------------------------------------------------------------------
(* Types.                                                                  *)

SessionChange == [type : {"connected", "disconnected"}, host : Node]

\* Session events, changes and packets have their types.
LEMMA RecordTypes ==
    /\ \A h \in Node : /\ [type |-> "connected", host |-> h] \in SessionChange
                       /\ [type |-> "disconnected", host |-> h] \in SessionChange
                       /\ ChangeOf("added", h) \in Change /\ ChangeOf("removed", h) \in Change
    /\ \A s \in Session, m \in Node, i \in Id : PacketOf(s, m, i) \in Packet
    /\ \A i \in Id, S \in SUBSET Node :
         SendingOf(i, S) \in [id : Id \cup {Nil}, to : SUBSET Node]
    /\ \A i, S : /\ SendingOf(i, S).to = S
                 /\ S # {} => SendingOf(i, S).id = i
BY DEF SessionChange, ChangeOf, Change, PacketOf, Packet, Idle, SendingOf

\* Setting up and losing sessions keeps the types.
LEMMA NetTypes ==
    ASSUME TypeOK, SessionsOK,
           \/ \E s \in Session : Establish(s)
           \/ \E n \in Node : \E s \in Session : Lose(n, s)
           \/ \E pkt \in inflight : LosePacket(pkt)
    PROVE  TypeOK'
<1>0. sessionEvents \in [Node -> Seq(SessionChange)] BY Zenon DEF TypeOK, SessionChange
<1>1. ASSUME NEW s \in Session, Establish(s) PROVE TypeOK'
  <2>1. sessions' \in [Node -> SUBSET Session] BY <1>1 DEF Establish, TypeOK
  <2>2. doubled' \in [Node -> SUBSET Node]
    <3>1. \A n \in Ends(s) : OtherEnd(n, s) \in Node BY EndFacts
    <3>2. doubled \in [Node -> SUBSET Node] BY DEF TypeOK
    <3> QED BY <1>1, <3>1, <3>2 DEF Establish
  <2>3. sessionEvents' \in [Node -> Seq(SessionChange)]
    <3>1. \A n \in Ends(s) : [type |-> "connected", host |-> OtherEnd(n, s)] \in SessionChange
      BY Zenon, EndFacts, RecordTypes
    <3> QED BY <1>0, <1>1, <3>1 DEF Establish
  <2>4. used' \subseteq Session BY <1>1 DEF Establish, TypeOK
  <2> QED BY Zenon, <1>1, <2>1, <2>2, <2>3, <2>4
          DEF Establish, TypeOK, SessionChange, cache, gossip
<1>2. ASSUME NEW n \in Node, NEW s \in Session, Lose(n, s) PROVE TypeOK'
  <2>1. sessions' \in [Node -> SUBSET Session] BY <1>2 DEF Lose, TypeOK
  <2>2. [type |-> "disconnected", host |-> OtherEnd(n, s)] \in SessionChange
    BY Zenon, <1>2, EndFacts, RecordTypes DEF Lose, SessionsOK
  <2>3. sessionEvents' \in [Node -> Seq(SessionChange)] BY <1>0, <1>2, <2>2 DEF Lose
  <2> QED BY Zenon, <1>2, <2>1, <2>3 DEF Lose, TypeOK, SessionChange, cache, gossip
<1>3. ASSUME NEW pkt \in inflight, LosePacket(pkt) PROVE TypeOK'
  BY Zenon, <1>3 DEF LosePacket, TypeOK, membership, cache, gossip
<1> QED BY <1>1, <1>2, <1>3

\* So do membership's steps,
LEMMA MembershipTypes ==
    ASSUME TypeOK, NEW n \in Node, MembershipStep(n)
    PROVE  TypeOK'
<1> USE DEF net, membership, cache, gossip
<1>0. /\ sessionEvents \in [Node -> Seq(SessionChange)]
      /\ members \in [Node -> SUBSET Node] /\ publishing \in [Node -> Change \cup {Nil}]
  BY Zenon DEF TypeOK, SessionChange
<1>1. ASSUME NEW ty, SessionEvent(n, ty)
      PROVE  /\ Head(sessionEvents[n]).host \in Node
             /\ sessionEvents' \in [Node -> Seq(SessionChange)]
  <2>1. sessionEvents[n] \in Seq(SessionChange) /\ sessionEvents[n] # <<>>
    BY <1>0, <1>1 DEF SessionEvent
  <2>2. Head(sessionEvents[n]) \in SessionChange BY <2>1
  <2>3. sessionEvents' \in [Node -> Seq(SessionChange)] BY <1>0, <1>1, <2>1 DEF SessionEvent
  <2> QED BY Zenon, <2>2, <2>3 DEF SessionChange
<1>2. CASE OnSessionConnected(n)
  <2>1. /\ Head(sessionEvents[n]).host \in Node
        /\ sessionEvents' \in [Node -> Seq(SessionChange)]
    BY <1>1, <1>2 DEF OnSessionConnected
  <2>2. PICK h \in Node :
          \/ UNCHANGED <<members, publishing>>
          \/ /\ members' = [members EXCEPT ![n] = @ \cup {h}]
             /\ publishing' = [publishing EXCEPT ![n] = ChangeOf("added", h)]
    BY Zenon, <1>2, <2>1 DEF OnSessionConnected
  <2>3. members' \in [Node -> SUBSET Node] /\ publishing' \in [Node -> Change \cup {Nil}]
    <3>1. ChangeOf("added", h) \in Change /\ ChangeOf("removed", h) \in Change BY Zenon, RecordTypes
    <3>2. members' \in [Node -> SUBSET Node]
      <4>1. \A S \in SUBSET Node : S \cup {h} \in SUBSET Node /\ S \ {h} \in SUBSET Node
        OBVIOUS
      <4>2. members \in [Node -> SUBSET Node] BY DEF TypeOK
      <4> QED BY <2>2, <4>1, <4>2
    <3>3. publishing' \in [Node -> Change \cup {Nil}] BY Zenon, <1>0, <2>2, <3>1
    <3> QED BY <3>2, <3>3
  <2> QED BY Zenon, <1>2, <2>1, <2>3 DEF OnSessionConnected, TypeOK, SessionChange
<1>3. CASE OnSessionDisconnected(n)
  <2>1. /\ Head(sessionEvents[n]).host \in Node
        /\ sessionEvents' \in [Node -> Seq(SessionChange)]
    BY <1>1, <1>3 DEF OnSessionDisconnected
  <2>2. PICK h \in Node :
          \/ UNCHANGED <<members, publishing>>
          \/ /\ members' = [members EXCEPT ![n] = @ \ {h}]
             /\ publishing' = [publishing EXCEPT ![n] = ChangeOf("removed", h)]
    BY Zenon, <1>3, <2>1 DEF OnSessionDisconnected
  <2>3. members' \in [Node -> SUBSET Node] /\ publishing' \in [Node -> Change \cup {Nil}]
    <3>1. ChangeOf("added", h) \in Change /\ ChangeOf("removed", h) \in Change BY Zenon, RecordTypes
    <3>2. members' \in [Node -> SUBSET Node]
      <4>1. \A S \in SUBSET Node : S \cup {h} \in SUBSET Node /\ S \ {h} \in SUBSET Node
        OBVIOUS
      <4>2. members \in [Node -> SUBSET Node] BY DEF TypeOK
      <4> QED BY <2>2, <4>1, <4>2
    <3>3. publishing' \in [Node -> Change \cup {Nil}] BY Zenon, <1>0, <2>2, <3>1
    <3> QED BY <3>2, <3>3
  <2> QED BY Zenon, <1>3, <2>1, <2>3 DEF OnSessionDisconnected, TypeOK, SessionChange
<1>4. CASE publishNotification(n)
  <2>1. publishing[n] \in Change BY <1>0, <1>4 DEF publishNotification
  <2>2. notificationEvents \in [Node -> Seq(Change)] BY DEF TypeOK
  <2>3. notificationEvents' \in [Node -> Seq(Change)]
    BY <1>4, <2>1, <2>2 DEF publishNotification
  <2>4. \A m \in Node : Len(notificationEvents'[m]) <= NotifyBuf
    <3>1. Len(notificationEvents[n]) \in Nat /\ NotifyBuf \in Nat
      BY <2>2, GossipAssumption
    <3>2. Len(Append(notificationEvents[n], publishing[n])) = Len(notificationEvents[n]) + 1
      BY <2>1, <2>2
    <3> QED BY <1>4, <2>2, <3>1, <3>2 DEF publishNotification, TypeOK
  <2>5. publishing' \in [Node -> Change \cup {Nil}] BY <1>0, <1>4 DEF publishNotification
  <2> QED BY Zenon, <1>4, <2>3, <2>4, <2>5 DEF publishNotification, TypeOK
<1>5. CASE handleGetView(n)
  <2>1. getView' \in [Node -> {"queued", "answered", "done"}]
    BY <1>5 DEF handleGetView, TypeOK
  <2>2. snapshot' \in [Node -> SUBSET Node] BY <1>0, <1>5 DEF handleGetView, TypeOK
  <2> QED BY Zenon, <1>5, <2>1, <2>2 DEF handleGetView, TypeOK
<1> QED BY <1>2, <1>3, <1>4, <1>5 DEF MembershipStep

\* gossip's steps on its cache,
LEMMA CacheTypes ==
    ASSUME TypeOK, NEW n \in Node,
           handleInitialView(n) \/ initialViewFails(n) \/ handleViewChanged(n)
    PROVE  TypeOK'
<1> USE DEF net, membership, gossip
<1>1. CASE handleInitialView(n) \/ initialViewFails(n)
  <2>1. getView' \in [Node -> {"queued", "answered", "done"}]
    BY Zenon, <1>1 DEF handleInitialView, initialViewFails, TypeOK
  <2>2. view' \in [Node -> SUBSET Node]
    BY ZenonT(40), <1>1 DEF handleInitialView, initialViewFails, TypeOK
  <2> QED BY Zenon, <1>1, <2>1, <2>2 DEF handleInitialView, initialViewFails, TypeOK
<1>2. CASE handleViewChanged(n)
  <2>1. /\ notificationEvents \in [Node -> Seq(Change)] /\ view \in [Node -> SUBSET Node]
        /\ \A m \in Node : Len(notificationEvents[m]) <= NotifyBuf
    BY DEF TypeOK
  <2>2. Head(notificationEvents[n]) \in Change /\ Tail(notificationEvents[n]) \in Seq(Change)
    BY <1>2, <2>1 DEF handleViewChanged
  <2>3. notificationEvents' \in [Node -> Seq(Change)]
    BY <1>2, <2>1, <2>2 DEF handleViewChanged
  <2>4. \A m \in Node : Len(notificationEvents'[m]) <= NotifyBuf
    <3>1. Len(Tail(notificationEvents[n])) <= NotifyBuf
      <4>1. Len(Tail(notificationEvents[n])) = Len(notificationEvents[n]) - 1
            /\ Len(notificationEvents[n]) \in Nat
        BY <1>2, <2>1 DEF handleViewChanged
      <4> QED BY <2>1, <4>1, GossipAssumption
    <3> QED BY <1>2, <2>1, <3>1 DEF handleViewChanged
  <2>5. view' \in [Node -> SUBSET Node]
    <3>1. Apply(view[n], Head(notificationEvents[n])) \in SUBSET Node
      BY <2>1, <2>2 DEF Apply, Change
    <3> QED BY <1>2, <2>1, <3>1 DEF handleViewChanged
  <2> QED BY Zenon, <1>2, <2>3, <2>4, <2>5 DEF handleViewChanged, TypeOK
<1> QED BY <1>1, <1>2

\* and the messages it delivers and sends.
LEMMA DeliverTypes ==
    ASSUME TypeOK, NEW n \in Node, NEW i \in Id, NEW peers \in SUBSET Node,
           NEW s \in Session \cup {Nil}, Deliver(n, i, peers, s)
    PROVE  /\ seen' \in [Node -> SUBSET Id] /\ delivered' \in [Node -> [Id -> Nat]]
           /\ sending' \in [Node -> [id : Id \cup {Nil}, to : SUBSET Node]]
           /\ learned' \in [Node -> [Id -> Session \cup {Nil}]]
<1>1. seen' \in [Node -> SUBSET Id] BY DEF Deliver, TypeOK
<1>2. delivered' \in [Node -> [Id -> Nat]]
  <2>1. delivered \in [Node -> [Id -> Nat]] BY DEF TypeOK
  <2>2. [delivered[n] EXCEPT ![i] = @ + 1] \in [Id -> Nat] BY <2>1
  <2> QED BY <2>1, <2>2 DEF Deliver
<1>3. learned' \in [Node -> [Id -> Session \cup {Nil}]] BY DEF Deliver, TypeOK
<1>4. sending' \in [Node -> [id : Id \cup {Nil}, to : SUBSET Node]]
  <2>1. SendingOf(i, peers) \in [id : Id \cup {Nil}, to : SUBSET Node] BY RecordTypes
  <2>2. sending \in [Node -> [id : Id \cup {Nil}, to : SUBSET Node]] BY DEF TypeOK
  <2> QED BY <2>1, <2>2, RecordTypes DEF Deliver
<1> QED BY <1>1, <1>2, <1>3, <1>4

\* So do the operations that deliver and send them.
LEMMA MessageTypes ==
    ASSUME TypeOK, SendersKnow, NEW n \in Node,
           \/ \E i \in Id : disseminate(n, i)
           \/ \E pkt \in inflight : handleInbound(n, pkt)
           \/ \E m \in Node : fanout(n, m)
    PROVE  TypeOK'
<1> USE DEF net, membership, cache, gossip
<1>0. view[n] \in SUBSET Node /\ inflight \subseteq Packet BY DEF TypeOK
<1>1. ASSUME NEW i \in Id, disseminate(n, i) PROVE TypeOK'
  <2>1. Deliver(n, i, view[n], Nil) BY Zenon, <1>1 DEF disseminate
  <2>2. /\ seen' \in [Node -> SUBSET Id] /\ delivered' \in [Node -> [Id -> Nat]]
        /\ sending' \in [Node -> [id : Id \cup {Nil}, to : SUBSET Node]]
        /\ learned' \in [Node -> [Id -> Session \cup {Nil}]]
    BY Zenon, <1>0, <2>1, DeliverTypes
  <2> QED BY Zenon, <1>1, <2>2 DEF disseminate, TypeOK
<1>2. ASSUME NEW pkt \in inflight, handleInbound(n, pkt) PROVE TypeOK'
  <2>1. pkt.via \in Session /\ pkt.id \in Id BY <1>0 DEF Packet
  <2>2. inflight' \subseteq Packet BY <1>0, <1>2 DEF handleInbound
  <2>3. CASE UNCHANGED gossip
    BY Zenon, <1>2, <2>2, <2>3 DEF handleInbound, TypeOK
  <2>4. CASE Deliver(n, pkt.id, view[n] \ {SenderName(n, pkt.via)}, pkt.via)
    <3>1. view[n] \ {SenderName(n, pkt.via)} \in SUBSET Node BY <1>0
    <3>2. /\ seen' \in [Node -> SUBSET Id] /\ delivered' \in [Node -> [Id -> Nat]]
          /\ sending' \in [Node -> [id : Id \cup {Nil}, to : SUBSET Node]]
          /\ learned' \in [Node -> [Id -> Session \cup {Nil}]]
      BY Zenon, <2>1, <2>4, <3>1, DeliverTypes
    <3> QED BY Zenon, <1>2, <2>2, <3>2 DEF handleInbound, TypeOK
  <2> QED BY <1>2, <2>3, <2>4 DEF handleInbound
<1>3. ASSUME NEW m \in Node, fanout(n, m) PROVE TypeOK'
  <2>0. /\ sending \in [Node -> [id : Id \cup {Nil}, to : SUBSET Node]]
        /\ sessions \in [Node -> SUBSET Session]
    BY DEF TypeOK
  <2>1. sending[n].id \in Id /\ m \in sending[n].to
    BY Zenon, <1>3 DEF fanout, SendersKnow, TypeOK
  <2>2. sending' \in [Node -> [id : Id \cup {Nil}, to : SUBSET Node]]
    <3>1. SendingOf(sending[n].id, sending[n].to \ {m})
            \in [id : Id \cup {Nil}, to : SUBSET Node]
      BY <2>0, <2>1, RecordTypes
    <3> QED BY Zenon, <1>3, <2>0, <3>1 DEF fanout
  <2>3. inflight' \subseteq Packet
    <3>1. \A s \in Between(n, m) : PacketOf(s, m, sending[n].id) \in Packet
      BY <2>0, <2>1, RecordTypes DEF Between
    <3> QED BY <1>0, <1>3, <3>1 DEF fanout
  <2> QED BY Zenon, <1>3, <2>2, <2>3 DEF fanout, TypeOK
<1> QED BY <1>1, <1>2, <1>3

-----------------------------------------------------------------------------
(* Membership follows the sessions.                                        *)

\* What setting up and losing a session does to the sessions with a peer.
LEMMA BetweenFacts ==
    ASSUME TypeOK, NEW n \in Node, NEW m \in Node, NEW s \in Session
    PROVE  /\ Establish(s) => Between(n, m)' = IF n \in Ends(s) /\ OtherEnd(n, s) = m
                                               THEN Between(n, m) \cup {s} ELSE Between(n, m)
           /\ \A k \in Node : Lose(k, s) =>
                Between(n, m)' = IF n = k /\ OtherEnd(n, s) = m
                                 THEN Between(n, m) \ {s} ELSE Between(n, m)
           /\ UNCHANGED sessions => Between(n, m)' = Between(n, m)
<1>0. sessions \in [Node -> SUBSET Session] BY DEF TypeOK
<1>1. ASSUME Establish(s)
      PROVE  Between(n, m)' = IF n \in Ends(s) /\ OtherEnd(n, s) = m
                              THEN Between(n, m) \cup {s} ELSE Between(n, m)
  <2>1. sessions'[n] = IF n \in Ends(s) THEN sessions[n] \cup {s} ELSE sessions[n]
    BY <1>1 DEF Establish
  <2> QED BY <2>1 DEF Between
<1>2. ASSUME NEW k \in Node, Lose(k, s)
      PROVE  Between(n, m)' = IF n = k /\ OtherEnd(n, s) = m
                              THEN Between(n, m) \ {s} ELSE Between(n, m)
  <2>1. sessions'[n] = IF n = k THEN sessions[n] \ {s} ELSE sessions[n]
    BY Zenon, <1>0, <1>2 DEF Lose
  <2> QED BY <2>1 DEF Between
<1>3. UNCHANGED sessions => Between(n, m)' = Between(n, m) BY DEF Between
<1> QED BY <1>1, <1>2, <1>3

\* What it appends to the session events.
LEMMA EventFacts ==
    ASSUME TypeOK, SessionsOK, NEW n \in Node, NEW m \in Node, NEW s \in Session, NEW ty
    PROVE  /\ Establish(s) =>
                /\ LastSays(sessionEvents'[n], m, ty) <=>
                     IF n \in Ends(s) /\ OtherEnd(n, s) = m THEN ty = "connected"
                     ELSE LastSays(sessionEvents[n], m, ty)
                /\ NoneSays(sessionEvents'[n], m) <=>
                     /\ ~(n \in Ends(s) /\ OtherEnd(n, s) = m)
                     /\ NoneSays(sessionEvents[n], m)
           /\ \A k \in Node : Lose(k, s) =>
                /\ LastSays(sessionEvents'[n], m, ty) <=>
                     IF n = k /\ OtherEnd(n, s) = m THEN ty = "disconnected"
                     ELSE LastSays(sessionEvents[n], m, ty)
                /\ NoneSays(sessionEvents'[n], m) <=>
                     /\ ~(n = k /\ OtherEnd(n, s) = m)
                     /\ NoneSays(sessionEvents[n], m)
<1>0. sessionEvents \in [Node -> Seq(SessionChange)] BY Zenon DEF TypeOK, SessionChange
<1>1. ASSUME n \in Ends(s) \/ s \in sessions[n]
      PROVE  /\ [type |-> "connected", host |-> OtherEnd(n, s)] \in SessionChange
             /\ [type |-> "disconnected", host |-> OtherEnd(n, s)] \in SessionChange
  BY Zenon, <1>1, EndFacts, RecordTypes DEF SessionsOK
<1>2. ASSUME Establish(s)
      PROVE  /\ LastSays(sessionEvents'[n], m, ty) <=>
                  IF n \in Ends(s) /\ OtherEnd(n, s) = m THEN ty = "connected"
                  ELSE LastSays(sessionEvents[n], m, ty)
             /\ NoneSays(sessionEvents'[n], m) <=>
                  ~(n \in Ends(s) /\ OtherEnd(n, s) = m) /\ NoneSays(sessionEvents[n], m)
  <2>1. CASE n \in Ends(s)
    <3> DEFINE e == [type |-> "connected", host |-> OtherEnd(n, s)]
    <3>1. e \in SessionChange /\ e.host = OtherEnd(n, s) /\ e.type = "connected"
      BY <1>1, <2>1
    <3>2. sessionEvents'[n] = Append(sessionEvents[n], e) BY <1>2, <2>1 DEF Establish
    <3> HIDE DEF e
    <3>3. sessionEvents[n] \in Seq(SessionChange) BY <1>0
    <3>4. /\ LastSays(Append(sessionEvents[n], e), m, ty) <=>
               IF e.host = m THEN e.type = ty ELSE LastSays(sessionEvents[n], m, ty)
          /\ NoneSays(Append(sessionEvents[n], e), m) <=>
               e.host # m /\ NoneSays(sessionEvents[n], m)
      BY Zenon, <3>1, <3>3, AppendSays
    <3> QED BY <2>1, <3>1, <3>2, <3>4
  <2>2. CASE n \notin Ends(s)
    <3>1. sessionEvents'[n] = sessionEvents[n] BY <1>2, <2>2 DEF Establish
    <3> QED BY <2>2, <3>1
  <2> QED BY <2>1, <2>2
<1>3. ASSUME NEW k \in Node, Lose(k, s)
      PROVE  /\ LastSays(sessionEvents'[n], m, ty) <=>
                  IF n = k /\ OtherEnd(n, s) = m THEN ty = "disconnected"
                  ELSE LastSays(sessionEvents[n], m, ty)
             /\ NoneSays(sessionEvents'[n], m) <=>
                  ~(n = k /\ OtherEnd(n, s) = m) /\ NoneSays(sessionEvents[n], m)
  <2>1. CASE n = k
    <3> DEFINE e == [type |-> "disconnected", host |-> OtherEnd(n, s)]
    <3>1. e \in SessionChange /\ e.host = OtherEnd(n, s) /\ e.type = "disconnected"
      BY <1>1, <1>3, <2>1 DEF Lose
    <3>2. sessionEvents'[n] = Append(sessionEvents[n], e) BY <1>0, <1>3, <2>1 DEF Lose
    <3> HIDE DEF e
    <3>3. sessionEvents[n] \in Seq(SessionChange) BY <1>0
    <3>4. /\ LastSays(Append(sessionEvents[n], e), m, ty) <=>
               IF e.host = m THEN e.type = ty ELSE LastSays(sessionEvents[n], m, ty)
          /\ NoneSays(Append(sessionEvents[n], e), m) <=>
               e.host # m /\ NoneSays(sessionEvents[n], m)
      BY <3>1, <3>3, AppendSays
    <3> QED BY <2>1, <3>1, <3>2, <3>4
  <2>2. CASE n # k
    <3>1. sessionEvents'[n] = sessionEvents[n] BY <1>0, <1>3, <2>2 DEF Lose
    <3> QED BY <2>2, <3>1
  <2> QED BY <2>1, <2>2
<1> QED BY <1>2, <1>3

\* Setting up and losing sessions: the event appended says what became of them.
LEMMA SessionsStep ==
    ASSUME TypeOK, SessionsOK, EventsTell,
           \/ \E s \in Session : Establish(s)
           \/ \E k \in Node : \E s \in Session : Lose(k, s)
    PROVE  SessionsOK' /\ EventsTell'
<1>0. sessions \in [Node -> SUBSET Session] /\ doubled \in [Node -> SUBSET Node]
  BY DEF TypeOK
<1>1. ASSUME NEW s \in Session, Establish(s) PROVE SessionsOK' /\ EventsTell'
  <2>1. ASSUME NEW n \in Node, NEW t \in sessions'[n] PROVE n \in Ends(t)
    BY Zenon, <1>1, <2>1 DEF Establish, SessionsOK
  <2>2. ASSUME NEW n \in Node, NEW m \in Node, m \notin doubled'[n]
        PROVE  /\ m \notin doubled[n]
               /\ n \in Ends(s) /\ OtherEnd(n, s) = m => Between(n, m) = {}
    BY Zenon, <1>1, <2>2 DEF Establish
  <2>3. ASSUME NEW n \in Node, NEW m \in Node, m \notin doubled'[n]
        PROVE  \A t, u \in Between(n, m)' : t = u
    BY <1>1, <2>2, <2>3, BetweenFacts DEF SessionsOK
  <2>4. ASSUME NEW n \in Node, NEW m \in Node, m \notin doubled'[n]
        PROVE  /\ LastSays(sessionEvents'[n], m, "connected") => Between(n, m)' # {}
               /\ LastSays(sessionEvents'[n], m, "disconnected") => Between(n, m)' = {}
               /\ NoneSays(sessionEvents'[n], m) =>
                    (m \in members'[n] <=> Between(n, m)' # {})
    <3>1. UNCHANGED members BY Zenon, <1>1 DEF Establish
    <3> DEFINE here == n \in Ends(s) /\ OtherEnd(n, s) = m
    <3>2. Between(n, m)' = IF here THEN Between(n, m) \cup {s} ELSE Between(n, m)
      BY Zenon, <1>1, BetweenFacts
    <3>3. /\ \A ty : LastSays(sessionEvents'[n], m, ty) <=>
                      IF here THEN ty = "connected" ELSE LastSays(sessionEvents[n], m, ty)
          /\ NoneSays(sessionEvents'[n], m) <=> ~here /\ NoneSays(sessionEvents[n], m)
      BY Zenon, <1>1, EventFacts
    <3>4. /\ LastSays(sessionEvents[n], m, "connected") => Between(n, m) # {}
          /\ LastSays(sessionEvents[n], m, "disconnected") => Between(n, m) = {}
          /\ NoneSays(sessionEvents[n], m) => (m \in members[n] <=> Between(n, m) # {})
      BY Zenon, <2>2, <2>4 DEF EventsTell
    <3>5. "disconnected" # "connected" OBVIOUS
    <3> HIDE DEF here
    <3>6. CASE here
      BY Zenon, <3>2, <3>3, <3>5, <3>6
    <3>7. CASE ~here
      BY Zenon, <3>1, <3>2, <3>3, <3>4, <3>7
    <3> QED BY Zenon, <3>6, <3>7
  <2> QED BY Zenon, <2>1, <2>3, <2>4 DEF SessionsOK, EventsTell
<1>2. ASSUME NEW k \in Node, NEW s \in Session, Lose(k, s) PROVE SessionsOK' /\ EventsTell'
  <2>1. ASSUME NEW n \in Node, NEW t \in sessions'[n] PROVE n \in Ends(t)
    <3>1. t \in sessions[n] BY <1>0, <1>2, <2>1 DEF Lose
    <3> QED BY <3>1 DEF SessionsOK
  <2>2. UNCHANGED <<doubled, members>> BY <1>2 DEF Lose
  <2>3. ASSUME NEW n \in Node, NEW m \in Node, m \notin doubled[n]
        PROVE  /\ \A t, u \in Between(n, m)' : t = u
               /\ n = k /\ OtherEnd(n, s) = m => Between(n, m)' = {}
    <3>1. \A t, u \in Between(n, m) : t = u BY <2>3 DEF SessionsOK
    <3>2. n = k /\ OtherEnd(n, s) = m => s \in Between(n, m) BY <1>2 DEF Lose, Between
    <3> QED BY <1>2, <3>1, <3>2, BetweenFacts
  <2>4. ASSUME NEW n \in Node, NEW m \in Node, m \notin doubled[n]
        PROVE  /\ LastSays(sessionEvents'[n], m, "connected") => Between(n, m)' # {}
               /\ LastSays(sessionEvents'[n], m, "disconnected") => Between(n, m)' = {}
               /\ NoneSays(sessionEvents'[n], m) =>
                    (m \in members'[n] <=> Between(n, m)' # {})
    <3> DEFINE here == n = k /\ OtherEnd(n, s) = m
    <3>1. here => Between(n, m)' = {}
      BY Zenon, <2>3, <2>4
    <3>2. ~here => Between(n, m)' = Between(n, m)
      BY Zenon, <1>2, BetweenFacts
    <3>3. /\ \A ty : LastSays(sessionEvents'[n], m, ty) <=>
                      IF here THEN ty = "disconnected" ELSE LastSays(sessionEvents[n], m, ty)
          /\ NoneSays(sessionEvents'[n], m) <=> ~here /\ NoneSays(sessionEvents[n], m)
      BY Zenon, <1>2, EventFacts
    <3>4. /\ LastSays(sessionEvents[n], m, "connected") => Between(n, m) # {}
          /\ LastSays(sessionEvents[n], m, "disconnected") => Between(n, m) = {}
          /\ NoneSays(sessionEvents[n], m) => (m \in members[n] <=> Between(n, m) # {})
      BY Zenon, <2>4 DEF EventsTell
    <3>5. "connected" # "disconnected" OBVIOUS
    <3> HIDE DEF here
    <3>6. CASE here
      BY Zenon, <3>1, <3>3, <3>5, <3>6
    <3>7. CASE ~here
      BY Zenon, <2>2, <3>2, <3>3, <3>4, <3>7
    <3> QED BY Zenon, <3>6, <3>7
  <2>5. doubled' = doubled
    BY Zenon, <2>2
  <2> QED BY Zenon, <2>1, <2>3, <2>4, <2>5 DEF SessionsOK, EventsTell
<1> QED BY <1>1, <1>2

\* Membership does what the event it handles says.
LEMMA MembershipTracks ==
    ASSUME TypeOK, SessionsOK, EventsTell, NEW n \in Node,
           OnSessionConnected(n) \/ OnSessionDisconnected(n)
    PROVE  SessionsOK' /\ EventsTell'
<1>0. /\ sessionEvents \in [Node -> Seq(SessionChange)] /\ members \in [Node -> SUBSET Node]
  BY Zenon DEF TypeOK, SessionChange
<1>1. UNCHANGED <<sessions, doubled>>
  BY DEF OnSessionConnected, OnSessionDisconnected, net
<1>2. SessionsOK' BY <1>1 DEF SessionsOK, Between
<1> DEFINE ev == sessionEvents[n]
           h == Head(ev).host
<1>3. /\ ev \in Seq(SessionChange) /\ ev # <<>>
      /\ sessionEvents' = [sessionEvents EXCEPT ![n] = Tail(ev)]
  BY <1>0 DEF OnSessionConnected, OnSessionDisconnected, SessionEvent
<1>4. h \in Node
  <2>1. Head(ev) \in SessionChange BY <1>3
  <2> QED BY <2>1 DEF SessionChange
<1>5. /\ \A k \in Node : k # n => members'[k] = members[k] /\ sessionEvents'[k] = sessionEvents[k]
      /\ \A m \in Node : m # h => (m \in members'[n] <=> m \in members[n])
      /\ sessionEvents'[n] = Tail(ev)
      /\ \/ Head(ev).type = "connected" /\ h \in members'[n]
         \/ Head(ev).type = "disconnected" /\ h \notin members'[n]
  <2>1. \A k \in Node : k # n => sessionEvents'[k] = sessionEvents[k] BY <1>0, <1>3
  <2>2. sessionEvents'[n] = Tail(ev) BY <1>0, <1>3
  <2>3. \/ /\ Head(ev).type = "connected"
           /\ \/ h \in members[n] /\ UNCHANGED members
              \/ members' = [members EXCEPT ![n] = @ \cup {h}]
        \/ /\ Head(ev).type = "disconnected"
           /\ \/ h \notin members[n] /\ UNCHANGED members
              \/ members' = [members EXCEPT ![n] = @ \ {h}]
    BY DEF OnSessionConnected, OnSessionDisconnected, SessionEvent
  <2> HIDE DEF ev, h
  <2> QED BY <1>0, <2>1, <2>2, <2>3
<1> HIDE DEF h
<1>6. ASSUME NEW k \in Node, NEW m \in Node, m \notin doubled[k]
      PROVE  /\ LastSays(sessionEvents'[k], m, "connected") => Between(k, m) # {}
             /\ LastSays(sessionEvents'[k], m, "disconnected") => Between(k, m) = {}
             /\ NoneSays(sessionEvents'[k], m) => (m \in members'[k] <=> Between(k, m) # {})
  <2>1. CASE k # n BY <1>5, <1>6, <2>1 DEF EventsTell
  <2>2. CASE k = n
    <3>1. /\ LastSays(ev, m, "connected") => Between(n, m) # {}
          /\ LastSays(ev, m, "disconnected") => Between(n, m) = {}
          /\ NoneSays(ev, m) => (m \in members[n] <=> Between(n, m) # {})
      BY <1>6, <2>2 DEF EventsTell
    <3>2. \A ty : /\ LastSays(ev, m, ty) <=>
                       \/ LastSays(Tail(ev), m, ty)
                       \/ NoneSays(Tail(ev), m) /\ h = m /\ Head(ev).type = ty
                  /\ NoneSays(ev, m) <=> NoneSays(Tail(ev), m) /\ h # m
      BY Zenon, <1>3, TailSays DEF h
    <3> HIDE DEF ev
    <3> QED BY Zenon, <1>5, <2>2, <3>1, <3>2
  <2> QED BY <2>1, <2>2
<1>7. \A k, m \in Node : Between(k, m)' = Between(k, m) BY <1>1 DEF Between
<1>8. EventsTell' BY ZenonT(40), <1>1, <1>6, <1>7 DEF EventsTell
<1> QED BY <1>2, <1>8

-----------------------------------------------------------------------------
(* Messages.                                                               *)

\* Delivering a new message, and beginning to send it on.
LEMMA DeliverKeeps ==
    ASSUME TypeOK, DeliveredOnce, SendersKnow, DiallerExcludesSender,
           NEW n \in Node, NEW i \in Id, i \notin seen[n], NEW peers \in SUBSET Node,
           NEW s \in Session \cup {Nil}, Deliver(n, i, peers, s), inflight' \subseteq inflight,
           \A t \in Session : Dialler(t) = n /\ Acceptor(t) \in peers => t # s
    PROVE  DeliveredOnce' /\ SendersKnow' /\ DiallerExcludesSender'
<1>0. /\ seen \in [Node -> SUBSET Id] /\ delivered \in [Node -> [Id -> Nat]]
      /\ sending \in [Node -> [id : Id \cup {Nil}, to : SUBSET Node]]
      /\ inflight \subseteq Packet /\ learned \in [Node -> [Id -> Session \cup {Nil}]]
  BY DEF TypeOK
<1>1. /\ \A k \in Node : k # n => seen'[k] = seen[k] /\ sending'[k] = sending[k]
      /\ seen'[n] = seen[n] \cup {i} /\ sending'[n] = SendingOf(i, peers)
  BY <1>0 DEF Deliver
<1>2. /\ \A k \in Node, j \in Id : k # n \/ j # i => learned'[k][j] = learned[k][j]
      /\ learned'[n][i] = s
  BY <1>0 DEF Deliver
<1>3. /\ \A k \in Node, j \in Id : k # n \/ j # i => delivered'[k][j] = delivered[k][j]
      /\ delivered'[n][i] = delivered[n][i] + 1
  BY <1>0 DEF Deliver
<1>4. DeliveredOnce'
  <2>1. ASSUME NEW k \in Node, NEW j \in Id
        PROVE  delivered'[k][j] = IF j \in seen'[k] THEN 1 ELSE 0
    <3>1. CASE k = n /\ j = i BY <1>1, <1>3, <3>1 DEF DeliveredOnce
    <3>2. CASE ~(k = n /\ j = i) BY <1>1, <1>3, <3>2 DEF DeliveredOnce
    <3> QED BY <3>1, <3>2
  <2> QED BY <2>1 DEF DeliveredOnce
<1>5. ASSUME NEW pkt \in inflight'
      PROVE  /\ pkt.to \in Ends(pkt.via) /\ pkt.id \in Id /\ pkt.via \in Session
             /\ OtherEnd(pkt.to, pkt.via) \in Node
             /\ pkt.id \in seen[OtherEnd(pkt.to, pkt.via)]
  <2>1. pkt \in inflight /\ pkt \in Packet BY <1>0, <1>5
  <2>2. pkt.via \in Session /\ pkt.id \in Id BY <2>1 DEF Packet
  <2> QED BY <2>1, <2>2, EndFacts DEF SendersKnow
<1>6. SendersKnow'
  <2>1. ASSUME NEW k \in Node, NEW m \in sending'[k].to
        PROVE  /\ sending'[k].id \in seen'[k]
               /\ \A t \in Session : Dialler(t) = k /\ Acceptor(t) = m =>
                    learned'[k][sending'[k].id] # t
    <3>1. CASE k = n
      <4>1. m \in peers /\ sending'[n].id = i BY <1>1, <2>1, <3>1, RecordTypes
      <4> QED BY <1>1, <1>2, <3>1, <4>1
    <3>2. CASE k # n
      <4>1. /\ m \in sending[k].to /\ sending'[k].id = sending[k].id
            /\ sending[k].id \in seen[k]
        BY <1>1, <2>1, <3>2 DEF SendersKnow
      <4>2. sending[k].id \in Id BY <1>0, <4>1
      <4>3. \A t \in Session : Dialler(t) = k /\ Acceptor(t) = m =>
              learned[k][sending[k].id] # t
        BY Zenon, <4>1 DEF SendersKnow
      <4>4. learned'[k][sending[k].id] = learned[k][sending[k].id] /\ sending[k].id \in seen'[k]
        BY <1>1, <1>2, <3>2, <4>1, <4>2
      <4> QED BY Zenon, <4>1, <4>3, <4>4
    <3> QED BY <3>1, <3>2
  <2>2. ASSUME NEW pkt \in inflight'
        PROVE  pkt.to \in Ends(pkt.via) /\ pkt.id \in seen'[OtherEnd(pkt.to, pkt.via)]
    BY <1>1, <1>5
  <2> QED BY <2>1, <2>2 DEF SendersKnow
<1>7. DiallerExcludesSender'
  <2>1. ASSUME NEW pkt \in inflight', OtherEnd(pkt.to, pkt.via) = Dialler(pkt.via)
        PROVE  learned'[OtherEnd(pkt.to, pkt.via)][pkt.id] # pkt.via
    <3> DEFINE k == OtherEnd(pkt.to, pkt.via)
    <3>1. pkt.id \in Id /\ k \in Node /\ pkt.id \in seen[k] BY <1>5
    <3>2. k # n \/ pkt.id # i BY <3>1
    <3>3. learned[k][pkt.id] # pkt.via BY <2>1 DEF DiallerExcludesSender
    <3> QED BY <1>2, <3>1, <3>2, <3>3
  <2> QED BY <2>1 DEF DiallerExcludesSender
<1> QED BY <1>4, <1>6, <1>7

\* Broadcasting, receiving, forwarding and losing messages.
LEMMA MessageStep ==
    ASSUME TypeOK, SessionsOK, DeliveredOnce, SendersKnow, DiallerExcludesSender,
           \/ \E n \in Node : \/ \E i \in Id : disseminate(n, i)
                              \/ \E pkt \in inflight : handleInbound(n, pkt)
                              \/ \E m \in Node : fanout(n, m)
           \/ \E pkt \in inflight : LosePacket(pkt)
    PROVE  DeliveredOnce' /\ SendersKnow' /\ DiallerExcludesSender'
<1>0. /\ view \in [Node -> SUBSET Node] /\ inflight \subseteq Packet
      /\ sending \in [Node -> [id : Id \cup {Nil}, to : SUBSET Node]]
      /\ sessions \in [Node -> SUBSET Session]
  BY DEF TypeOK
<1>1. ASSUME NEW n \in Node, NEW i \in Id, disseminate(n, i)
      PROVE  DeliveredOnce' /\ SendersKnow' /\ DiallerExcludesSender'
  <2>1. Deliver(n, i, view[n], Nil) /\ i \notin seen[n] /\ inflight' = inflight
    BY Zenon, <1>1 DEF disseminate, net
  <2>2. \A t \in Session : t # Nil BY GossipAssumption
  <2>3. view[n] \in SUBSET Node /\ Nil \in Session \cup {Nil} /\ inflight' \subseteq inflight
    BY Zenon, <1>0, <2>1
  <2>4. \A t \in Session : Dialler(t) = n /\ Acceptor(t) \in view[n] => t # Nil
    BY Zenon, <2>2
  <2> QED BY <2>1, <2>3, <2>4, DeliverKeeps
<1>2. ASSUME UNCHANGED <<seen, delivered, sending, learned>>, inflight' \subseteq inflight
      PROVE  DeliveredOnce' /\ SendersKnow' /\ DiallerExcludesSender'
  <2>1. DeliveredOnce' BY <1>2 DEF DeliveredOnce
  <2>2. SendersKnow' BY Zenon, <1>2 DEF SendersKnow
  <2>3. DiallerExcludesSender' BY <1>2 DEF DiallerExcludesSender
  <2> QED BY <2>1, <2>2, <2>3
<1>3. ASSUME NEW n \in Node, NEW pkt \in inflight, handleInbound(n, pkt)
      PROVE  DeliveredOnce' /\ SendersKnow' /\ DiallerExcludesSender'
  <2>1. pkt.via \in Session /\ pkt.id \in Id /\ inflight' \subseteq inflight
    BY Zenon, <1>0, <1>3 DEF Packet, handleInbound
  <2>2. CASE UNCHANGED gossip BY <1>2, <2>1, <2>2 DEF gossip
  <2>3. CASE /\ pkt.id \notin seen[n]
             /\ Deliver(n, pkt.id, view[n] \ {SenderName(n, pkt.via)}, pkt.via)
    <3>1. \A t \in Session :
            Dialler(t) = n /\ Acceptor(t) \in view[n] \ {SenderName(n, pkt.via)} => t # pkt.via
      BY DEF SenderName
    <3> QED BY Zenon, <1>0, <2>1, <2>3, <3>1, DeliverKeeps
  <2> QED BY Zenon, <1>3, <2>2, <2>3 DEF handleInbound
<1>4. ASSUME NEW n \in Node, NEW m \in Node, fanout(n, m)
      PROVE  DeliveredOnce' /\ SendersKnow' /\ DiallerExcludesSender'
  <2>1. UNCHANGED <<seen, delivered, learned>> /\ m \in sending[n].to BY Zenon, <1>4 DEF fanout
  <2>2. /\ \A k \in Node : k # n => sending'[k] = sending[k]
        /\ sending'[n] = SendingOf(sending[n].id, sending[n].to \ {m})
    <3>1. sending' = [sending EXCEPT ![n] = SendingOf(sending[n].id, sending[n].to \ {m})]
      BY Zenon, <1>4 DEF fanout
    <3> QED BY <1>0, <3>1
  <2>3. ASSUME NEW k \in Node, NEW j \in sending'[k].to
        PROVE  j \in sending[k].to /\ sending'[k].id = sending[k].id
    BY SMTT(30), <2>2, <2>3, RecordTypes
  <2>4. ASSUME NEW pkt \in inflight', pkt \notin inflight
        PROVE  /\ pkt.via \in Session /\ n \in Ends(pkt.via) /\ OtherEnd(n, pkt.via) = m
               /\ pkt.to = m /\ pkt.id = sending[n].id
    <3>1. PICK s \in Between(n, m) : pkt = PacketOf(s, m, sending[n].id)
      BY Zenon, <1>4, <2>4 DEF fanout
    <3>2. s \in Session /\ n \in Ends(s) /\ OtherEnd(n, s) = m
      BY Zenon, <1>0, <3>1 DEF Between, SessionsOK
    <3> QED BY <3>1, <3>2 DEF PacketOf
  <2>5. ASSUME NEW pkt \in inflight', pkt \notin inflight
        PROVE  OtherEnd(pkt.to, pkt.via) = n /\ pkt.to \in Ends(pkt.via)
    BY SMTT(30), <2>4, <2>5, EndFacts
  <2>6. SendersKnow'
    <3>1. ASSUME NEW k \in Node, NEW j \in sending'[k].to
          PROVE  /\ sending'[k].id \in seen'[k]
                 /\ \A t \in Session : Dialler(t) = k /\ Acceptor(t) = j =>
                      learned'[k][sending'[k].id] # t
      BY Zenon, <2>1, <2>3, <3>1 DEF SendersKnow
    <3>2. ASSUME NEW pkt \in inflight'
          PROVE  pkt.to \in Ends(pkt.via) /\ pkt.id \in seen'[OtherEnd(pkt.to, pkt.via)]
      BY Zenon, <2>1, <2>4, <2>5, <3>2 DEF SendersKnow
    <3> QED BY Zenon, <3>1, <3>2 DEF SendersKnow
  <2>7. DiallerExcludesSender'
    <3>1. ASSUME NEW pkt \in inflight', OtherEnd(pkt.to, pkt.via) = Dialler(pkt.via)
          PROVE  learned'[OtherEnd(pkt.to, pkt.via)][pkt.id] # pkt.via
      <4>1. CASE pkt \in inflight BY <2>1, <3>1, <4>1 DEF DiallerExcludesSender
      <4>2. CASE pkt \notin inflight
        <5>1. n = Dialler(pkt.via) /\ m = Acceptor(pkt.via)
          BY Zenon, <2>4, <2>5, <3>1, <4>2 DEF OtherEnd
        <5> QED BY Zenon, <2>1, <2>4, <2>5, <4>2, <5>1 DEF SendersKnow
      <4> QED BY <4>1, <4>2
    <3> QED BY Zenon, <3>1 DEF DiallerExcludesSender
  <2>8. DeliveredOnce' BY <2>1 DEF DeliveredOnce
  <2> QED BY <2>6, <2>7, <2>8
<1>5. ASSUME NEW pkt \in inflight, LosePacket(pkt)
      PROVE  DeliveredOnce' /\ SendersKnow' /\ DiallerExcludesSender'
  BY Zenon, <1>2, <1>5 DEF LosePacket, gossip
<1> QED BY <1>1, <1>3, <1>4, <1>5

-----------------------------------------------------------------------------
(* Every step.                                                             *)

\* The first state satisfies the invariant.
LEMMA InvInit ==
    ASSUME Init PROVE IInv
<1>1. TypeOK
  <2>1. Idle \in [id : Id \cup {Nil}, to : SUBSET Node] BY Zenon DEF Idle
  <2> QED BY <2>1, GossipAssumption DEF Init, TypeOK
<1>2. DeliveredOnce BY DEF Init, DeliveredOnce
<1>3. SessionsOK BY DEF Init, SessionsOK, Between
<1>4. EventsTell
  <2>1. \A m, ty : ~LastSays(<<>>, m, ty) BY DEF LastSays
  <2>2. \A n \in Node : sessionEvents[n] = <<>> /\ members[n] = {} /\ sessions[n] = {}
    BY DEF Init
  <2> QED BY <2>1, <2>2 DEF EventsTell, Between
<1>5. SendersKnow BY DEF Init, SendersKnow, Idle
<1>6. DiallerExcludesSender BY DEF Init, DiallerExcludesSender
<1> QED BY <1>1, <1>2, <1>3, <1>4, <1>5, <1>6 DEF IInv

\* Every step keeps it.
LEMMA InvStep ==
    ASSUME IInv, [Next]_vars PROVE IInv'
<1> USE DEF IInv
<1>1. ASSUME UNCHANGED <<sessions, doubled, sessionEvents, members>>
      PROVE  SessionsOK' /\ EventsTell'
  BY ZenonT(40), <1>1 DEF SessionsOK, EventsTell, Between
<1>2. ASSUME UNCHANGED <<inflight, gossip>>
      PROVE  DeliveredOnce' /\ SendersKnow' /\ DiallerExcludesSender'
  BY SMTT(30), <1>2 DEF DeliveredOnce, SendersKnow, DiallerExcludesSender, gossip
<1>3. ASSUME NEW n \in Node, MembershipStep(n) PROVE IInv'
  <2>1. TypeOK' BY <1>3, MembershipTypes
  <2>2. UNCHANGED <<inflight, gossip>>
    BY Zenon, <1>3 DEF MembershipStep, OnSessionConnected, OnSessionDisconnected,
                publishNotification, handleGetView, net
  <2>3. SessionsOK' /\ EventsTell'
    <3>1. CASE OnSessionConnected(n) \/ OnSessionDisconnected(n)
      BY <3>1, MembershipTracks
    <3>2. CASE publishNotification(n) \/ handleGetView(n)
      BY <1>1, <3>2 DEF publishNotification, handleGetView, net, membership
    <3> QED BY <1>3, <3>1, <3>2 DEF MembershipStep
  <2> QED BY <1>2, <2>1, <2>2, <2>3
<1>4. ASSUME NEW n \in Node,
             handleInitialView(n) \/ initialViewFails(n) \/ handleViewChanged(n)
      PROVE  IInv'
  <2>1. UNCHANGED <<sessions, doubled, sessionEvents, members, inflight, gossip>>
    BY <1>4 DEF handleInitialView, initialViewFails, handleViewChanged, net, membership
  <2> QED BY <1>1, <1>2, <1>4, <2>1, CacheTypes
<1>5. ASSUME NEW n \in Node,
             \/ \E i \in Id : disseminate(n, i)
             \/ \E pkt \in inflight : handleInbound(n, pkt)
             \/ \E m \in Node : fanout(n, m)
      PROVE  IInv'
  <2>1. TypeOK' BY <1>5, MessageTypes
  <2>2. DeliveredOnce' /\ SendersKnow' /\ DiallerExcludesSender' BY <1>5, MessageStep
  <2>3. UNCHANGED <<sessions, doubled, sessionEvents, members>>
    BY Zenon, <1>5 DEF disseminate, handleInbound, fanout, net, membership
  <2> QED BY <1>1, <2>1, <2>2, <2>3
<1>6. ASSUME NEW pkt \in inflight, LosePacket(pkt) PROVE IInv'
  <2>1. TypeOK' BY <1>6, NetTypes
  <2>2. DeliveredOnce' /\ SendersKnow' /\ DiallerExcludesSender' BY <1>6, MessageStep
  <2>3. UNCHANGED <<sessions, doubled, sessionEvents, members>>
    BY <1>6 DEF LosePacket, membership
  <2> QED BY <1>1, <2>1, <2>2, <2>3
<1>7. ASSUME \/ \E s \in Session : Establish(s)
             \/ \E n \in Node : \E s \in Session : Lose(n, s)
      PROVE  IInv'
  <2>1. TypeOK' BY <1>7, NetTypes
  <2>2. SessionsOK' /\ EventsTell' BY <1>7, SessionsStep
  <2>3. UNCHANGED <<inflight, gossip>> BY Zenon, <1>7 DEF Establish, Lose
  <2> QED BY <1>2, <2>1, <2>2, <2>3
<1>8. ASSUME UNCHANGED vars PROVE IInv'
  <2>1. TypeOK' BY Zenon, <1>8 DEF TypeOK, vars, net, membership, cache, gossip
  <2>2. UNCHANGED <<sessions, doubled, sessionEvents, members, inflight, gossip>>
    BY <1>8 DEF vars, net, membership
  <2> QED BY <1>1, <1>2, <2>1, <2>2
<1> QED BY <1>3, <1>4, <1>5, <1>6, <1>7, <1>8 DEF Next, GossipStep

\* The invariant holds in every reachable state.
THEOREM GossipInvariant == Spec => []IInv
<1>1. Init => IInv BY InvInit
<1>2. IInv /\ [Next]_vars => IInv' BY InvStep
<1> QED BY <1>1, <1>2, PTL DEF Spec

\* Every variable keeps its type; gossip's mailbox of notifications never holds
\* more than its capacity.
THEOREM TypeCorrect == Spec => []TypeOK
<1>1. IInv => TypeOK BY DEF IInv
<1> QED BY <1>1, GossipInvariant, PTL

\* onDeliver is called once for every id a node has seen and never for the
\* others, however many peers send it and however often (handleInbound).
THEOREM DeliversOnce == Spec => []DeliveredOnce
<1>1. IInv => DeliveredOnce BY DEF IInv
<1> QED BY <1>1, GossipInvariant, PTL

\* The end of a session that dialled it never sends a message back over the
\* session the message came by (fanout and the exclusion in handleInbound).
THEOREM SenderExcluded == Spec => []DiallerExcludesSender
<1>1. IInv => DiallerExcludesSender BY DEF IInv
<1> QED BY <1>1, GossipInvariant, PTL

\* With no session event left to handle, membership's view is the peers there
\* is a session with, as long as there has not been a second one at the same
\* time (OnSessionConnected, OnSessionDisconnected).
THEOREM ViewTracks == Spec => []MemberTracks
<1>1. IInv => MemberTracks
  <2>1. \A m : NoneSays(<<>>, m) BY DEF NoneSays
  <2> QED BY Zenon, <2>1 DEF IInv, EventsTell, MemberTracks, MembershipIdle
<1> QED BY <1>1, GossipInvariant, PTL

-----------------------------------------------------------------------------
(* The cache.                                                              *)

\* What the notifications on their way say stays the same when the first of
\* them is handled: the next view has taken it over.
LEMMA HandledChange ==
    ASSUME NEW ch \in Seq(Change), ch # <<>>, NEW m, NEW peers
    PROVE  (\/ LastSays(ch, m, "added")
            \/ NoneSays(ch, m) /\ m \in peers)
           <=> (\/ LastSays(Tail(ch), m, "added")
                \/ NoneSays(Tail(ch), m) /\ m \in Apply(peers, Head(ch)))
<1>1. Head(ch) \in Change OBVIOUS
<1>2. Head(ch).type \in {"added", "removed"} BY <1>1 DEF Change
<1>3. m \in Apply(peers, Head(ch)) <=>
        IF Head(ch).host = m THEN Head(ch).type = "added" ELSE m \in peers
  BY <1>2 DEF Apply
<1>4. /\ LastSays(ch, m, "added") <=>
           \/ LastSays(Tail(ch), m, "added")
           \/ NoneSays(Tail(ch), m) /\ Head(ch).host = m /\ Head(ch).type = "added"
      /\ NoneSays(ch, m) <=> NoneSays(Tail(ch), m) /\ Head(ch).host # m
  BY TailSays
<1> QED BY <1>3, <1>4, Zenon

\* Membership's step: a change of the view is published with it.
LEMMA PublishedAgrees ==
    ASSUME TypeOK, NEW n \in Node, NEW k \in Node, CacheAgrees(k),
           OnSessionConnected(n) \/ OnSessionDisconnected(n)
    PROVE  CacheAgrees(k)'
<1>0. /\ members \in [Node -> SUBSET Node] /\ publishing \in [Node -> Change \cup {Nil}]
      /\ notificationEvents \in [Node -> Seq(Change)]
  BY DEF TypeOK
<1>1. UNCHANGED <<notificationEvents, view>>
  BY Zenon DEF OnSessionConnected, OnSessionDisconnected, cache
<1>2. CASE members'[k] = members[k] /\ publishing'[k] = publishing[k]
  BY <1>1, <1>2 DEF CacheAgrees, CaughtUp, Pending
<1>3. ASSUME NEW ty, NEW h \in Node, publishing[k] = Nil, publishing'[k] = ChangeOf(ty, h),
             \/ ty = "added" /\ members'[k] = members[k] \cup {h}
             \/ ty = "removed" /\ members'[k] = members[k] \ {h}
      PROVE  CacheAgrees(k)'
  <2> DEFINE ch == notificationEvents[k]
             e == ChangeOf(ty, h)
  <2>1. e \in Change /\ e.host = h /\ e.type = ty BY Zenon, <1>3, RecordTypes DEF ChangeOf
  <2>2. Pending(k) = ch /\ Pending(k)' = Append(ch, e) /\ ch \in Seq(Change)
    <3>1. e # Nil BY <2>1, GossipAssumption
    <3> QED BY <1>0, <1>1, <1>3, <3>1 DEF Pending
  <2> HIDE DEF ch, e
  <2>3. \A m \in Node :
          /\ LastSays(Append(ch, e), m, "added") <=>
               IF e.host = m THEN e.type = "added" ELSE LastSays(ch, m, "added")
          /\ NoneSays(Append(ch, e), m) <=> e.host # m /\ NoneSays(ch, m)
    BY Zenon, <2>1, <2>2, AppendSays
  <2>4. ASSUME NEW m \in Node
        PROVE  (\/ LastSays(Append(ch, e), m, "added")
                \/ NoneSays(Append(ch, e), m) /\ m \in view'[k]) <=> m \in members'[k]
    <3>1. (LastSays(ch, m, "added") \/ (NoneSays(ch, m) /\ m \in view[k])) <=> m \in members[k]
      <4>1. m \in CaughtUp(k) <=> m \in members[k] BY DEF CacheAgrees
      <4>2. m \in CaughtUp(k) <=>
              LastSays(ch, m, "added") \/ (NoneSays(ch, m) /\ m \in view[k])
        BY <2>2, Zenon DEF CaughtUp
      <4> QED BY <4>1, <4>2, Zenon
    <3>2. view'[k] = view[k] BY <1>1
    <3>3. m \in members'[k] <=> IF h = m THEN ty = "added" ELSE m \in members[k] BY <1>3
    <3> QED BY <2>1, <2>3, <3>1, <3>2, <3>3, Zenon
  <2>5. members'[k] \subseteq Node BY Zenon, <1>0, <1>3
  <2> QED BY <2>2, <2>4, <2>5 DEF CacheAgrees, CaughtUp
<1>4. CASE k = n
  <2>1. publishing[n] = Nil /\ Head(sessionEvents[n]).host \in Node
    <3>1. /\ publishing[n] = Nil /\ sessionEvents[n] # <<>>
          /\ sessionEvents[n] \in Seq(SessionChange)
      BY Zenon DEF OnSessionConnected, OnSessionDisconnected, SessionEvent, TypeOK, SessionChange
    <3>2. Head(sessionEvents[n]) \in SessionChange BY SMTT(30), <3>1
    <3> QED BY <3>1, <3>2 DEF SessionChange
  <2> DEFINE h == Head(sessionEvents[n]).host
             Publishes(ty, peers) == /\ members' = [members EXCEPT ![n] = peers]
                                     /\ publishing' = [publishing EXCEPT ![n] = ChangeOf(ty, h)]
  <2>2. \/ UNCHANGED <<members, publishing>>
        \/ Publishes("added", members[n] \cup {h}) \/ Publishes("removed", members[n] \ {h})
    BY Zenon DEF OnSessionConnected, OnSessionDisconnected
  <2> HIDE DEF h
  <2>3. CASE UNCHANGED <<members, publishing>> BY <1>2, <2>3
  <2>4. CASE Publishes("added", members[n] \cup {h})
    <3>1. members'[n] = members[n] \cup {h} /\ publishing'[n] = ChangeOf("added", h)
      BY <1>0, <2>4
    <3> QED BY <1>3, <1>4, <2>1, <3>1 DEF h
  <2>5. CASE Publishes("removed", members[n] \ {h})
    <3>1. members'[n] = members[n] \ {h} /\ publishing'[n] = ChangeOf("removed", h)
      BY <1>0, <2>5
    <3> QED BY <1>3, <1>4, <2>1, <3>1 DEF h
  <2> QED BY <2>2, <2>3, <2>4, <2>5
<1>5. CASE k # n
  BY Zenon, <1>0, <1>2, <1>5 DEF OnSessionConnected, OnSessionDisconnected
<1> QED BY <1>4, <1>5

\* Gossip's step: the notification it handles goes from the mailbox into the
\* cache.
LEMMA HandledAgrees ==
    ASSUME TypeOK, NEW n \in Node, NEW k \in Node, CacheAgrees(k), handleViewChanged(n)
    PROVE  CacheAgrees(k)'
<1>0. /\ publishing \in [Node -> Change \cup {Nil}] /\ view \in [Node -> SUBSET Node]
      /\ notificationEvents \in [Node -> Seq(Change)] /\ members \in [Node -> SUBSET Node]
  BY DEF TypeOK
<1>1. UNCHANGED <<members, publishing>> BY DEF handleViewChanged, membership
<1>2. CASE k # n
  BY <1>0, <1>1, <1>2 DEF handleViewChanged, CacheAgrees, CaughtUp, Pending
<1>3. CASE k = n
  <2> DEFINE ch == notificationEvents[n]
  <2>1. /\ ch \in Seq(Change) /\ ch # <<>> /\ notificationEvents'[n] = Tail(ch)
        /\ view'[n] = Apply(view[n], Head(ch))
    BY <1>0 DEF handleViewChanged
  <2>2. /\ Pending(n) \in Seq(Change) /\ Pending(n) # <<>>
        /\ Head(Pending(n)) = Head(ch) /\ Pending(n)' = Tail(Pending(n))
    <3>1. CASE publishing[n] = Nil BY Zenon, <1>1, <2>1, <3>1 DEF Pending
    <3>2. CASE publishing[n] # Nil
      <4>1. publishing[n] \in Change BY <1>0, <3>2
      <4> DEFINE e == publishing[n]
      <4>2. /\ Append(ch, e) \in Seq(Change) /\ Append(ch, e) # <<>>
            /\ Head(Append(ch, e)) = Head(ch)
        BY <2>1, <4>1
      <4>3. Append(Tail(ch), e) = Tail(Append(ch, e))
        BY <2>1, <4>1
      <4> QED BY <1>1, <2>1, <3>2, <4>2, <4>3 DEF Pending
    <3> QED BY <3>1, <3>2
  <2>3. \A m \in Node :
          (\/ LastSays(Pending(n), m, "added")
           \/ NoneSays(Pending(n), m) /\ m \in view[n])
          <=> (\/ LastSays(Pending(n)', m, "added")
               \/ NoneSays(Pending(n)', m) /\ m \in view'[n])
    <3> DEFINE p == Pending(n)
    <3>1. \A m \in Node :
            (LastSays(p, m, "added") \/ (NoneSays(p, m) /\ m \in view[n]))
            <=> (\/ LastSays(Tail(p), m, "added")
                 \/ NoneSays(Tail(p), m) /\ m \in Apply(view[n], Head(p)))
      <4>1. p \in Seq(Change) /\ p # <<>> BY <2>2
      <4> HIDE DEF p
      <4> QED BY Zenon, <4>1, HandledChange
    <3>2. Tail(p) = Pending(n)' /\ Apply(view[n], Head(p)) = view'[n] BY <2>1, <2>2
    <3> QED BY <3>1, <3>2, Zenon
  <2>4. CaughtUp(n)' = CaughtUp(n) BY Zenon, <2>3 DEF CaughtUp
  <2> QED BY <1>1, <1>3, <2>4 DEF CacheAgrees
<1> QED BY <1>2, <1>3

\* No step but taking over the reply to the initial GetView makes the cache,
\* once caught up, differ from membership's view.
THEOREM CacheStaysRight == Spec => CacheKept
<1>1. ASSUME TypeOK, Next, NEW k \in Node, CacheAgrees(k),
             ~(getView[k] = "answered" /\ getView'[k] = "done")
      PROVE  CacheAgrees(k)'
  <2>0. notificationEvents \in [Node -> Seq(Change)] /\ publishing \in [Node -> Change \cup {Nil}]
    BY <1>1 DEF TypeOK
  <2>1. ASSUME members'[k] = members[k], publishing'[k] = publishing[k],
               notificationEvents'[k] = notificationEvents[k], view'[k] = view[k]
        PROVE  CacheAgrees(k)'
    BY Zenon, <1>1, <2>1 DEF CacheAgrees, CaughtUp, Pending
  <2>2. ASSUME NEW n \in Node, OnSessionConnected(n) \/ OnSessionDisconnected(n)
        PROVE  CacheAgrees(k)'
    BY <1>1, <2>2, PublishedAgrees
  <2>3. ASSUME NEW n \in Node, publishNotification(n) PROVE CacheAgrees(k)'
    <3>1. Pending(k)' = Pending(k) BY <2>0, <2>3 DEF publishNotification, Pending
    <3>2. UNCHANGED <<members, view>> BY <2>3 DEF publishNotification
    <3> QED BY <1>1, <3>1, <3>2 DEF CacheAgrees, CaughtUp
  <2>4. ASSUME NEW n \in Node, handleGetView(n) PROVE CacheAgrees(k)'
    BY <2>1, <2>4 DEF handleGetView, membership
  <2>5. ASSUME NEW n \in Node, handleInitialView(n) PROVE CacheAgrees(k)'
    <3>1. k # n BY <1>1, <2>5 DEF handleInitialView, TypeOK
    <3> QED BY <1>1, <2>1, <2>5, <3>1 DEF handleInitialView, membership, TypeOK
  <2>6. ASSUME NEW n \in Node, initialViewFails(n) PROVE CacheAgrees(k)'
    BY Zenon, <2>1, <2>6 DEF initialViewFails, membership
  <2>7. ASSUME NEW n \in Node, handleViewChanged(n) PROVE CacheAgrees(k)'
    BY Zenon, <1>1, <2>7, HandledAgrees
  <2>8. ASSUME UNCHANGED <<members, publishing, cache>> PROVE CacheAgrees(k)'
    BY <2>1, <2>8 DEF cache
  <2>9. ASSUME NEW n \in Node,
               \/ \E i \in Id : disseminate(n, i)
               \/ \E pkt \in inflight : handleInbound(n, pkt)
               \/ \E m \in Node : fanout(n, m)
               \/ \E s \in Session : Lose(n, s)
        PROVE  CacheAgrees(k)'
    BY Zenon, <2>8, <2>9 DEF disseminate, handleInbound, fanout, Lose, membership
  <2>10. ASSUME \/ \E s \in Session : Establish(s)
                \/ \E pkt \in inflight : LosePacket(pkt)
         PROVE  CacheAgrees(k)'
    BY <2>8, <2>10 DEF Establish, LosePacket, membership
  <2> QED BY Zenon, <1>1, <2>2, <2>3, <2>4, <2>5, <2>6, <2>7, <2>9, <2>10
      DEF Next, MembershipStep, GossipStep
<1>2. TypeOK /\ [Next]_vars =>
        [\A n \in Node :
           CacheAgrees(n) /\ ~(getView[n] = "answered" /\ getView'[n] = "done")
             => CacheAgrees(n)']_vars
  BY <1>1
<1> QED BY <1>2, TypeCorrect, PTL DEF Spec, CacheKept

=============================================================================
