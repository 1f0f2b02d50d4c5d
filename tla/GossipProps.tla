----------------------------- MODULE GossipProps -----------------------------
(***************************************************************************)
(* What the gossip program promises.                                       *)
(***************************************************************************)
EXTENDS Gossip

\* onDeliver is called "exactly once per unique payload" a node observes
\* (gossip/protocol.go 38-40), whatever comes by however many peers: it has
\* been called once for the ids in the seen-set and never for the others.
DeliveredOnce ==
    \A n \in Node, i \in Id : delivered[n][i] = IF i \in seen[n] THEN 1 ELSE 0

\* Membership has handled every session event.
MembershipIdle(n) == sessionEvents[n] = <<>>

\* Membership "tracks the set of peers we are currently session-connected to"
\* (membership/protocol.go 1-3): with no session event left to handle, a peer
\* is in its view if and only if there is a session with it, whatever is lost
\* and dialled again, as long as a node has not had two sessions with the
\* peer at once (OnSessionDisconnected does not ask whether another is up).
MemberTracks ==
    \A n, m \in Node :
        MembershipIdle(n) /\ m \notin doubled[n] =>
            (m \in members[n] <=> Between(n, m) # {})

\* The last change of m in the sequence ch is of type ty; there is none.
LastSays(ch, m, ty) ==
    \E k \in DOMAIN ch : /\ ch[k].host = m /\ ch[k].type = ty
                         /\ \A j \in DOMAIN ch : j > k => ch[j].host # m
NoneSays(ch, m) == \A k \in DOMAIN ch : ch[k].host # m

\* The cache of node n once gossip has handled the notifications published.
Pending(n) ==
    IF publishing[n] = Nil THEN notificationEvents[n]
    ELSE Append(notificationEvents[n], publishing[n])
CaughtUp(n) ==
    {m \in Node : \/ LastSays(Pending(n), m, "added")
                  \/ NoneSays(Pending(n), m) /\ m \in view[n]}
CacheAgrees(n) == CaughtUp(n) = members[n]

\* Notifications are neither lost nor reordered: once caught up, gossip's
\* cache is membership's view, and no step but taking over the reply to the
\* initial GetView can make them differ (gossip/protocol.go 142-159).
CacheKept ==
    [][\A n \in Node :
         CacheAgrees(n) /\ ~(getView[n] = "answered" /\ getView'[n] = "done")
           => CacheAgrees(n)']_vars

\* "... and forwards to every peer except the sender" (gossip/protocol.go
\* 15-16), at the end that dialled: it never sends a message back over the
\* session it came by.  The accepting end does, since it knows the sender by
\* an ephemeral address only.
DiallerExcludesSender ==
    \A pkt \in inflight : LET n == OtherEnd(pkt.to, pkt.via) IN
        n = Dialler(pkt.via) => learned[n][pkt.id] # pkt.via

-----------------------------------------------------------------------------
(* The event loops run.  Nothing forces a session, a broadcast, a loss or  *)
(* a timeout.                                                              *)

FairSpec ==
    Spec /\ \A n \in Node : WF_vars(MembershipStep(n)) /\ WF_vars(GossipStep(n))

\* Every session is up, and each end has the other in its cache for good.
Settled ==
    /\ \A s \in Session : \A n \in Ends(s) : s \in sessions[n] /\ OtherEnd(n, s) \in view[n]
    /\ \A n \in Node : getView[n] = "done" /\ sessionEvents[n] = <<>> /\ Pending(n) = <<>>

\* A message is "forwarded verbatim through the network until every node has
\* seen it once" (gossip/messages.go 12-14): what is broadcast once the views
\* have settled, by any node, reaches all of a connected network.
EveryoneDelivers ==
    \A i \in Id :
        [](Settled /\ (\A n \in Node : i \notin seen[n])
             => []((\E n \in Node : i \in seen[n]) => <>(\A n \in Node : i \in seen[n])))

=============================================================================
