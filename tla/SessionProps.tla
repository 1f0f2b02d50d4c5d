----------------------------- MODULE SessionProps -----------------------------
(***************************************************************************)
(* What the session layer promises, over any transport.                    *)
(***************************************************************************)
EXTENDS Session

Up(t) == sessions[t].state = "Established"

\* The two host maps agree: a logical host resolves to a transport host
\* that is mapped back to it.  setServerMapping overwrites entries without
\* looking at what they held, so this rests on the states in which it is
\* called: a send never goes out on a connection that belongs to another
\* peer (resolveUnderlyingHost, session.go 663-671).
MapsAgree ==
    \A l \in Host : logicalToTransport[l] # Nil =>
        transportToLogical[logicalToTransport[l]] = l

\* Only an established session is in the maps: a session that failed, was
\* closed or is being set up again holds no entry that a send could follow.
MappedIsUp ==
    \A t \in Host : transportToLogical[t] # Nil => Up(t)

\* No phantom peer: a peer whose last event was SessionConnected has an
\* established session that is either mapped to it or, after Disconnect has
\* dropped the entry, is keyed by its own address, so that the transport's
\* next Disconnected or Failed for that session will name this very peer.
NoPhantomPeer ==
    \A l \in announced : \E t \in Host :
        /\ Up(t)
        /\ transportToLogical[t] = l \/ (t = l /\ transportToLogical[t] = Nil)

\* A handshake under way as client was requested for that very address, so
\* that the SessionConnected it will produce names the peer that was dialled
\* (connectClient, session.go 561-566).
ClientNamesPeer ==
    \A t \in Host : sessions[t].state = "HandshakingClient" =>
        t \in Dial /\ sessions[t].logical = t

\* A dialled address is never mapped to another peer.
DialNamesItself ==
    \A t \in Dial : transportToLogical[t] \in {t, Nil}

\* A Hello waiting to be read announces a host, and from a dialled address
\* that address (the assumption on the transport).
HelloNamed ==
    \A i \in 1..Len(outChannel) : outChannel[i].kind = "hello" =>
        /\ outChannel[i].from \in Host
        /\ outChannel[i].host \in Dial => outChannel[i].from = outChannel[i].host

\* The inductive invariant behind the three properties above.
IInv ==
    /\ TypeOK /\ HelloNamed
    /\ ClientNamesPeer /\ MapsAgree /\ MappedIsUp /\ DialNamesItself

=============================================================================
