------------------------------ MODULE StackProps ------------------------------
(***************************************************************************)
(* What ConnectWithRetry and Cancel promise of the layers together.        *)
(***************************************************************************)
EXTENDS Stack

About(q, h) == \E i \in DOMAIN q : q[i].host = h
Reports(h) == \E i \in DOMAIN todo : todo[i].arg.host = h

\* No lost wake-up: as long as the runtime is up, a peer it is retrying has an
\* established session, or something is under way that will bring the next
\* event about it: a backoff timer, a connect call, a dial, an event or a
\* report on its way up (retry.go 118-165, session.go 537-573).
RetryUnderWay ==
    \A h \in Host : connectionRetries[h].tracked /\ ~cancelled =>
        \/ \E t \in 1..MaxTimers : <<h, t>> \in armed
        \/ checking[h] + connecting[h] > 0
        \/ CallOf("connect", h) \in {caller[g] : g \in Goroutine}
        \/ Reports(h) \/ (owed /\ request.host = h)
        \/ About(outEvents, h) \/ About(outChannelEvents, h)
        \/ sessions[h].state = "Established"

-----------------------------------------------------------------------------
(* The ways in which the goroutines can wait for each other.               *)

\* The session handler is in a call on the transport, the transport in a
\* report, and the channel of reports, which the handler reads, is full.
TransportJam ==
    /\ S!Doing("call") /\ request # Nil
    /\ Len(outEvents) = OutBuf

\* The session handler waits for the pump, and the pump for a protocol whose
\* event loop is in a call on the session layer or, before the pump is
\* started, Init is.
RuntimeJam ==
    /\ S!Doing("emit") /\ Len(outChannelEvents) = EventsBuf
    /\ \/ pumping = "off" /\ ~Idle(Main)
       \/ /\ fanout # <<>>
          /\ LET q == Head(fanout).to IN ~Idle(q) /\ Len(sessionEvents[q]) = ProtoBuf

\* A connection that was asked for with ConnectWithRetry comes about, is
\* given up or is called off, whatever is lost in between, unless the
\* goroutines wait for each other or the runtime is cancelled.
RetryResolves ==
    \A h \in Host :
        connectionRetries[h].tracked
            ~> \/ ~connectionRetries[h].tracked \/ sessions[h].state = "Established"
               \/ TransportJam \/ RuntimeJam \/ cancelled

\* These are the only ways: outside them every channel operation the session
\* handler starts is completed, so that it comes back to its select.
HandlerUnblocks ==
    (todo # <<>>) ~> (todo = <<>> \/ TransportJam \/ RuntimeJam)

\* Cancel ends the session handler, the pump, the fired timers and every call
\* that waits, even when they are waiting for each other, and no timer is
\* left that could fire.
StackStops ==
    cancelled ~> /\ stopped /\ pumping # "on" /\ armed = {}
                 /\ \A g \in Goroutine : Idle(g)
                 /\ \A h \in Host : checking[h] + connecting[h] = 0

=============================================================================
