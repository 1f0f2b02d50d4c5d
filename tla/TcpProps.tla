------------------------------ MODULE TcpProps ------------------------------
(***************************************************************************)
(* What the TCP layer promises about its connections.                      *)
(***************************************************************************)
EXTENDS Tcp

\* Until the layer is cancelled, the connection Send would use has not been
\* closed by this side, and is reached under one address only: disconnect
\* takes it out of the map before it closes it (tcp.go 207-216).
ActiveUsable ==
    transportDone \/
    \A h \in Host : activeConnections[h] # Nil =>
        /\ socket[activeConnections[h]] # "closed"
        /\ \A k \in Host : activeConnections[k] = activeConnections[h] => k = h

\* What the handler has left to do once it has dialled c, and the listener
\* once it has accepted c or has added it to the map.
Dialling(c, h) == {<<Emit("Connected", h), Spawn(c, h), End>>, <<Spawn(c, h), End>>}
Adding(c, h) == {<<Add(c, h), Emit("Connected", h), Spawn(c, h)>>}
Starting(c, h) == {<<Emit("Connected", h), Spawn(c, h)>>, <<Spawn(c, h)>>}

\* Until the layer is cancelled, a connection in the map has a reader, or one
\* is about to be started, so that the peer going away does not go unnoticed
\* (tcp.go 226-229, 283-286, 299-303).
ActiveIsRead ==
    transportDone \/
    \A h \in Host : activeConnections[h] # Nil =>
        LET c == activeConnections[h] IN
        \/ reader[c] = h
        \/ prog["handler"] \in Dialling(c, h) \/ prog["listener"] \in Starting(c, h)

\* The handler is serving a Connect and has yet to report how it ended.
DialOwed ==
    /\ request # Nil /\ request.op = "connect"
    /\ Idle("handler") \/ Doing("handler", "emit")

Contract == INSTANCE Transport WITH owed <- DialOwed

\* The TCP layer keeps the contract of a transport: each dial is answered by
\* exactly one Connected or Failed before the next call is taken, whatever
\* the readers and the listener report in between (tcp.go 218-230).
ImplementsTransport == Contract!Spec

-----------------------------------------------------------------------------
(* Why these hold: what each goroutine can have left to do, and who owns a *)
(* connection.                                                             *)

HandlerForm ==
    \/ Idle("handler")
    \/ /\ request # Nil
       /\ LET h == request.host IN
            \/ prog["handler"] = <<End>>
            \/ /\ request.op = "connect"
               /\ \/ prog["handler"] = <<Emit("Failed", h), End>>
                  \/ \E c \in Conn : prog["handler"] \in Dialling(c, h)
            \/ /\ request.op # "connect"
               /\ \/ prog["handler"] = <<Drop(h), End>>
                  \/ prog["handler"] = <<Emit("Disconnected", h), End>>
                  \/ prog["handler"] = <<Emit("Failed", h), Drop(h), End>>
                  \/ \E c \in Conn : prog["handler"] = <<Write(c, h), End>>

ListenerForm ==
    \/ Idle("listener")
    \/ \E c \in Conn, h \in Inbound : prog["listener"] \in Adding(c, h) \cup Starting(c, h)

\* What a reader has left to do after the disconnect of its host.
Leaving(h) == {<<Emit("Disconnected", h), End>>, <<End>>}

ReaderForm ==
    \A c \in Conn :
        \/ Idle(c)
        \/ reader[c] # Nil /\ prog[c] \in Seq([op : {"push"}, arg : Message])
        \/ /\ reader[c] # Nil
           /\ \/ prog[c] = <<Emit("Failed", reader[c]), Drop(reader[c]), End>>
              \/ prog[c] = <<Drop(reader[c]), End>>
              \/ prog[c] \in Leaving(reader[c])

\* A connection whose reader is still to be started has no reader, and is in
\* the map under the host it will be read for, if at all.
PendingUnread ==
    \A c \in Conn, h \in Host :
        \/ prog["handler"] \in Dialling(c, h)
        \/ prog["listener"] \in Adding(c, h) \cup Starting(c, h)
      => /\ reader[c] = Nil
         /\ \A k \in Host : activeConnections[k] = c => k = h

\* One that is to be added to the map is not there yet, and is not closed.
AddingFresh ==
    \A c \in Conn, h \in Host : prog["listener"] \in Adding(c, h) =>
        /\ transportDone \/ socket[c] # "closed"
        /\ \A k \in Host : activeConnections[k] # c

\* It is the handler's or the listener's, not both.
OneOwner ==
    \A c \in Conn, h, k \in Host : prog["handler"] \in Dialling(c, h) =>
        prog["listener"] \notin Adding(c, k) \cup Starting(c, k)

\* One that is read is in the map under its reader's host, if at all, and no
\* longer once its reader is past the disconnect.
ReadUnderHost ==
    \A c \in Conn, k \in Host : activeConnections[k] = c =>
        /\ reader[c] # Nil => k = reader[c]
        /\ prog[c] \notin Leaving(reader[c])

Ownership == PendingUnread /\ AddingFresh /\ OneOwner /\ ReadUnderHost

\* The inductive invariant behind the properties above.
IInv ==
    /\ TypeOK /\ HandlerForm /\ ListenerForm /\ ReaderForm /\ Ownership
    /\ ActiveUsable /\ ActiveIsRead

-----------------------------------------------------------------------------
(* Goroutines run; dials and writes come back.  A channel serves the       *)
(* goroutines that wait to send on it in order, the collector runs, and a  *)
(* handler that keeps coming back to its select takes the ctx.Done()       *)
(* branch at some point.  The user reads both channels to the end, which   *)
(* is more than the session layer does: it stops when it is cancelled.     *)

GoroutineFairness ==
    /\ WF_vars(HandlerStep) /\ SF_vars(HandlerReturns) /\ WF_vars(closeOnCtxDone)
    /\ \A g \in Goroutine : SF_vars(ProgramStep(g))
    /\ \A c \in Conn :
         WF_vars(readError(c) \/ readerSeesDone(c) \/ endReader(c) \/ collect(c))

FairSpec ==
    /\ Spec /\ GoroutineFairness
    /\ WF_vars(UserReadsEvent) /\ WF_vars(UserReadsMessage)

\* A connection whose peer is gone does not stay in the map: its reader sees
\* the error and disconnects (tcp.go 299-303).
DeadConnectionDropped ==
    \A h \in Host, c \in Conn :
        (activeConnections[h] = c /\ socket[c] = "reset")
            ~> (activeConnections[h] # c \/ transportDone)

\* closeOnCtxDone exists "to ensure the listener and any active connections
\* are closed as soon as the layer's context is cancelled" (tcp.go 162-165):
\* after a cancellation every connection is closed in the end, one
\* that was being dialled or accepted included.
ShutdownCloses ==
    transportDone ~> [](\A c \in Conn : socket[c] # "open")

=============================================================================
