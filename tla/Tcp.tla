--------------------------------- MODULE Tcp ---------------------------------
(***************************************************************************)
(* TCPLayer of pkg/transport/tcp.go.  Goroutines: the handler, which       *)
(* serves Connect, Disconnect and Send; the listener; one reader           *)
(* (connectionHandler) per connection; and closeOnCtxDone.  They share the *)
(* map of active connections, and what one of them still has to do is its  *)
(* program, one step each: the sends on outEvents and outChannel block     *)
(* while the channel is full, and none of them watches the context.        *)
(***************************************************************************)
EXTENDS Layer

CONSTANTS
    Conn,       \* net.Conn objects: bounds the connections alive at a time
    Inbound,    \* remote addresses of inbound connections
    Kinds,      \* payload kinds peers send
    Calls,      \* operations the user calls
    MaxBatch,   \* frames one read completes, at most
    CancelsTcp  \* whether the layer may be cancelled

VARIABLES
    activeConnections, \* map[Host]net.Conn; an absent key is Nil
    socket,            \* [Conn -> state of the connection]
    reader,            \* [Conn -> the host its connectionHandler runs for, or Nil]
    prog,              \* [goroutine -> what it has yet to do]
    listening,         \* the listener is open
    swept,             \* closeOnCtxDone has run
    returned           \* "handler" and "listener", once they have returned

conns == <<activeConnections, socket, reader>>
tcpVars == <<conns, prog, listening, swept, returned>>
vars == <<layerVars, tcpVars>>

ASSUME TcpAssumption ==
    /\ Nil \notin Conn \cup Request /\ {"handler", "listener"} \cap Conn = {}
    /\ Inbound \subseteq Host /\ Kinds \subseteq Kind
    /\ Calls \subseteq {"connect", "disconnect", "send"}
    /\ MaxBatch \in Nat \ {0} /\ CancelsTcp \in BOOLEAN

Goroutine == {"handler", "listener"} \cup Conn

\* Steps of a program: an event, a message, disconnect(host), adding and
\* starting to read a connection, writing to one, and the end of a request
\* or of a reader.
Emit(ty, h) == [op |-> "emit", arg |-> EventOf(ty, h)]
Push(m) == [op |-> "push", arg |-> m]
Drop(h) == [op |-> "drop", arg |-> h]
Link(c, h) == [conn |-> c, host |-> h]
Add(c, h) == [op |-> "add", arg |-> Link(c, h)]
Spawn(c, h) == [op |-> "spawn", arg |-> Link(c, h)]
Write(c, h) == [op |-> "write", arg |-> Link(c, h)]
End == [op |-> "end", arg |-> Nil]

Op == [op : {"emit"}, arg : Event] \cup [op : {"push"}, arg : Message]
      \cup [op : {"drop"}, arg : Host] \cup {End}
      \cup [op : {"add", "spawn", "write"}, arg : [conn : Conn, host : Host]]

TypeOK ==
    /\ LayerTypeOK
    /\ activeConnections \in [Host -> Conn \cup {Nil}]
    /\ socket \in [Conn -> {"unused", "open", "reset", "closed"}]
    /\ reader \in [Conn -> Host \cup {Nil}]
    /\ prog \in [Goroutine -> Seq(Op)]
    /\ listening \in BOOLEAN /\ swept \in BOOLEAN
    /\ returned \subseteq {"handler", "listener"}

Init ==
    /\ LayerInit
    /\ activeConnections = [h \in Host |-> Nil]
    /\ socket = [c \in Conn |-> "unused"]
    /\ reader = [c \in Conn |-> Nil]
    /\ prog = [g \in Goroutine |-> <<>>]
    /\ listening = TRUE /\ swept = FALSE
    /\ returned = {}

\* A connection object that nothing refers to any more.
Mentions(g, c) ==
    \E i \in DOMAIN prog[g] : prog[g][i].op \in {"add", "spawn", "write"}
                              /\ prog[g][i].arg.conn = c
Unreferenced(c) ==
    /\ reader[c] = Nil
    /\ \A h \in Host : activeConnections[h] # c
    /\ \A g \in Goroutine : ~Mentions(g, c)
Free(c) == socket[c] \in {"unused", "closed"} /\ Unreferenced(c)

Idle(g) == prog[g] = <<>>
Run(g, p) == prog' = [prog EXCEPT ![g] = p]

-----------------------------------------------------------------------------
(* The handler: what it does with the request it has received.             *)

Serving(o) == "handler" \notin returned /\ Idle("handler") /\ request # Nil /\ request.op = o

\* Mistake: a dial that fails is not reported.
connectFailsSilently ==
    /\ Serving("connect")
    /\ Run("handler", <<End>>)
    /\ UNCHANGED <<layerVars, conns, listening, swept, returned>>

connectFails ==
    /\ Serving("connect")
    /\ Run("handler", <<Emit("Failed", request.host), End>>)
    /\ UNCHANGED <<layerVars, conns, listening, swept, returned>>

\* net.Dial succeeds and addActiveConn replaces whatever the map held.
connect(c) ==
    /\ Serving("connect") /\ Free(c)
    /\ socket' = [socket EXCEPT ![c] = "open"]
    /\ activeConnections' = [activeConnections EXCEPT ![request.host] = c]
    /\ Run("handler", <<Emit("Connected", request.host), Spawn(c, request.host), End>>)
    /\ UNCHANGED <<layerVars, reader, listening, swept, returned>>

disconnect ==
    /\ Serving("disconnect")
    /\ Run("handler", <<Drop(request.host), End>>)
    /\ UNCHANGED <<layerVars, conns, listening, swept, returned>>

\* getActiveConn; the write comes later, when the connection may be closed.
send ==
    /\ Serving("send")
    /\ LET c == activeConnections[request.host] IN
         Run("handler", IF c = Nil THEN <<End>> ELSE <<Write(c, request.host), End>>)
    /\ UNCHANGED <<layerVars, conns, listening, swept, returned>>

HandlerReturns ==
    /\ transportDone /\ "handler" \notin returned
    /\ Idle("handler") /\ request = Nil
    /\ returned' = returned \cup {"handler"}
    /\ UNCHANGED <<layerVars, conns, prog, listening, swept>>

-----------------------------------------------------------------------------
(* The listener.  An address of a peer belongs to one connection at a time. *)

Connected(h) == \E c \in Conn : socket[c] = "open" /\ (reader[c] = h \/ activeConnections[h] = c)

accept(c, h) ==
    /\ listening /\ "listener" \notin returned /\ Idle("listener")
    /\ Free(c) /\ ~Connected(h)
    /\ socket' = [socket EXCEPT ![c] = "open"]
    /\ Run("listener", <<Add(c, h), Emit("Connected", h), Spawn(c, h)>>)
    /\ UNCHANGED <<layerVars, activeConnections, reader, listening, swept, returned>>

ListenerReturns ==
    /\ ~listening /\ transportDone /\ "listener" \notin returned /\ Idle("listener")
    /\ returned' = returned \cup {"listener"}
    /\ UNCHANGED <<layerVars, conns, prog, listening, swept>>

-----------------------------------------------------------------------------
(* The reader of connection c.                                             *)

Reading(c) == reader[c] # Nil /\ Idle(c)

\* One read completes some frames, of whatever the peer sent.
readFrames(c, ms) ==
    /\ Reading(c) /\ ~transportDone
    /\ socket[c] \in {"open", "reset"}
    /\ Run(c, [i \in DOMAIN ms |-> Push(ms[i])])
    /\ UNCHANGED <<layerVars, conns, listening, swept, returned>>

\* An oversized frame: the frames that came with it are dropped.
readBadFrame(c) ==
    /\ Reading(c) /\ ~transportDone
    /\ socket[c] \in {"open", "reset"}
    /\ Run(c, <<Emit("Failed", reader[c]), Drop(reader[c]), End>>)
    /\ UNCHANGED <<layerVars, conns, listening, swept, returned>>

\* Mistake: a read error ends the reader and leaves the connection active.
readErrorSilent(c) ==
    /\ Reading(c)
    /\ socket[c] \in {"reset", "closed"}
    /\ Run(c, <<End>>)
    /\ UNCHANGED <<layerVars, conns, listening, swept, returned>>

readError(c) ==
    /\ Reading(c)
    /\ socket[c] \in {"reset", "closed"}
    /\ Run(c, <<Drop(reader[c]), End>>)
    /\ UNCHANGED <<layerVars, conns, listening, swept, returned>>

\* Mistake: a cancelled reader returns and leaves its connection open.
readerLeaves(c) ==
    /\ Reading(c) /\ transportDone
    /\ reader' = [reader EXCEPT ![c] = Nil]
    /\ UNCHANGED <<layerVars, activeConnections, socket, prog, listening, swept, returned>>

\* The context is looked at before every read.
readerSeesDone(c) ==
    /\ Reading(c) /\ transportDone
    /\ socket' = [socket EXCEPT ![c] = "closed"]
    /\ reader' = [reader EXCEPT ![c] = Nil]
    /\ UNCHANGED <<layerVars, activeConnections, prog, listening, swept, returned>>

-----------------------------------------------------------------------------
(* The steps of a program.                                                 *)

Doing(g, o) == prog[g] # <<>> /\ Head(prog[g]).op = o
Arg(g) == Head(prog[g]).arg
Done(g) == Run(g, Tail(prog[g]))

emit(g) ==
    /\ Doing(g, "emit")
    /\ Len(outEvents) < OutBuf
    /\ outEvents' = Append(outEvents, Arg(g))
    /\ Done(g)
    /\ UNCHANGED <<outChannel, request, transportDone, conns, listening, swept, returned>>

push(g) ==
    /\ Doing(g, "push")
    /\ Len(outChannel) < OutBuf
    /\ outChannel' = Append(outChannel, Arg(g))
    /\ Done(g)
    /\ UNCHANGED <<outEvents, request, transportDone, conns, listening, swept, returned>>

\* Mistake: the connection is closed but stays in the map.
dropKeepsEntry(g) ==
    /\ Doing(g, "drop")
    /\ LET c == activeConnections[Arg(g)] IN
         \/ /\ c = Nil /\ Done(g) /\ UNCHANGED <<activeConnections, socket>>
         \/ /\ c # Nil
            /\ socket' = [socket EXCEPT ![c] = "closed"]
            /\ Run(g, <<Emit("Disconnected", Arg(g))>> \o Tail(prog[g]))
            /\ UNCHANGED activeConnections
    /\ UNCHANGED <<layerVars, reader, listening, swept, returned>>

\* disconnect(host): closes whatever connection the host has by now.
drop(g) ==
    /\ Doing(g, "drop")
    /\ LET c == activeConnections[Arg(g)] IN
         \/ /\ c = Nil /\ Done(g) /\ UNCHANGED <<activeConnections, socket>>
         \/ /\ c # Nil
            /\ activeConnections' = [activeConnections EXCEPT ![Arg(g)] = Nil]
            /\ socket' = [socket EXCEPT ![c] = "closed"]
            /\ Run(g, <<Emit("Disconnected", Arg(g))>> \o Tail(prog[g]))
    /\ UNCHANGED <<layerVars, reader, listening, swept, returned>>

add(g) ==
    /\ Doing(g, "add")
    /\ activeConnections' = [activeConnections EXCEPT ![Arg(g).host] = Arg(g).conn]
    /\ Done(g)
    /\ UNCHANGED <<layerVars, socket, reader, listening, swept, returned>>

spawn(g) ==
    /\ Doing(g, "spawn")
    /\ reader' = [reader EXCEPT ![Arg(g).conn] = Arg(g).host]
    /\ Done(g)
    /\ UNCHANGED <<layerVars, activeConnections, socket, listening, swept, returned>>

\* The first write after the peer went away may still succeed.
write(g) ==
    /\ Doing(g, "write")
    /\ \/ socket[Arg(g).conn] # "closed" /\ Done(g)
       \/ /\ socket[Arg(g).conn] # "open"
          /\ Run(g, <<Emit("Failed", Arg(g).host), Drop(Arg(g).host)>> \o Tail(prog[g]))
    /\ UNCHANGED <<layerVars, conns, listening, swept, returned>>

endRequest ==
    /\ Doing("handler", "end")
    /\ request' = Nil
    /\ Done("handler")
    /\ UNCHANGED <<outEvents, outChannel, transportDone, conns, listening, swept, returned>>

endReader(c) ==
    /\ Doing(c, "end")
    /\ reader' = [reader EXCEPT ![c] = Nil]
    /\ Done(c)
    /\ UNCHANGED <<layerVars, activeConnections, socket, listening, swept, returned>>

closeOnCtxDone ==
    /\ transportDone /\ ~swept
    /\ swept' = TRUE /\ listening' = FALSE
    /\ socket' = [c \in Conn |-> IF \E h \in Host : activeConnections[h] = c
                                 THEN "closed" ELSE socket[c]]
    /\ activeConnections' = [h \in Host |-> Nil]
    /\ UNCHANGED <<layerVars, reader, prog, returned>>

Cancel ==
    /\ CancelsTcp /\ ~transportDone
    /\ transportDone' = TRUE
    /\ UNCHANGED <<outEvents, outChannel, request, tcpVars>>

\* The peer of c closes or resets the connection.
PeerCloses(c) ==
    /\ socket[c] = "open"
    /\ socket' = [socket EXCEPT ![c] = "reset"]
    /\ UNCHANGED <<layerVars, activeConnections, reader, prog, listening, swept, returned>>

\* The garbage collector closes a connection that has been forgotten.
collect(c) ==
    /\ socket[c] \in {"open", "reset"} /\ Unreferenced(c)
    /\ socket' = [socket EXCEPT ![c] = "closed"]
    /\ UNCHANGED <<layerVars, activeConnections, reader, prog, listening, swept, returned>>

-----------------------------------------------------------------------------
\* What the peer of connection c can have sent.
Batch(c) ==
    LET msg == [host : {reader[c]}, kind : Kinds \ {"hello"}, from : {Nil}]
               \cup [host : {reader[c]}, kind : Kinds \cap {"hello"}, from : Host]
    IN UNION {[1..n -> msg] : n \in 1..MaxBatch}

HandlerStep ==
    \/ connectFails \/ disconnect \/ send \/ endRequest \/ HandlerReturns
    \/ \E c \in Conn : connect(c)

ReaderStep(c) ==
    \/ \E ms \in Batch(c) : readFrames(c, ms)
    \/ readBadFrame(c) \/ readError(c) \/ readerSeesDone(c) \/ endReader(c)

ProgramStep(g) == emit(g) \/ push(g) \/ drop(g) \/ add(g) \/ spawn(g) \/ write(g)

Work ==
    \/ HandlerStep \/ ListenerReturns \/ closeOnCtxDone
    \/ \E c \in Conn, h \in Inbound : accept(c, h)
    \/ \E c \in Conn : ReaderStep(c) \/ PeerCloses(c) \/ collect(c)
    \/ \E g \in Goroutine : ProgramStep(g)

\* Below an arbitrary user of the layer.
UserCalls(r) ==
    /\ request = Nil /\ "handler" \notin returned
    /\ request' = r
    /\ UNCHANGED <<outEvents, outChannel, transportDone, tcpVars>>

UserReadsEvent ==
    /\ outEvents # <<>>
    /\ outEvents' = Tail(outEvents)
    /\ UNCHANGED <<outChannel, request, transportDone, tcpVars>>

UserReadsMessage ==
    /\ outChannel # <<>>
    /\ outChannel' = Tail(outChannel)
    /\ UNCHANGED <<outEvents, request, transportDone, tcpVars>>

UserRequest == {RequestOf(o, h, "app", Nil) : o \in Calls, h \in Host}

Next ==
    \/ Work \/ Cancel
    \/ \E r \in UserRequest : UserCalls(r)
    \/ UserReadsEvent \/ UserReadsMessage

Spec == Init /\ [][Next]_vars

=============================================================================
