----------------------------- MODULE TcpProofs -----------------------------
(***************************************************************************)
(* For any hosts, connections and channel sizes, and with or without a     *)
(* cancellation: the map of active connections is sound, and the TCP layer *)
(* keeps the contract of a transport.                                      *)
(*                                                                         *)
(* ActiveIsRead is not inductive by itself.  That a connection in the map  *)
(* keeps its reader rests on who may take it out (Ownership), and that on  *)
(* the few forms the programs of the goroutines have.                      *)
(***************************************************************************)
EXTENDS TcpProps, SequenceTheorems, TLAPS

-----------------------------------------------------------------------------
(* Types, and what each goroutine can do next, given the form of its       *)
(* program.                                                                *)

\* The steps of a reader that delivers messages.
PushOp == [op : {"push"}, arg : Message]

\* The steps of programs are typed, and told apart by their op.
LEMMA StepTypes ==
    /\ \A h \in Host, ty \in {"Connected", "Disconnected", "Failed"} : Emit(ty, h) \in Op
    /\ \A h \in Host : Drop(h) \in Op
    /\ \A c \in Conn, h \in Host : Add(c, h) \in Op /\ Spawn(c, h) \in Op /\ Write(c, h) \in Op
    /\ End \in Op
    /\ \A m \in Message : Push(m) \in PushOp
    /\ PushOp \subseteq Op
BY Zenon DEF Emit, EventOf, Event, Drop, Add, Spawn, Write, Link, End, Push, Op, PushOp

\* A goroutine's new program keeps the programs typed.
LEMMA RunTypes ==
    ASSUME TypeOK, NEW g \in Goroutine, NEW s \in Seq(Op), Run(g, s)
    PROVE  /\ prog' \in [Goroutine -> Seq(Op)]
           /\ prog'[g] = s /\ \A k \in Goroutine : k # g => prog'[k] = prog[k]
BY Zenon DEF Run, TypeOK

\* What is left of a program after its first step is typed.
LEMMA RestTypes ==
    ASSUME TypeOK, NEW g \in Goroutine, prog[g] # <<>>
    PROVE  /\ Head(prog[g]) \in Op /\ Tail(prog[g]) \in Seq(Op)
           /\ \A x \in Op : <<x>> \o Tail(prog[g]) \in Seq(Op)
           /\ \A x, y \in Op : <<x, y>> \o Tail(prog[g]) \in Seq(Op)
<1>1. prog[g] \in Seq(Op) BY Zenon DEF TypeOK
<1>2. Head(prog[g]) \in Op /\ Tail(prog[g]) \in Seq(Op) BY <1>1
<1>3. \A x \in Op : <<x>> \in Seq(Op) OBVIOUS
<1>4. \A x, y \in Op : <<x, y>> \in Seq(Op) OBVIOUS
<1> QED BY <1>2, <1>3, <1>4

\* What a step of a program has as its argument.
LEMMA ArgTypes ==
    ASSUME TypeOK, NEW g \in Goroutine
    PROVE  /\ Doing(g, "emit") => Arg(g) \in Event
           /\ Doing(g, "push") => Arg(g) \in Message
           /\ Doing(g, "drop") => Arg(g) \in Host
           /\ Doing(g, "add") \/ Doing(g, "spawn") \/ Doing(g, "write") =>
                Arg(g).conn \in Conn /\ Arg(g).host \in Host
<1>1. prog[g] # <<>> => Head(prog[g]) \in Op BY Zenon, RestTypes
<1> QED BY <1>1 DEF Doing, Arg, Op, End

\* The frames a read completes are a program of pushes.
LEMMA BatchTypes ==
    ASSUME TypeOK, NEW c \in Conn, reader[c] # Nil, NEW ms \in Batch(c)
    PROVE  [i \in DOMAIN ms |-> Push(ms[i])] \in Seq(PushOp)
<1> DEFINE msg == [host : {reader[c]}, kind : Kinds \ {"hello"}, from : {Nil}]
                  \cup [host : {reader[c]}, kind : Kinds \cap {"hello"}, from : Host]
<1>1. PICK n \in 1..MaxBatch : ms \in [1..n -> msg] BY Zenon DEF Batch
<1>2. reader[c] \in Host BY Zenon DEF TypeOK
<1>3. msg \subseteq Message BY Zenon, <1>2, TcpAssumption DEF Message
<1>4. n \in Nat BY <1>1, TcpAssumption
<1> HIDE DEF msg
<1>5. \A i \in 1..n : Push(ms[i]) \in PushOp BY Zenon, <1>1, <1>3, StepTypes
<1>6. DOMAIN ms = 1..n BY Zenon, <1>1
<1> QED BY <1>4, <1>5, <1>6

\* Every request a user makes is one of the interface's.
LEMMA RequestTypes == UserRequest \subseteq Request
BY TcpAssumption DEF UserRequest, RequestOf, Request, Kind

-----------------------------------------------------------------------------
(* Types.                                                                  *)

\* The handler's steps keep the types.
LEMMA HandlerTypes ==
    ASSUME TypeOK, HandlerStep
    PROVE  TypeOK'
<1>0. "handler" \in Goroutine BY Zenon DEF Goroutine
<1>1. \A o : Serving(o) => request.host \in Host
  BY Zenon DEF Serving, TypeOK, LayerTypeOK, Request
<1>2. CASE connectFails
  <2>1. <<Emit("Failed", request.host), End>> \in Seq(Op)
    BY <1>1, <1>2, StepTypes DEF connectFails
  <2> QED BY Zenon, <1>0, <1>2, <2>1, RunTypes DEF connectFails, TypeOK, LayerTypeOK, layerVars, conns
<1>3. CASE disconnect
  <2>1. <<Drop(request.host), End>> \in Seq(Op) BY <1>1, <1>3, StepTypes DEF disconnect
  <2> QED BY Zenon, <1>0, <1>3, <2>1, RunTypes DEF disconnect, TypeOK, LayerTypeOK, layerVars, conns
<1>4. CASE send
  <2> DEFINE c == activeConnections[request.host]
             p == IF c = Nil THEN <<End>> ELSE <<Write(c, request.host), End>>
  <2>1. c \in Conn \cup {Nil} BY Zenon, <1>1, <1>4 DEF send, TypeOK
  <2>2. p \in Seq(Op) BY <1>1, <1>4, <2>1, StepTypes DEF send
  <2>3. Run("handler", p) BY Zenon, <1>4 DEF send
  <2> HIDE DEF p
  <2>4. prog' \in [Goroutine -> Seq(Op)] BY Zenon, <1>0, <2>2, <2>3, RunTypes
  <2> QED BY Zenon, <1>4, <2>4 DEF send, TypeOK, LayerTypeOK, layerVars, conns
<1>5. CASE endRequest
  <2>1. Tail(prog["handler"]) \in Seq(Op) BY Zenon, <1>0, <1>5, RestTypes DEF endRequest, Doing
  <2>2. prog' \in [Goroutine -> Seq(Op)] BY Zenon, <1>0, <1>5, <2>1, RunTypes DEF endRequest, Done
  <2> QED BY Zenon, <1>5, <2>2 DEF endRequest, TypeOK, LayerTypeOK, conns
<1>6. CASE HandlerReturns
  BY Zenon, <1>6 DEF HandlerReturns, TypeOK, LayerTypeOK, layerVars, conns
<1>7. ASSUME NEW c \in Conn, connect(c) PROVE TypeOK'
  <2>1. <<Emit("Connected", request.host), Spawn(c, request.host), End>> \in Seq(Op)
    BY <1>1, <1>7, StepTypes DEF connect
  <2>2. prog' \in [Goroutine -> Seq(Op)] BY Zenon, <1>0, <1>7, <2>1, RunTypes DEF connect
  <2> QED BY Zenon, <1>1, <1>7, <2>2 DEF connect, TypeOK, LayerTypeOK, layerVars
<1> QED BY Zenon, <1>2, <1>3, <1>4, <1>5, <1>6, <1>7 DEF HandlerStep

\* So do those of the listener, of a connection and of closeOnCtxDone.
LEMMA ConnTypes ==
    ASSUME TypeOK,
           \/ ListenerReturns \/ closeOnCtxDone
           \/ \E c \in Conn, h \in Inbound : accept(c, h)
           \/ \E c \in Conn : ReaderStep(c) \/ PeerCloses(c) \/ collect(c)
    PROVE  TypeOK'
<1>1. ASSUME NEW c \in Conn, NEW h \in Inbound, accept(c, h) PROVE TypeOK'
  <2>1. "listener" \in Goroutine BY Zenon DEF Goroutine
  <2>2. <<Add(c, h), Emit("Connected", h), Spawn(c, h)>> \in Seq(Op)
    BY StepTypes, TcpAssumption
  <2>3. prog' \in [Goroutine -> Seq(Op)] BY Zenon, <1>1, <2>1, <2>2, RunTypes DEF accept
  <2> QED BY Zenon, <1>1, <2>3 DEF accept, TypeOK, LayerTypeOK, layerVars
<1>2. ASSUME NEW c \in Conn, ReaderStep(c) PROVE TypeOK'
  <2>1. c \in Goroutine BY Zenon DEF Goroutine
  <2>2. reader[c] \in Host \cup {Nil} BY Zenon DEF TypeOK
  <2>3. ASSUME NEW ms \in Batch(c), readFrames(c, ms) PROVE TypeOK'
    <3>1. [i \in DOMAIN ms |-> Push(ms[i])] \in Seq(Op)
      BY <2>3, BatchTypes, StepTypes DEF readFrames, Reading
    <3>2. prog' \in [Goroutine -> Seq(Op)] BY Zenon, <2>1, <2>3, <3>1, RunTypes DEF readFrames
    <3> QED BY Zenon, <2>3, <3>2 DEF readFrames, TypeOK, LayerTypeOK, layerVars, conns
  <2>4. CASE readBadFrame(c)
    <3>1. <<Emit("Failed", reader[c]), Drop(reader[c]), End>> \in Seq(Op)
      BY <2>2, <2>4, StepTypes DEF readBadFrame, Reading
    <3>2. prog' \in [Goroutine -> Seq(Op)] BY Zenon, <2>1, <2>4, <3>1, RunTypes DEF readBadFrame
    <3> QED BY Zenon, <2>4, <3>2 DEF readBadFrame, TypeOK, LayerTypeOK, layerVars, conns
  <2>5. CASE readError(c)
    <3>1. <<Drop(reader[c]), End>> \in Seq(Op)
      BY <2>2, <2>5, StepTypes DEF readError, Reading
    <3>2. prog' \in [Goroutine -> Seq(Op)] BY Zenon, <2>1, <2>5, <3>1, RunTypes DEF readError
    <3> QED BY Zenon, <2>5, <3>2 DEF readError, TypeOK, LayerTypeOK, layerVars, conns
  <2>6. CASE readerSeesDone(c)
    BY Zenon, <2>6 DEF readerSeesDone, TypeOK, LayerTypeOK, layerVars
  <2>7. CASE endReader(c)
    <3>1. Tail(prog[c]) \in Seq(Op) BY Zenon, <2>1, <2>7, RestTypes DEF endReader, Doing
    <3>2. prog' \in [Goroutine -> Seq(Op)] BY Zenon, <2>1, <2>7, <3>1, RunTypes DEF endReader, Done
    <3> QED BY Zenon, <2>7, <3>2 DEF endReader, TypeOK, LayerTypeOK, layerVars
  <2> QED BY Zenon, <1>2, <2>3, <2>4, <2>5, <2>6, <2>7 DEF ReaderStep
<1>3. ASSUME NEW c \in Conn, PeerCloses(c) \/ collect(c) PROVE TypeOK'
  BY Zenon, <1>3 DEF PeerCloses, collect, TypeOK, LayerTypeOK, layerVars
<1>4. CASE ListenerReturns
  BY Zenon, <1>4 DEF ListenerReturns, TypeOK, LayerTypeOK, layerVars, conns
<1>5. CASE closeOnCtxDone
  BY Zenon, <1>5 DEF closeOnCtxDone, TypeOK, LayerTypeOK, layerVars
<1> QED BY Zenon, <1>1, <1>2, <1>3, <1>4, <1>5

\* A step of a program keeps the types.
LEMMA ProgramTypes ==
    ASSUME TypeOK, NEW g \in Goroutine, ProgramStep(g)
    PROVE  TypeOK'
<1>1. /\ prog[g] # <<>> /\ Tail(prog[g]) \in Seq(Op)
      /\ \A x \in Op : <<x>> \o Tail(prog[g]) \in Seq(Op)
      /\ \A x, y \in Op : <<x, y>> \o Tail(prog[g]) \in Seq(Op)
  <2>1. prog[g] # <<>> BY Zenon DEF ProgramStep, emit, push, drop, add, spawn, write, Doing
  <2> QED BY Zenon, <2>1, RestTypes
<1>2. Done(g) => prog' \in [Goroutine -> Seq(Op)] BY Zenon, <1>1, RunTypes DEF Done
<1>3. CASE emit(g)
  <2>1. Arg(g) \in Event BY Zenon, <1>3, ArgTypes DEF emit
  <2>2. outEvents' \in Seq(Event) /\ Len(outEvents') <= OutBuf
    BY <1>3, <2>1, LayerAssumption DEF emit, TypeOK, LayerTypeOK
  <2> QED BY Zenon, <1>2, <1>3, <2>2 DEF emit, TypeOK, LayerTypeOK, conns
<1>4. CASE push(g)
  <2>1. Arg(g) \in Message BY Zenon, <1>4, ArgTypes DEF push
  <2>2. outChannel' \in Seq(Message) /\ Len(outChannel') <= OutBuf
    BY <1>4, <2>1, LayerAssumption DEF push, TypeOK, LayerTypeOK
  <2> QED BY Zenon, <1>2, <1>4, <2>2 DEF push, TypeOK, LayerTypeOK, conns
<1>5. CASE drop(g)
  <2>1. Arg(g) \in Host BY Zenon, <1>5, ArgTypes DEF drop
  <2>2. <<Emit("Disconnected", Arg(g))>> \o Tail(prog[g]) \in Seq(Op)
    BY Zenon, <1>1, <2>1, StepTypes
  <2>3. prog' \in [Goroutine -> Seq(Op)] BY Zenon, <1>2, <1>5, <2>2, RunTypes DEF drop
  <2> QED BY Zenon, <1>5, <2>1, <2>3 DEF drop, TypeOK, LayerTypeOK, layerVars
<1>6. CASE add(g)
  <2>1. Arg(g).conn \in Conn /\ Arg(g).host \in Host BY Zenon, <1>6, ArgTypes DEF add
  <2> QED BY Zenon, <1>2, <1>6, <2>1 DEF add, TypeOK, LayerTypeOK, layerVars
<1>7. CASE spawn(g)
  <2>1. Arg(g).conn \in Conn /\ Arg(g).host \in Host BY Zenon, <1>7, ArgTypes DEF spawn
  <2> QED BY Zenon, <1>2, <1>7, <2>1 DEF spawn, TypeOK, LayerTypeOK, layerVars
<1>8. CASE write(g)
  <2>1. Arg(g).host \in Host BY Zenon, <1>8, ArgTypes DEF write
  <2>2. <<Emit("Failed", Arg(g).host), Drop(Arg(g).host)>> \o Tail(prog[g]) \in Seq(Op)
    BY Zenon, <1>1, <2>1, StepTypes
  <2>3. prog' \in [Goroutine -> Seq(Op)] BY Zenon, <1>2, <1>8, <2>2, RunTypes DEF write
  <2> QED BY Zenon, <1>8, <2>3 DEF write, TypeOK, LayerTypeOK, layerVars, conns
<1> QED BY Zenon, <1>3, <1>4, <1>5, <1>6, <1>7, <1>8 DEF ProgramStep

\* Every step keeps the types.
LEMMA TypesStep == ASSUME TypeOK, [Next]_vars PROVE TypeOK'
<1>1. ASSUME NEW r \in UserRequest, UserCalls(r) PROVE TypeOK'
  BY Zenon, <1>1, RequestTypes DEF UserCalls, TypeOK, LayerTypeOK, tcpVars, conns
<1>2. CASE UserReadsEvent
  BY <1>2, LayerAssumption DEF UserReadsEvent, TypeOK, LayerTypeOK, tcpVars, conns
<1>3. CASE UserReadsMessage
  BY <1>3, LayerAssumption DEF UserReadsMessage, TypeOK, LayerTypeOK, tcpVars, conns
<1>4. CASE Cancel BY Zenon, <1>4 DEF Cancel, TypeOK, LayerTypeOK, tcpVars, conns
<1>5. CASE UNCHANGED vars
  BY Zenon, <1>5 DEF vars, TypeOK, LayerTypeOK, layerVars, tcpVars, conns
<1>6. CASE Work BY Zenon, <1>6, HandlerTypes, ConnTypes, ProgramTypes DEF Work
<1> QED BY Zenon, <1>1, <1>2, <1>3, <1>4, <1>5, <1>6 DEF Next

-----------------------------------------------------------------------------
(* What a goroutine can do next.                                           *)

\* What disconnect and a failed write put in front of a program's last step.
LEMMA Pairs == ASSUME NEW a \in Op, NEW b \in Op PROVE <<a>> \o <<b>> = <<a, b>>
<1>1. <<a>> \in Seq(Op) /\ <<b>> \in Seq(Op) /\ <<a, b>> \in Seq(Op) OBVIOUS
<1>2. Len(<<a>> \o <<b>>) = 2 /\ Len(<<a, b>>) = 2 BY <1>1
<1>3. \A i \in 1..2 : (<<a>> \o <<b>>)[i] = <<a, b>>[i] BY <1>1
<1>4. <<a>> \o <<b>> \in Seq(Op) BY <1>1
<1> QED BY Zenon, <1>1, <1>2, <1>3, <1>4, SeqEqual

\* The same for the two steps of a failed write.
LEMMA Triples ==
    ASSUME NEW a \in Op, NEW b \in Op, NEW c \in Op PROVE <<a, b>> \o <<c>> = <<a, b, c>>
<1>1. <<a, b>> \in Seq(Op) /\ <<c>> \in Seq(Op) /\ <<a, b, c>> \in Seq(Op) OBVIOUS
<1>2. Len(<<a, b>> \o <<c>>) = 3 /\ Len(<<a, b, c>>) = 3 BY <1>1
<1>3. \A i \in 1..3 : (<<a, b>> \o <<c>>)[i] = <<a, b, c>>[i] BY <1>1
<1>4. <<a, b>> \o <<c>> \in Seq(Op) BY <1>1
<1> QED BY Zenon, <1>1, <1>2, <1>3, <1>4, SeqEqual

\* The names and arguments of the steps (the constructors of Op).
LEMMA OpNames ==
    /\ \A ty, h : Emit(ty, h).op = "emit" /\ Emit(ty, h).arg = EventOf(ty, h)
    /\ \A h : Drop(h).op = "drop" /\ Drop(h).arg = h
    /\ \A c, h : Add(c, h).op = "add" /\ Add(c, h).arg = Link(c, h)
    /\ \A c, h : Spawn(c, h).op = "spawn" /\ Spawn(c, h).arg = Link(c, h)
    /\ \A c, h : Write(c, h).op = "write" /\ Write(c, h).arg = Link(c, h)
    /\ \A c, h : Link(c, h).conn = c /\ Link(c, h).host = h
    /\ End.op = "end"
BY Zenon DEF Emit, Drop, Add, Spawn, Write, Link, End

\* Which step a program takes, and what it leaves.
LEMMA FirstStep ==
    ASSUME TypeOK, NEW g \in Goroutine, ProgramStep(g)
    PROVE  LET x == Head(prog[g])
               rest == Tail(prog[g])
           IN /\ prog[g] # <<>> /\ x.op # "end" /\ Arg(g) = x.arg
              /\ x.op = "emit" => emit(g) /\ prog'[g] = rest
              /\ x.op = "push" => push(g) /\ prog'[g] = rest
              /\ x.op = "add" => add(g) /\ prog'[g] = rest
              /\ x.op = "spawn" => spawn(g) /\ prog'[g] = rest
              /\ x.op = "drop" =>
                   /\ drop(g)
                   /\ prog'[g] \in {rest, <<Emit("Disconnected", x.arg)>> \o rest}
              /\ x.op = "write" =>
                   /\ write(g)
                   /\ prog'[g] \in
                        {rest, <<Emit("Failed", x.arg.host), Drop(x.arg.host)>> \o rest}
<1>1. \A s : Run(g, s) => prog'[g] = s BY Zenon DEF Run, TypeOK
<1>2. Done(g) => prog'[g] = Tail(prog[g]) BY Zenon, <1>1 DEF Done
<1> QED
  BY Zenon, <1>1, <1>2 DEF ProgramStep, emit, push, drop, add, spawn, write, Doing, Arg

\* An event is sent.
LEMMA EmitFirst ==
    ASSUME TypeOK, NEW g \in Goroutine, ProgramStep(g), NEW ty, NEW h,
           Head(prog[g]) = Emit(ty, h)
    PROVE  emit(g) /\ Arg(g) = EventOf(ty, h) /\ prog'[g] = Tail(prog[g])
<1>1. Head(prog[g]).op = "emit" /\ Head(prog[g]).arg = EventOf(ty, h) BY OpNames
<1> QED BY Zenon, <1>1, FirstStep

\* A reader is started.
LEMMA SpawnFirst ==
    ASSUME TypeOK, NEW g \in Goroutine, ProgramStep(g), NEW c, NEW h,
           Head(prog[g]) = Spawn(c, h)
    PROVE  spawn(g) /\ Arg(g) = Link(c, h) /\ prog'[g] = Tail(prog[g])
<1>1. Head(prog[g]).op = "spawn" /\ Head(prog[g]).arg = Link(c, h) BY OpNames
<1> QED BY Zenon, <1>1, FirstStep

\* disconnect(host) before the last step.
LEMMA DropFirst ==
    ASSUME TypeOK, NEW g \in Goroutine, ProgramStep(g), NEW h \in Host,
           prog[g] = <<Drop(h), End>>
    PROVE  /\ drop(g) /\ Arg(g) = h
           /\ prog'[g] \in {<<End>>, <<Emit("Disconnected", h), End>>}
<1>1. Head(prog[g]) = Drop(h) /\ Tail(prog[g]) = <<End>> OBVIOUS
<1>2. <<Emit("Disconnected", h)>> \o <<End>> = <<Emit("Disconnected", h), End>>
  BY Zenon, StepTypes, Pairs
<1>3. Head(prog[g]).op = "drop" /\ Head(prog[g]).arg = h BY ZenonT(40), <1>1, OpNames
<1> QED BY Zenon, <1>1, <1>2, <1>3, FirstStep

\* The moves of the handler, request by request.
LEMMA HandlerMoves ==
    ASSUME TypeOK, HandlerForm, ProgramStep("handler")
    PROVE  /\ request # Nil /\ request \in Request
           /\ LET h == request.host
                  p == prog["handler"]
                  n == prog'["handler"]
              IN \/ /\ request.op = "connect"
                    /\ \/ /\ p = <<Emit("Failed", h), End>> /\ n = <<End>>
                          /\ emit("handler") /\ Arg("handler") = EventOf("Failed", h)
                       \/ \E c \in Conn :
                          \/ /\ p = <<Emit("Connected", h), Spawn(c, h), End>>
                             /\ n = <<Spawn(c, h), End>>
                             /\ emit("handler") /\ Arg("handler") = EventOf("Connected", h)
                          \/ /\ p = <<Spawn(c, h), End>> /\ n = <<End>>
                             /\ spawn("handler") /\ Arg("handler") = Link(c, h)
                 \/ /\ request.op # "connect"
                    /\ \/ /\ p = <<Drop(h), End>> /\ drop("handler") /\ Arg("handler") = h
                          /\ n \in {<<End>>, <<Emit("Disconnected", h), End>>}
                       \/ /\ p = <<Emit("Disconnected", h), End>> /\ n = <<End>>
                          /\ emit("handler") /\ Arg("handler") = EventOf("Disconnected", h)
                       \/ /\ p = <<Emit("Failed", h), Drop(h), End>> /\ n = <<Drop(h), End>>
                          /\ emit("handler") /\ Arg("handler") = EventOf("Failed", h)
                       \/ \E c \in Conn :
                          /\ p = <<Write(c, h), End>> /\ write("handler")
                          /\ n \in {<<End>>, <<Emit("Failed", h), Drop(h), End>>}
<1> DEFINE h == request.host
           p == prog["handler"]
<1>0. "handler" \in Goroutine BY Zenon DEF Goroutine
<1>1. p # <<>> BY Zenon DEF ProgramStep, emit, push, drop, add, spawn, write, Doing
<1>2. request # Nil /\ request \in Request
  BY Zenon, <1>1 DEF HandlerForm, Idle, TypeOK, LayerTypeOK
<1>3. p # <<End>>
  <2>1. p = <<End>> => Head(p) = End OBVIOUS
  <2> QED BY Zenon, <1>0, <2>1, FirstStep, OpNames
<1>4. CASE p = <<Emit("Failed", h), End>> /\ request.op = "connect"
  <2>1. Head(p) = Emit("Failed", h) /\ Tail(p) = <<End>> BY <1>4
  <2> QED BY Zenon, <1>0, <1>2, <1>4, <2>1, EmitFirst
<1>5. ASSUME NEW c \in Conn, p = <<Emit("Connected", h), Spawn(c, h), End>>
      PROVE  /\ prog'["handler"] = <<Spawn(c, h), End>>
             /\ emit("handler") /\ Arg("handler") = EventOf("Connected", h)
  <2>1. Head(p) = Emit("Connected", h) /\ Tail(p) = <<Spawn(c, h), End>> BY <1>5
  <2> QED BY Zenon, <1>0, <2>1, EmitFirst
<1>6. ASSUME NEW c \in Conn, p = <<Spawn(c, h), End>>
      PROVE  /\ prog'["handler"] = <<End>>
             /\ spawn("handler") /\ Arg("handler") = Link(c, h)
  <2>1. Head(p) = Spawn(c, h) /\ Tail(p) = <<End>> BY <1>6
  <2> QED BY Zenon, <1>0, <2>1, SpawnFirst
<1>7. CASE p = <<Drop(h), End>> /\ request.op # "connect"
  <2>1. h \in Host BY Zenon, <1>2 DEF Request
  <2> QED BY Zenon, <1>0, <1>2, <1>7, <2>1, DropFirst
<1>8. CASE p = <<Emit("Disconnected", h), End>> /\ request.op # "connect"
  <2>1. Head(p) = Emit("Disconnected", h) /\ Tail(p) = <<End>> BY <1>8
  <2> QED BY Zenon, <1>0, <1>2, <1>8, <2>1, EmitFirst
<1>9. CASE p = <<Emit("Failed", h), Drop(h), End>> /\ request.op # "connect"
  <2>1. Head(p) = Emit("Failed", h) /\ Tail(p) = <<Drop(h), End>> BY <1>9
  <2> QED BY Zenon, <1>0, <1>2, <1>9, <2>1, EmitFirst
<1>10. ASSUME NEW c \in Conn, p = <<Write(c, h), End>>
       PROVE  /\ write("handler")
              /\ prog'["handler"] \in {<<End>>, <<Emit("Failed", h), Drop(h), End>>}
  <2>1. Head(p) = Write(c, h) /\ Tail(p) = <<End>> BY <1>10
  <2>2. h \in Host BY Zenon, <1>2 DEF Request
  <2>3. <<Emit("Failed", h), Drop(h)>> \o <<End>> = <<Emit("Failed", h), Drop(h), End>>
    BY Zenon, <2>2, StepTypes, Triples
  <2>4. Head(p).op = "write" /\ Head(p).arg.host = h BY <2>1, OpNames
  <2> QED BY Zenon, <1>0, <2>1, <2>3, <2>4, FirstStep
<1> QED
  BY Zenon, <1>1, <1>2, <1>3, <1>4, <1>5, <1>6, <1>7, <1>8, <1>9, <1>10
  DEF HandlerForm, Dialling, Idle

\* The moves of the listener.
LEMMA ListenerMoves ==
    ASSUME TypeOK, ListenerForm, ProgramStep("listener")
    PROVE  \E c \in Conn, h \in Inbound :
             \/ /\ prog["listener"] \in Adding(c, h) /\ add("listener") /\ Arg("listener") = Link(c, h)
                /\ prog'["listener"] = <<Emit("Connected", h), Spawn(c, h)>>
             \/ /\ prog["listener"] = <<Emit("Connected", h), Spawn(c, h)>>
                /\ emit("listener") /\ Arg("listener") = EventOf("Connected", h)
                /\ prog'["listener"] = <<Spawn(c, h)>>
             \/ /\ prog["listener"] = <<Spawn(c, h)>>
                /\ spawn("listener") /\ Arg("listener") = Link(c, h)
                /\ prog'["listener"] = <<>>
<1> DEFINE p == prog["listener"]
<1>0. "listener" \in Goroutine BY Zenon DEF Goroutine
<1>1. p # <<>> BY Zenon DEF ProgramStep, emit, push, drop, add, spawn, write, Doing
<1>2. PICK c \in Conn, h \in Inbound : p \in Adding(c, h) \cup Starting(c, h)
  BY Zenon, <1>1 DEF ListenerForm, Idle
<1>3. CASE p = <<Add(c, h), Emit("Connected", h), Spawn(c, h)>>
  <2>1. Head(p) = Add(c, h) /\ Tail(p) = <<Emit("Connected", h), Spawn(c, h)>> BY <1>3
  <2>2. Head(p).op = "add" /\ Head(p).arg = Link(c, h) BY <2>1, OpNames
  <2> QED BY Zenon, <1>0, <1>3, <2>1, <2>2, FirstStep DEF Adding
<1>4. CASE p = <<Emit("Connected", h), Spawn(c, h)>>
  <2>1. Head(p) = Emit("Connected", h) /\ Tail(p) = <<Spawn(c, h)>> BY <1>4
  <2> QED BY Zenon, <1>0, <1>4, <2>1, EmitFirst
<1>5. CASE p = <<Spawn(c, h)>>
  <2>1. Head(p) = Spawn(c, h) /\ Tail(p) = <<>> BY <1>5
  <2> QED BY Zenon, <1>0, <1>5, <2>1, SpawnFirst
<1> QED BY Zenon, <1>2, <1>3, <1>4, <1>5 DEF Adding, Starting

\* The moves of a reader.
LEMMA ReaderMoves ==
    ASSUME TypeOK, ReaderForm, NEW c \in Conn, ProgramStep(c)
    PROVE  /\ reader[c] \in Host
           /\ \/ /\ push(c) /\ prog[c] \in Seq(PushOp) /\ prog'[c] \in Seq(PushOp)
              \/ /\ prog[c] = <<Emit("Failed", reader[c]), Drop(reader[c]), End>>
                 /\ emit(c) /\ Arg(c) = EventOf("Failed", reader[c])
                 /\ prog'[c] = <<Drop(reader[c]), End>>
              \/ /\ prog[c] = <<Drop(reader[c]), End>> /\ drop(c) /\ Arg(c) = reader[c]
                 /\ prog'[c] \in {<<End>>, <<Emit("Disconnected", reader[c]), End>>}
              \/ /\ prog[c] = <<Emit("Disconnected", reader[c]), End>>
                 /\ emit(c) /\ Arg(c) = EventOf("Disconnected", reader[c])
                 /\ prog'[c] = <<End>>
<1> DEFINE p == prog[c]
           h == reader[c]
<1>0. c \in Goroutine BY Zenon DEF Goroutine
<1>1. p # <<>> BY Zenon DEF ProgramStep, emit, push, drop, add, spawn, write, Doing
<1>2. h \in Host BY Zenon, <1>1 DEF ReaderForm, Idle, TypeOK
<1>3. p # <<End>>
  <2>1. p = <<End>> => Head(p) = End OBVIOUS
  <2> QED BY Zenon, <1>0, <2>1, FirstStep, OpNames
<1>4. CASE p \in Seq(PushOp)
  <2>1. Head(p) \in PushOp /\ Tail(p) \in Seq(PushOp) BY <1>1, <1>4
  <2>2. Head(p).op = "push" BY Zenon, <2>1 DEF PushOp
  <2> QED BY Zenon, <1>0, <1>2, <1>4, <2>1, <2>2, FirstStep
<1>5. CASE p = <<Emit("Failed", h), Drop(h), End>>
  <2>1. Head(p) = Emit("Failed", h) /\ Tail(p) = <<Drop(h), End>> BY <1>5
  <2> QED BY Zenon, <1>0, <1>2, <1>5, <2>1, EmitFirst
<1>6. CASE p = <<Drop(h), End>> BY Zenon, <1>0, <1>2, <1>6, DropFirst
<1>7. CASE p = <<Emit("Disconnected", h), End>>
  <2>1. Head(p) = Emit("Disconnected", h) /\ Tail(p) = <<End>> BY <1>7
  <2> QED BY Zenon, <1>0, <1>2, <1>7, <2>1, EmitFirst
<1> QED BY Zenon, <1>1, <1>3, <1>4, <1>5, <1>6, <1>7 DEF ReaderForm, Leaving, Idle, PushOp

-----------------------------------------------------------------------------
(* Each goroutine's program keeps its form.                                *)

\* A step on another goroutine's program leaves this one's alone.
LEMMA OthersKeep ==
    ASSUME TypeOK, NEW g \in Goroutine, ProgramStep(g)
    PROVE  /\ \A k \in Goroutine : k # g => prog'[k] = prog[k]
           /\ request' = request /\ transportDone' = transportDone
           /\ UNCHANGED <<listening, swept, returned>>
<1>1. \E s : Run(g, s)
  BY Zenon DEF ProgramStep, emit, push, drop, add, spawn, write, Done
<1>2. \A k \in Goroutine : k # g => prog'[k] = prog[k] BY Zenon, <1>1 DEF Run, TypeOK
<1> QED BY Zenon, <1>2 DEF ProgramStep, emit, push, drop, add, spawn, write, layerVars

\* The handler's program keeps its form: it is idle between two calls.
LEMMA HandlerFormStep ==
    ASSUME TypeOK, HandlerForm, [Next]_vars
    PROVE  HandlerForm'
<1>0. "handler" \in Goroutine /\ "handler" # "listener" /\ "handler" \notin Conn
  BY Zenon, TcpAssumption DEF Goroutine
<1>1. \A s : Run("handler", s) => prog'["handler"] = s BY Zenon, <1>0 DEF Run, TypeOK
<1>2. ASSUME prog'["handler"] = prog["handler"], request' = request PROVE HandlerForm'
  BY Zenon, <1>2 DEF HandlerForm, Idle, Dialling
<1>3. ASSUME NEW g \in Goroutine, g # "handler", ProgramStep(g) PROVE HandlerForm'
  BY Zenon, <1>0, <1>2, <1>3, OthersKeep
<1>4. CASE ProgramStep("handler")
  <2>1. request' = request BY Zenon, <1>0, <1>4, OthersKeep
  <2> QED BY Zenon, <1>4, <2>1, HandlerMoves DEF HandlerForm, Idle, Dialling
<1>5. CASE connectFails \/ disconnect \/ send
  <2>1. request' = request /\ request # Nil
    BY Zenon, <1>5 DEF connectFails, disconnect, send, Serving, layerVars
  <2>2. CASE connectFails BY Zenon, <1>1, <2>1, <2>2 DEF connectFails, Serving, HandlerForm
  <2>3. CASE disconnect
    BY Zenon, <1>1, <2>1, <2>3 DEF disconnect, Serving, HandlerForm
  <2>4. CASE send
    <3>1. activeConnections[request.host] \in Conn \cup {Nil}
      BY Zenon, <2>1 DEF TypeOK, LayerTypeOK, Request
    <3> QED BY Zenon, <1>1, <2>1, <2>4, <3>1 DEF send, Serving, HandlerForm
  <2> QED BY Zenon, <1>5, <2>2, <2>3, <2>4
<1>6. ASSUME NEW c \in Conn, connect(c) PROVE HandlerForm'
  BY Zenon, <1>1, <1>6 DEF connect, Serving, HandlerForm, Dialling, layerVars
<1>7. CASE endRequest
  <2>1. Head(prog["handler"]).op = "end" /\ prog["handler"] # <<>>
    BY Zenon, <1>7 DEF endRequest, Doing
  <2>2. prog["handler"] = <<End>>
    <3> DEFINE p == prog["handler"]
               h == request.host
    <3>1. /\ p = <<Drop(h), End>> => Head(p) = Drop(h)
          /\ p = <<Emit("Failed", h), End>> => Head(p) = Emit("Failed", h)
          /\ p = <<Emit("Disconnected", h), End>> => Head(p) = Emit("Disconnected", h)
          /\ p = <<Emit("Failed", h), Drop(h), End>> => Head(p) = Emit("Failed", h)
      OBVIOUS
    <3>2. \A c \in Conn :
            /\ p = <<Write(c, h), End>> => Head(p) = Write(c, h)
            /\ p = <<Spawn(c, h), End>> => Head(p) = Spawn(c, h)
            /\ p = <<Emit("Connected", h), Spawn(c, h), End>> => Head(p) = Emit("Connected", h)
      OBVIOUS
    <3> QED BY <2>1, <3>1, <3>2, OpNames DEF HandlerForm, Idle, Dialling
  <2>3. Tail(prog["handler"]) = <<>> BY <2>2
  <2> QED BY Zenon, <1>1, <1>7, <2>3 DEF endRequest, Done, HandlerForm, Idle
<1>8. ASSUME NEW c \in Conn, NEW h \in Inbound, accept(c, h) PROVE HandlerForm'
  BY Zenon, <1>0, <1>2, <1>8 DEF accept, Run, TypeOK, layerVars
<1>9. ASSUME NEW c \in Conn, ReaderStep(c) \/ PeerCloses(c) \/ collect(c) PROVE HandlerForm'
  BY Zenon, <1>0, <1>2, <1>9
  DEF ReaderStep, readFrames, readBadFrame, readError, readerSeesDone, endReader, Done,
      PeerCloses, collect, Run, TypeOK, layerVars
<1>10. CASE HandlerReturns \/ ListenerReturns \/ closeOnCtxDone
  BY Zenon, <1>2, <1>10 DEF HandlerReturns, ListenerReturns, closeOnCtxDone, layerVars
<1>11. ASSUME NEW r \in UserRequest, UserCalls(r) PROVE HandlerForm'
  BY Zenon, <1>11 DEF UserCalls, HandlerForm, Idle, tcpVars
<1>12. CASE Cancel \/ UserReadsEvent \/ UserReadsMessage \/ UNCHANGED vars
  BY Zenon, <1>2, <1>12 DEF Cancel, UserReadsEvent, UserReadsMessage, vars, tcpVars, layerVars
<1> QED
  BY Zenon, <1>3, <1>4, <1>5, <1>6, <1>7, <1>8, <1>9, <1>10, <1>11, <1>12
  DEF Next, Work, HandlerStep

\* The listener's program keeps its form.
LEMMA ListenerFormStep ==
    ASSUME TypeOK, ListenerForm, [Next]_vars
    PROVE  ListenerForm'
<1>0. "listener" \in Goroutine /\ "handler" # "listener" /\ "listener" \notin Conn
  BY Zenon, TcpAssumption DEF Goroutine
<1>1. ASSUME prog'["listener"] = prog["listener"] PROVE ListenerForm'
  BY Zenon, <1>1 DEF ListenerForm, Idle, Adding, Starting
<1>2. ASSUME NEW g \in Goroutine, g # "listener", ProgramStep(g) PROVE ListenerForm'
  BY Zenon, <1>0, <1>1, <1>2, OthersKeep
<1>3. CASE ProgramStep("listener")
  BY Zenon, <1>3, ListenerMoves DEF ListenerForm, Idle, Adding, Starting
<1>4. CASE HandlerStep
  BY Zenon, <1>0, <1>1, <1>4
  DEF HandlerStep, connectFails, disconnect, send, endRequest, HandlerReturns, connect, Done,
      Run, TypeOK
<1>5. ASSUME NEW c \in Conn, NEW h \in Inbound, accept(c, h) PROVE ListenerForm'
  BY Zenon, <1>0, <1>5 DEF accept, Run, TypeOK, ListenerForm, Adding
<1>6. ASSUME NEW c \in Conn, ReaderStep(c) \/ PeerCloses(c) \/ collect(c) PROVE ListenerForm'
  BY <1>0, <1>1, <1>6
  DEF ReaderStep, readFrames, readBadFrame, readError, readerSeesDone, endReader, Done,
      PeerCloses, collect, Run, TypeOK
<1>7. CASE ListenerReturns \/ closeOnCtxDone
  BY Zenon, <1>1, <1>7 DEF ListenerReturns, closeOnCtxDone
<1>8. CASE Cancel \/ UserReadsEvent \/ UserReadsMessage \/ UNCHANGED vars
  BY Zenon, <1>1, <1>8 DEF Cancel, UserReadsEvent, UserReadsMessage, vars, tcpVars
<1>9. ASSUME NEW r \in UserRequest, UserCalls(r) PROVE ListenerForm'
  BY Zenon, <1>1, <1>9 DEF UserCalls, tcpVars
<1> QED
  BY Zenon, <1>2, <1>3, <1>4, <1>5, <1>6, <1>7, <1>8, <1>9 DEF Next, Work

-----------------------------------------------------------------------------
(* Who owns a connection.                                                  *)

\* A connection that is to be added is not one that has been.
LEMMA AddOrStart == \A c, h, d, k : Adding(c, h) \cap Starting(d, k) = {}
<1> SUFFICES ASSUME NEW c, NEW h, NEW d, NEW k PROVE Adding(c, h) \cap Starting(d, k) = {}
  BY Zenon
<1>1. <<Add(c, h), Emit("Connected", h), Spawn(c, h)>> # <<Emit("Connected", k), Spawn(d, k)>>
  BY Zenon
<1>2. <<Add(c, h), Emit("Connected", h), Spawn(c, h)>> # <<Spawn(d, k)>> BY Zenon
<1> QED BY Zenon, <1>1, <1>2 DEF Adding, Starting

\* The handler has one connection to start reading, the listener one.
LEMMA Unique ==
    ASSUME NEW c, NEW h, NEW d, NEW k, c # d \/ h # k
    PROVE  /\ Dialling(c, h) \cap Dialling(d, k) = {}
           /\ (Adding(c, h) \cup Starting(c, h)) \cap (Adding(d, k) \cup Starting(d, k)) = {}
<1>1. Spawn(c, h) = Spawn(d, k) => c = d /\ h = k
  <2>1. /\ Spawn(c, h).arg.conn = c /\ Spawn(c, h).arg.host = h
        /\ Spawn(d, k).arg.conn = d /\ Spawn(d, k).arg.host = k
    BY OpNames
  <2> QED BY Zenon, <2>1
<1>2. Spawn(c, h) # Emit("Connected", k) /\ Add(c, h) # Emit("Connected", k)
      /\ Add(c, h) # Spawn(d, k) /\ Spawn(d, k) # Emit("Connected", h)
  <2>1. /\ Spawn(c, h).op = "spawn" /\ Spawn(d, k).op = "spawn" /\ Add(c, h).op = "add"
        /\ Emit("Connected", k).op = "emit" /\ Emit("Connected", h).op = "emit"
    BY OpNames
  <2> QED BY Zenon, <2>1
<1>3. Dialling(c, h) \cap Dialling(d, k) = {} BY <1>1, <1>2 DEF Dialling
<1>4. Adding(c, h) \cap Adding(d, k) = {} BY <1>1 DEF Adding
<1>5. Starting(c, h) \cap Starting(d, k) = {} BY <1>1, <1>2 DEF Starting
<1>6. Adding(c, h) \cap Starting(d, k) = {} BY Zenon, AddOrStart
<1>7. Starting(c, h) \cap Adding(d, k) = {} BY Zenon, AddOrStart
<1> QED BY Zenon, <1>3, <1>4, <1>5, <1>6, <1>7

\* A connection nothing refers to is in nobody's hands.
LEMMA UnreferencedFacts ==
    ASSUME NEW c \in Conn, Unreferenced(c), NEW h
    PROVE  /\ prog["handler"] \notin Dialling(c, h)
           /\ prog["listener"] \notin Adding(c, h) \cup Starting(c, h)
<1>1. ~Mentions("handler", c) /\ ~Mentions("listener", c)
  BY Zenon DEF Unreferenced, Goroutine
<1>2. /\ Spawn(c, h).op = "spawn" /\ Spawn(c, h).arg.conn = c
      /\ Add(c, h).op = "add" /\ Add(c, h).arg.conn = c
  BY OpNames
<1>3. \A g, i : i \in DOMAIN prog[g] /\ prog[g][i] \in {Spawn(c, h), Add(c, h)}
        => Mentions(g, c)
  BY Zenon, <1>2 DEF Mentions
<1>4. prog["handler"] \notin Dialling(c, h)
  <2>1. prog["handler"] = <<Emit("Connected", h), Spawn(c, h), End>> =>
          2 \in DOMAIN prog["handler"] /\ prog["handler"][2] = Spawn(c, h)
    OBVIOUS
  <2>2. prog["handler"] = <<Spawn(c, h), End>> =>
          1 \in DOMAIN prog["handler"] /\ prog["handler"][1] = Spawn(c, h)
    OBVIOUS
  <2> QED BY Zenon, <1>1, <1>3, <2>1, <2>2 DEF Dialling
<1>5. prog["listener"] \notin Adding(c, h)
  <2>1. prog["listener"] = <<Add(c, h), Emit("Connected", h), Spawn(c, h)>> =>
          1 \in DOMAIN prog["listener"] /\ prog["listener"][1] = Add(c, h)
    OBVIOUS
  <2> QED BY Zenon, <1>1, <1>3, <2>1 DEF Adding
<1>6. prog["listener"] \notin Starting(c, h)
  <2>1. prog["listener"] = <<Emit("Connected", h), Spawn(c, h)>> =>
          2 \in DOMAIN prog["listener"] /\ prog["listener"][2] = Spawn(c, h)
    OBVIOUS
  <2>2. prog["listener"] = <<Spawn(c, h)>> =>
          1 \in DOMAIN prog["listener"] /\ prog["listener"][1] = Spawn(c, h)
    OBVIOUS
  <2> QED BY Zenon, <1>1, <1>3, <2>1, <2>2 DEF Starting
<1> QED BY Zenon, <1>4, <1>5, <1>6

\* What is said of connections, apart from the forms of the programs.
Owned == Ownership /\ ActiveUsable /\ ActiveIsRead

\* A step that changes neither the map nor who owns what, and closes nothing.
LEMMA OwnedFrame ==
    ASSUME Owned, TypeOK, activeConnections' = activeConnections, reader' = reader,
           transportDone => transportDone',
           \A c \in Conn : socket'[c] = "closed" => socket[c] = "closed",
           \A c \in Conn, h \in Host :
             /\ prog'["handler"] \in Dialling(c, h) <=> prog["handler"] \in Dialling(c, h)
             /\ prog'["listener"] \in Adding(c, h) <=> prog["listener"] \in Adding(c, h)
             /\ prog'["listener"] \in Starting(c, h) <=> prog["listener"] \in Starting(c, h),
           \A c \in Conn : prog'[c] \in Leaving(reader[c]) => prog[c] \in Leaving(reader[c])
    PROVE  Owned'
<1>1. \A h \in Host : activeConnections[h] \in Conn \cup {Nil} BY Zenon DEF TypeOK
<1>2. ActiveUsable' BY Zenon, <1>1 DEF Owned, ActiveUsable
<1>3. ActiveIsRead' BY Zenon, <1>1 DEF Owned, ActiveIsRead
<1>4. PendingUnread' BY Zenon DEF Owned, Ownership, PendingUnread
<1>5. AddingFresh' BY Zenon DEF Owned, Ownership, AddingFresh
<1>6. OneOwner' BY Zenon DEF Owned, Ownership, OneOwner
<1>7. ReadUnderHost' BY Zenon DEF Owned, Ownership, ReadUnderHost
<1> QED BY Zenon, <1>2, <1>3, <1>4, <1>5, <1>6, <1>7 DEF Owned, Ownership

\* The programs of the handler that hold no connection to be read.
LEMMA NotDialling ==
    ASSUME NEW c, NEW h, NEW d, NEW k, NEW ty
    PROVE  /\ <<>> \notin Dialling(c, h) /\ <<End>> \notin Dialling(c, h)
           /\ <<Emit(ty, k), End>> \notin Dialling(c, h)
           /\ <<Drop(k), End>> \notin Dialling(c, h)
           /\ <<Write(d, k), End>> \notin Dialling(c, h)
           /\ <<Emit(ty, k), Drop(k), End>> \notin Dialling(c, h)
<1>1. Spawn(c, h) \notin {End, Emit(ty, k), Drop(k), Write(d, k)}
  <2>1. /\ Spawn(c, h).op = "spawn" /\ End.op = "end" /\ Emit(ty, k).op = "emit"
        /\ Drop(k).op = "drop" /\ Write(d, k).op = "write"
    BY OpNames
  <2> QED BY Zenon, <2>1
<1>2. Emit("Connected", h) \notin {End, Drop(k), Write(d, k)}
  <2>1. /\ Emit("Connected", h).op = "emit" /\ End.op = "end" /\ Drop(k).op = "drop"
        /\ Write(d, k).op = "write"
    BY OpNames
  <2> QED BY Zenon, <2>1
<1> QED BY Zenon, <1>1, <1>2 DEF Dialling

\* A reader that starts a program is not past its disconnect.
LEMMA NotLeaving ==
    ASSUME NEW h
    PROVE  /\ <<>> \notin Leaving(h) /\ <<Drop(h), End>> \notin Leaving(h)
           /\ <<Emit("Failed", h), Drop(h), End>> \notin Leaving(h)
           /\ \A s \in Seq(PushOp) : s \notin Leaving(h)
<1>1. Drop(h) # Emit("Disconnected", h)
  <2>1. Drop(h).op = "drop" /\ Emit("Disconnected", h).op = "emit" BY OpNames
  <2> QED BY Zenon, <2>1
<1>2. ASSUME NEW s \in Seq(PushOp) PROVE s \notin Leaving(h)
  <2>1. s # <<>> => s[1] \in PushOp OBVIOUS
  <2>2. s = <<End>> => s # <<>> /\ s[1] = End OBVIOUS
  <2>3. s = <<Emit("Disconnected", h), End>> => s # <<>> /\ s[1] = Emit("Disconnected", h)
    OBVIOUS
  <2>4. End.op = "end" /\ Emit("Disconnected", h).op = "emit" BY OpNames
  <2>5. \A x \in PushOp : x.op = "push" BY Zenon DEF PushOp
  <2> QED BY Zenon, <2>1, <2>2, <2>3, <2>4, <2>5 DEF Leaving
<1> QED BY Zenon, <1>1, <1>2 DEF Leaving

\* A dial that succeeds puts a connection nobody else has into the map.
LEMMA ConnectOwned ==
    ASSUME TypeOK, ReaderForm, Owned, NEW c \in Conn, connect(c)
    PROVE  Owned'
<1> DEFINE h == request.host
<1>1. h \in Host BY Zenon DEF connect, Serving, TypeOK, LayerTypeOK, Request
<1>2. /\ activeConnections' = [activeConnections EXCEPT ![h] = c]
      /\ socket' = [socket EXCEPT ![c] = "open"]
      /\ prog' = [prog EXCEPT !["handler"] =
                     <<Emit("Connected", h), Spawn(c, h), End>>]
      /\ reader' = reader /\ transportDone' = transportDone
  BY Zenon DEF connect, Run, layerVars
<1>3. reader[c] = Nil /\ \A k \in Host : activeConnections[k] # c
  BY Zenon DEF connect, Free, Unreferenced
<1>4. \A k : prog["listener"] \notin Adding(c, k) \cup Starting(c, k)
  BY Zenon, UnreferencedFacts DEF connect, Free
<1>5. /\ prog'["handler"] = <<Emit("Connected", h), Spawn(c, h), End>>
      /\ prog'["listener"] = prog["listener"] /\ \A d \in Conn : prog'[d] = prog[d]
  BY Zenon, <1>2, TcpAssumption DEF TypeOK, Goroutine
<1>6. prog'["handler"] \in Dialling(c, h) BY Zenon, <1>5 DEF Dialling
<1>7. \A d, k : prog'["handler"] \in Dialling(d, k) => d = c /\ k = h
  BY Zenon, <1>6, Unique
<1>8. \A k \in Host : activeConnections'[k] = IF k = h THEN c ELSE activeConnections[k]
  BY Zenon, <1>1, <1>2 DEF TypeOK
<1>9. \A d \in Conn : socket'[d] = IF d = c THEN "open" ELSE socket[d] BY Zenon, <1>2 DEF TypeOK
<1>10. \A k \in Host : activeConnections[k] \in Conn \cup {Nil} BY Zenon DEF TypeOK
<1>11. ActiveUsable' BY <1>2, <1>3, <1>8, <1>9, <1>10 DEF Owned, ActiveUsable
<1>12. prog["handler"] = <<>> BY Zenon DEF connect, Serving, Idle
<1>13. \A d, k : prog["handler"] \notin Dialling(d, k) BY Zenon, <1>12, NotDialling
<1>14. ActiveIsRead'
  BY <1>2, <1>5, <1>6, <1>8, <1>10, <1>13 DEF Owned, ActiveIsRead
<1>15. PendingUnread'
  <2> SUFFICES ASSUME NEW d \in Conn, NEW k \in Host,
                      \/ prog'["handler"] \in Dialling(d, k)
                      \/ prog'["listener"] \in Adding(d, k) \cup Starting(d, k)
               PROVE  reader'[d] = Nil /\ \A l \in Host : activeConnections'[l] = d => l = k
    BY Zenon DEF PendingUnread
  <2>1. CASE d = c BY <1>1, <1>2, <1>3, <1>4, <1>5, <1>7, <1>8, <2>1
  <2>2. CASE d # c
    BY <1>2, <1>5, <1>7, <1>8, <2>2 DEF Owned, Ownership, PendingUnread
  <2> QED BY Zenon, <2>1, <2>2
<1>16. AddingFresh'
  BY <1>2, <1>4, <1>5, <1>8, <1>9 DEF Owned, Ownership, AddingFresh
<1>17. OneOwner' BY Zenon, <1>4, <1>5, <1>7 DEF OneOwner
<1>18. prog[c] = <<>> BY Zenon, <1>3 DEF ReaderForm, Idle
<1>19. ReadUnderHost'
  <2>1. <<>> \notin Leaving(reader[c]) BY Zenon, NotLeaving
  <2> SUFFICES ASSUME NEW d \in Conn, NEW k \in Host, activeConnections'[k] = d
               PROVE  /\ reader'[d] # Nil => k = reader'[d]
                      /\ prog'[d] \notin Leaving(reader'[d])
    BY Zenon DEF ReadUnderHost
  <2>2. CASE d = c BY Zenon, <1>2, <1>3, <1>5, <1>18, <2>1, <2>2
  <2>3. CASE d # c BY <1>2, <1>5, <1>8, <2>3 DEF Owned, Ownership, ReadUnderHost
  <2> QED BY Zenon, <2>2, <2>3
<1> QED BY Zenon, <1>11, <1>14, <1>15, <1>16, <1>17, <1>19 DEF Owned, Ownership

\* Accepting a connection leaves the map alone.
LEMMA AcceptOwned ==
    ASSUME TypeOK, Owned, NEW c \in Conn, NEW h \in Inbound, accept(c, h)
    PROVE  Owned'
<1>1. h \in Host BY Zenon, TcpAssumption
<1>2. /\ activeConnections' = activeConnections
      /\ socket' = [socket EXCEPT ![c] = "open"]
      /\ prog' = [prog EXCEPT !["listener"] =
                     <<Add(c, h), Emit("Connected", h), Spawn(c, h)>>]
      /\ reader' = reader /\ transportDone' = transportDone
  BY Zenon DEF accept, Run, layerVars
<1>3. reader[c] = Nil /\ \A k \in Host : activeConnections[k] # c
  BY Zenon DEF accept, Free, Unreferenced
<1>4. \A k : prog["handler"] \notin Dialling(c, k) BY Zenon, UnreferencedFacts DEF accept, Free
<1>5. /\ prog'["listener"] = <<Add(c, h), Emit("Connected", h), Spawn(c, h)>>
      /\ prog'["handler"] = prog["handler"] /\ \A d \in Conn : prog'[d] = prog[d]
  BY Zenon, <1>2, TcpAssumption DEF TypeOK, Goroutine
<1>6. prog'["listener"] \in Adding(c, h) BY Zenon, <1>5 DEF Adding
<1>7. \A d, k : prog'["listener"] \in Adding(d, k) \cup Starting(d, k) => d = c /\ k = h
  BY Zenon, <1>6, Unique
<1>8. \A d \in Conn : socket'[d] = IF d = c THEN "open" ELSE socket[d] BY Zenon, <1>2 DEF TypeOK
<1>9. \A k \in Host : activeConnections[k] \in Conn \cup {Nil} BY Zenon DEF TypeOK
<1>10. prog["listener"] = <<>> BY Zenon DEF accept, Idle
<1>11. \A d, k : prog["listener"] \notin Starting(d, k) BY <1>10 DEF Starting
<1>12. ActiveUsable' BY Zenon, <1>2, <1>3, <1>8, <1>9 DEF Owned, ActiveUsable
<1>13. ActiveIsRead' BY Zenon, <1>2, <1>5, <1>9, <1>11 DEF Owned, ActiveIsRead
<1>14. PendingUnread'
  BY Zenon, <1>2, <1>3, <1>5, <1>7 DEF Owned, Ownership, PendingUnread
<1>15. AddingFresh' BY <1>2, <1>3, <1>7, <1>8 DEF AddingFresh
<1>16. OneOwner' BY Zenon, <1>4, <1>5, <1>7 DEF OneOwner
<1>17. ReadUnderHost' BY Zenon, <1>2, <1>5 DEF Owned, Ownership, ReadUnderHost
<1> QED BY Zenon, <1>12, <1>13, <1>14, <1>15, <1>16, <1>17 DEF Owned, Ownership

\* addActiveConn on the listener.
LEMMA AddOwned ==
    ASSUME TypeOK, ReaderForm, Owned, NEW c \in Conn, NEW h \in Host,
           prog["listener"] \in Adding(c, h), add("listener"),
           Arg("listener") = Link(c, h),
           prog'["listener"] = <<Emit("Connected", h), Spawn(c, h)>>
    PROVE  Owned'
<1>0. "listener" \in Goroutine BY Zenon DEF Goroutine
<1>1. Link(c, h).conn = c /\ Link(c, h).host = h BY OpNames
<1>2. /\ activeConnections' = [activeConnections EXCEPT ![h] = c]
      /\ socket' = socket /\ reader' = reader /\ transportDone' = transportDone
  BY Zenon, <1>1 DEF add, layerVars
<1>3. prog'["handler"] = prog["handler"] /\ \A d \in Conn : prog'[d] = prog[d]
  BY Zenon, <1>0, OthersKeep, TcpAssumption DEF Goroutine, ProgramStep
<1>4. prog'["listener"] \in Starting(c, h) BY Zenon DEF Starting
<1>5. \A d, k : prog'["listener"] \in Adding(d, k) \cup Starting(d, k) => d = c /\ k = h
  BY Zenon, <1>4, Unique
<1>6. \A d, k : prog'["listener"] \notin Adding(d, k) BY Zenon, <1>4, AddOrStart
<1>7. /\ reader[c] = Nil /\ (transportDone \/ socket[c] # "closed")
      /\ \A k \in Host : activeConnections[k] # c
  BY Zenon DEF Owned, Ownership, PendingUnread, AddingFresh
<1>8. \A k \in Host : prog["handler"] \notin Dialling(c, k)
  BY Zenon DEF Owned, Ownership, OneOwner
<1>9. \A k \in Host : activeConnections'[k] = IF k = h THEN c ELSE activeConnections[k]
  BY Zenon, <1>2 DEF TypeOK
<1>10. \A k \in Host : activeConnections[k] \in Conn \cup {Nil} BY Zenon DEF TypeOK
<1>11. \A d, k : prog["listener"] \notin Starting(d, k) BY Zenon, AddOrStart
<1>12. ActiveUsable' BY SMTT(30), <1>2, <1>7, <1>9, <1>10 DEF Owned, ActiveUsable
<1>13. ActiveIsRead'
  BY <1>2, <1>3, <1>4, <1>9, <1>10, <1>11 DEF Owned, ActiveIsRead
<1>14. PendingUnread'
  <2> SUFFICES ASSUME NEW d \in Conn, NEW k \in Host,
                      \/ prog'["handler"] \in Dialling(d, k)
                      \/ prog'["listener"] \in Adding(d, k) \cup Starting(d, k)
               PROVE  reader'[d] = Nil /\ \A l \in Host : activeConnections'[l] = d => l = k
    BY Zenon DEF PendingUnread
  <2>1. CASE d = c BY <1>2, <1>3, <1>5, <1>7, <1>8, <1>9, <2>1
  <2>2. CASE d # c
    <3>1. prog["handler"] \in Dialling(d, k) BY Zenon, <1>3, <1>5, <2>2
    <3>2. reader[d] = Nil /\ \A l \in Host : activeConnections[l] = d => l = k
      BY Zenon, <3>1 DEF Owned, Ownership, PendingUnread
    <3> QED BY Zenon, <1>2, <1>9, <2>2, <3>2
  <2> QED BY Zenon, <2>1, <2>2
<1>15. AddingFresh' BY Zenon, <1>6 DEF AddingFresh
<1>16. OneOwner' BY Zenon, <1>3, <1>5, <1>8 DEF OneOwner
<1>17. prog[c] = <<>> BY Zenon, <1>7 DEF ReaderForm, Idle
<1>18. ReadUnderHost'
  <2>1. <<>> \notin Leaving(reader[c]) BY Zenon, NotLeaving
  <2> SUFFICES ASSUME NEW d \in Conn, NEW k \in Host, activeConnections'[k] = d
               PROVE  /\ reader'[d] # Nil => k = reader'[d]
                      /\ prog'[d] \notin Leaving(reader'[d])
    BY Zenon DEF ReadUnderHost
  <2>2. CASE d = c BY Zenon, <1>2, <1>3, <1>7, <1>17, <2>1, <2>2
  <2>3. CASE d # c BY <1>2, <1>3, <1>9, <2>3 DEF Owned, Ownership, ReadUnderHost
  <2> QED BY Zenon, <2>2, <2>3
<1> QED BY Zenon, <1>12, <1>13, <1>14, <1>15, <1>16, <1>18 DEF Owned, Ownership

\* Starting the reader of c, by the handler or by the listener.
LEMMA SpawnOwned ==
    ASSUME TypeOK, ReaderForm, Owned, NEW c \in Conn, NEW h \in Host,
           reader' = [reader EXCEPT ![c] = h],
           UNCHANGED <<activeConnections, socket, transportDone>>,
           \A d \in Conn : prog'[d] = prog[d],
           \/ /\ prog["handler"] \in Dialling(c, h) /\ prog'["listener"] = prog["listener"]
              /\ \A d, k : prog'["handler"] \notin Dialling(d, k)
           \/ /\ prog["listener"] \in Starting(c, h) /\ prog'["handler"] = prog["handler"]
              /\ \A d, k : prog'["listener"] \notin Adding(d, k) \cup Starting(d, k)
    PROVE  Owned'
<1>1. \A d \in Conn : reader'[d] = IF d = c THEN h ELSE reader[d] BY Zenon DEF TypeOK
<1>2. reader[c] = Nil /\ \A k \in Host : activeConnections[k] = c => k = h
  BY Zenon DEF Owned, Ownership, PendingUnread
<1>3. \A d \in Conn, k \in Host :
        /\ prog'["handler"] \in Dialling(d, k) => prog["handler"] \in Dialling(d, k) /\ d # c
        /\ prog'["listener"] \in Adding(d, k) => prog["listener"] \in Adding(d, k) /\ d # c
        /\ prog'["listener"] \in Starting(d, k) => prog["listener"] \in Starting(d, k) /\ d # c
  BY Zenon DEF Owned, Ownership, OneOwner
<1>4. \A d \in Conn, k \in Host : d # c =>
        /\ prog["handler"] \in Dialling(d, k) => prog'["handler"] \in Dialling(d, k)
        /\ prog["listener"] \in Starting(d, k) => prog'["listener"] \in Starting(d, k)
  BY Zenon, Unique
<1>5. \A k \in Host : activeConnections[k] \in Conn \cup {Nil} BY Zenon DEF TypeOK
<1>6. ActiveUsable' BY Zenon DEF Owned, ActiveUsable
<1>7. ActiveIsRead'
  <2> SUFFICES ASSUME ~transportDone, NEW k \in Host, NEW d \in Conn,
                      activeConnections[k] = d
               PROVE  \/ reader'[d] = k
                      \/ prog'["handler"] \in Dialling(d, k)
                      \/ prog'["listener"] \in Starting(d, k)
    BY Zenon, <1>5 DEF ActiveIsRead
  <2>1. CASE d = c BY Zenon, <1>1, <1>2, <2>1
  <2>2. CASE d # c
    <3>1. d # Nil BY Zenon, TcpAssumption
    <3> QED BY <1>1, <1>4, <2>2, <3>1 DEF Owned, ActiveIsRead
  <2> QED BY Zenon, <2>1, <2>2
<1>8. PendingUnread' BY Zenon, <1>1, <1>3 DEF Owned, Ownership, PendingUnread
<1>9. AddingFresh' BY Zenon, <1>3 DEF Owned, Ownership, AddingFresh
<1>10. OneOwner' BY Zenon, <1>3 DEF Owned, Ownership, OneOwner
<1>11. prog[c] = <<>> BY Zenon, <1>2 DEF ReaderForm, Idle
<1>12. <<>> \notin Leaving(h) BY Zenon, NotLeaving
<1>13. ReadUnderHost' BY <1>1, <1>2, <1>11, <1>12 DEF Owned, Ownership, ReadUnderHost
<1> QED BY Zenon, <1>6, <1>7, <1>8, <1>9, <1>10, <1>13 DEF Owned, Ownership

\* disconnect(a), by the handler or by the reader of a's connection.
LEMMA DropOwned ==
    ASSUME TypeOK, Owned, NEW a \in Host,
           activeConnections' = [activeConnections EXCEPT ![a] = Nil],
           \A d \in Conn : socket'[d] = IF d = activeConnections[a] THEN "closed" ELSE socket[d],
           reader' = reader, transportDone' = transportDone,
           \A c \in Conn, h \in Host :
             /\ prog'["handler"] \in Dialling(c, h) <=> prog["handler"] \in Dialling(c, h)
             /\ prog'["listener"] \in Adding(c, h) <=> prog["listener"] \in Adding(c, h)
             /\ prog'["listener"] \in Starting(c, h) <=> prog["listener"] \in Starting(c, h),
           \A c \in Conn : prog'[c] \in Leaving(reader[c]) =>
             prog[c] \in Leaving(reader[c]) \/ reader[c] = a
    PROVE  Owned'
<1>1. \A k \in Host : activeConnections'[k] = IF k = a THEN Nil ELSE activeConnections[k]
  BY Zenon DEF TypeOK
<1>2. \A k \in Host : activeConnections[k] \in Conn \cup {Nil} BY Zenon DEF TypeOK
<1>3. ActiveUsable'
  <2> SUFFICES ASSUME ~transportDone, NEW k \in Host, activeConnections'[k] # Nil
               PROVE  /\ socket'[activeConnections'[k]] # "closed"
                      /\ \A l \in Host : activeConnections'[l] = activeConnections'[k] => l = k
    BY Zenon DEF ActiveUsable
  <2>1. k # a /\ activeConnections'[k] = activeConnections[k] /\ activeConnections[k] \in Conn
    BY Zenon, <1>1, <1>2
  <2>2. /\ socket[activeConnections[k]] # "closed"
        /\ \A l \in Host : activeConnections[l] = activeConnections[k] => l = k
    BY Zenon, <1>1, <2>1 DEF Owned, ActiveUsable
  <2> QED BY Zenon, <1>1, <2>1, <2>2
<1>4. ActiveIsRead' BY <1>1, <1>2 DEF Owned, ActiveIsRead
<1>5. Nil \notin Conn BY Zenon, TcpAssumption
<1>6. PendingUnread' BY SMTT(30), <1>1, <1>5 DEF Owned, Ownership, PendingUnread
<1>7. AddingFresh' BY <1>1, <1>5 DEF Owned, Ownership, AddingFresh
<1>8. OneOwner' BY Zenon DEF Owned, Ownership, OneOwner
<1>9. ReadUnderHost'
  <2> SUFFICES ASSUME NEW d \in Conn, NEW k \in Host, activeConnections'[k] = d
               PROVE  /\ reader[d] # Nil => k = reader[d]
                      /\ prog'[d] \notin Leaving(reader[d])
    BY Zenon DEF ReadUnderHost
  <2>1. k # a /\ activeConnections[k] = d BY Zenon, <1>1, <1>5
  <2>2. (reader[d] # Nil => k = reader[d]) /\ prog[d] \notin Leaving(reader[d])
    BY Zenon, <2>1 DEF Owned, Ownership, ReadUnderHost
  <2>3. a # Nil BY Zenon, LayerAssumption
  <2> QED BY Zenon, <2>1, <2>2, <2>3
<1> QED BY Zenon, <1>3, <1>4, <1>6, <1>7, <1>8, <1>9 DEF Owned, Ownership

\* A reader that ends has left the map; one that sees the cancellation, and
\* closeOnCtxDone, come after the cancellation.
LEMMA EndOwned ==
    ASSUME TypeOK, Owned, NEW c \in Conn,
           reader' = [reader EXCEPT ![c] = Nil],
           UNCHANGED <<activeConnections, transportDone>>,
           \A d \in Conn : d # c => socket'[d] = socket[d] /\ prog'[d] = prog[d],
           prog'["handler"] = prog["handler"], prog'["listener"] = prog["listener"],
           prog'[c] = <<>>,
           transportDone \/ (socket' = socket /\ prog[c] \in Leaving(reader[c]))
    PROVE  Owned'
<1>1. \A d \in Conn : reader'[d] = IF d = c THEN Nil ELSE reader[d] BY Zenon DEF TypeOK
<1>2. transportDone \/ \A k \in Host : activeConnections[k] # c
  BY Zenon DEF Owned, Ownership, ReadUnderHost
<1>3. \A k \in Host : activeConnections[k] \in Conn \cup {Nil} BY Zenon DEF TypeOK
<1>4. ActiveUsable' BY Zenon DEF Owned, ActiveUsable
<1>5. ActiveIsRead' BY ZenonT(40), <1>1, <1>2, <1>3 DEF Owned, ActiveIsRead
<1>6. PendingUnread' BY <1>1 DEF Owned, Ownership, PendingUnread
<1>7. AddingFresh' BY Zenon DEF Owned, Ownership, AddingFresh
<1>8. OneOwner' BY Zenon DEF Owned, Ownership, OneOwner
<1>9. <<>> \notin Leaving(Nil) BY Zenon, NotLeaving
<1>10. ReadUnderHost' BY <1>1, <1>9 DEF Owned, Ownership, ReadUnderHost
<1> QED BY Zenon, <1>4, <1>5, <1>6, <1>7, <1>8, <1>10 DEF Owned, Ownership

\* Steps of a program that touch no connection: an event, a message, a write.
LEMMA QuietOwned ==
    ASSUME TypeOK, HandlerForm, ListenerForm, ReaderForm, Owned,
           NEW g \in Goroutine, emit(g) \/ push(g) \/ write(g)
    PROVE  Owned'
<1>0. ProgramStep(g) BY Zenon DEF ProgramStep
<1>1. /\ UNCHANGED <<activeConnections, socket, reader, transportDone>>
      /\ \A k \in Goroutine : k # g => prog'[k] = prog[k]
  BY Zenon, <1>0, OthersKeep DEF emit, push, write, conns, layerVars
<1>2. /\ "handler" \in Goroutine /\ "listener" \in Goroutine /\ Conn \subseteq Goroutine
      /\ "handler" # "listener" /\ "handler" \notin Conn /\ "listener" \notin Conn
  BY Zenon, TcpAssumption DEF Goroutine
<1>3. ~drop(g) /\ ~spawn(g) /\ ~add(g)
  BY Zenon DEF emit, push, write, drop, spawn, add, Doing
<1>4. CASE g = "handler"
  <2>1. \A c, h : prog'["handler"] \in Dialling(c, h) <=> prog["handler"] \in Dialling(c, h)
    <3> DEFINE h == request.host
    <3>1. ASSUME NEW d \in Conn,
                 prog["handler"] = <<Emit("Connected", h), Spawn(d, h), End>>,
                 prog'["handler"] = <<Spawn(d, h), End>>
          PROVE  \A c, k : prog'["handler"] \in Dialling(c, k)
                           <=> prog["handler"] \in Dialling(c, k)
      <4>1. prog["handler"] \in Dialling(d, h) /\ prog'["handler"] \in Dialling(d, h)
        BY Zenon, <3>1 DEF Dialling
      <4> QED BY Zenon, <4>1, Unique
    <3>2. ASSUME \/ prog["handler"] \in {<<Emit("Failed", h), End>>,
                                         <<Emit("Disconnected", h), End>>,
                                         <<Emit("Failed", h), Drop(h), End>>}
                 \/ \E d \in Conn : prog["handler"] = <<Write(d, h), End>>,
                 prog'["handler"] \in {<<End>>, <<Drop(h), End>>,
                                      <<Emit("Failed", h), Drop(h), End>>}
          PROVE  \A c, k : prog'["handler"] \in Dialling(c, k)
                           <=> prog["handler"] \in Dialling(c, k)
      <4> TAKE c, k
      <4>1. prog'["handler"] \notin Dialling(c, k) BY Zenon, <3>2, NotDialling
      <4>2. prog["handler"] \notin Dialling(c, k) BY Zenon, <3>2, NotDialling
      <4> QED BY Zenon, <4>1, <4>2
    <3>3. ~drop("handler") /\ ~spawn("handler") BY Zenon, <1>3, <1>4
    <3>4. CASE request.op = "connect" BY Zenon, <1>0, <1>4, <3>1, <3>2, <3>3, <3>4, HandlerMoves
    <3>5. CASE request.op # "connect"
      <4>1. /\ \/ prog["handler"] \in {<<Emit("Failed", h), End>>,
                                        <<Emit("Disconnected", h), End>>,
                                        <<Emit("Failed", h), Drop(h), End>>}
               \/ \E d \in Conn : prog["handler"] = <<Write(d, h), End>>
            /\ prog'["handler"] \in {<<End>>, <<Drop(h), End>>,
                                      <<Emit("Failed", h), Drop(h), End>>}
        BY Zenon, <1>0, <1>4, <3>3, <3>5, HandlerMoves
      <4> QED BY Zenon, <3>2, <4>1
    <3> QED BY Zenon, <3>4, <3>5
  <2>2. prog'["listener"] = prog["listener"] /\ \A c \in Conn : prog'[c] = prog[c]
    BY Zenon, <1>1, <1>2, <1>4
  <2> QED BY Zenon, <1>1, <2>1, <2>2, OwnedFrame
<1>5. CASE g = "listener"
  <2>1. PICK c \in Conn, h \in Inbound :
          /\ prog["listener"] = <<Emit("Connected", h), Spawn(c, h)>>
          /\ prog'["listener"] = <<Spawn(c, h)>>
    BY Zenon, <1>0, <1>3, <1>5, ListenerMoves
  <2>2. prog["listener"] \in Starting(c, h) /\ prog'["listener"] \in Starting(c, h)
    BY Zenon, <2>1 DEF Starting
  <2>4. prog'["handler"] = prog["handler"] /\ \A d \in Conn : prog'[d] = prog[d]
    BY Zenon, <1>1, <1>2, <1>5
  <2>5. \A d \in Conn, k \in Host :
          /\ prog'["listener"] \in Adding(d, k) <=> prog["listener"] \in Adding(d, k)
          /\ prog'["listener"] \in Starting(d, k) <=> prog["listener"] \in Starting(d, k)
    <3> TAKE d \in Conn, k \in Host
    <3>1. prog'["listener"] \notin Adding(d, k) /\ prog["listener"] \notin Adding(d, k)
      BY Zenon, <2>2, AddOrStart
    <3>2. prog'["listener"] \in Starting(d, k) <=> prog["listener"] \in Starting(d, k)
      BY Zenon, <2>2, Unique
    <3> QED BY Zenon, <3>1, <3>2
  <2> QED BY Zenon, <1>1, <2>4, <2>5, OwnedFrame
<1>6. CASE g \in Conn
  <2>1. prog'[g] \in Leaving(reader[g]) => prog[g] \in Leaving(reader[g])
    <3>1. \/ prog'[g] \in Seq(PushOp) \/ prog'[g] = <<Drop(reader[g]), End>>
          \/ prog[g] = <<Emit("Disconnected", reader[g]), End>>
      BY Zenon, <1>0, <1>3, <1>6, ReaderMoves
    <3> QED BY Zenon, <3>1, NotLeaving DEF Leaving
  <2> QED BY Zenon, <1>1, <1>2, <1>6, <2>1, OwnedFrame
<1> QED BY Zenon, <1>4, <1>5, <1>6 DEF Goroutine

\* So does the disconnect of a host, by the handler or by a reader.
LEMMA DropStepOwned ==
    ASSUME TypeOK, HandlerForm, ListenerForm, ReaderForm, Owned,
           NEW g \in Goroutine, drop(g)
    PROVE  Owned'
<1> DEFINE a == Arg(g)
<1>0. ProgramStep(g) BY Zenon DEF ProgramStep
<1>1. ~emit(g) /\ ~push(g) /\ ~write(g) /\ ~spawn(g) /\ ~add(g)
  BY Zenon DEF emit, push, write, drop, spawn, add, Doing
<1>2. a \in Host BY Zenon, ArgTypes DEF drop
<1>3. activeConnections' = [activeConnections EXCEPT ![a] = Nil]
  BY Zenon, <1>2 DEF drop, TypeOK
<1>4. \A d \in Conn : socket'[d] = IF d = activeConnections[a] THEN "closed" ELSE socket[d]
  BY Zenon, <1>2, TcpAssumption DEF drop, TypeOK
<1>5. reader' = reader /\ transportDone' = transportDone BY Zenon DEF drop, layerVars
<1>6. \A k \in Goroutine : k # g => prog'[k] = prog[k] BY Zenon, <1>0, OthersKeep
<1>7. /\ "handler" \in Goroutine /\ "listener" \in Goroutine /\ Conn \subseteq Goroutine
      /\ "handler" # "listener" /\ "handler" \notin Conn /\ "listener" \notin Conn
  BY Zenon, TcpAssumption DEF Goroutine
<1> HIDE DEF a
<1>8. g # "listener"
  <2> SUFFICES ASSUME g = "listener" PROVE FALSE BY Zenon
  <2>1. ProgramStep("listener") /\ ~add("listener") /\ ~emit("listener") /\ ~spawn("listener")
    BY Zenon, <1>0, <1>1
  <2> QED BY Zenon, <2>1, ListenerMoves
<1>9. CASE g = "handler"
  <2>1. /\ ProgramStep("handler") /\ ~emit("handler") /\ ~spawn("handler")
        /\ ~write("handler")
    BY Zenon, <1>0, <1>1, <1>9
  <2>2. /\ prog["handler"] = <<Drop(request.host), End>>
        /\ prog'["handler"] \in {<<End>>, <<Emit("Disconnected", request.host), End>>}
    BY Zenon, <2>1, HandlerMoves
  <2>3. \A c \in Conn, h \in Host : /\ prog'["handler"] \notin Dialling(c, h)
                                   /\ prog["handler"] \notin Dialling(c, h)
    BY Zenon, <2>2, NotDialling
  <2>4. prog'["listener"] = prog["listener"] /\ \A c \in Conn : prog'[c] = prog[c]
    BY Zenon, <1>6, <1>7, <1>9
  <2> QED BY Zenon, <1>2, <1>3, <1>4, <1>5, <2>3, <2>4, DropOwned
<1>10. CASE g \in Conn
  <2>1. Arg(g) = reader[g] BY Zenon, <1>0, <1>1, <1>10, ReaderMoves
  <2>2. prog'["listener"] = prog["listener"] /\ prog'["handler"] = prog["handler"]
    BY Zenon, <1>6, <1>7, <1>10
  <2>3. \A c \in Conn : prog'[c] \in Leaving(reader[c]) =>
          prog[c] \in Leaving(reader[c]) \/ reader[c] = a
    BY Zenon, <1>6, <1>7, <2>1 DEF a
  <2> QED BY Zenon, <1>2, <1>3, <1>4, <1>5, <2>2, <2>3, DropOwned
<1> QED BY Zenon, <1>8, <1>9, <1>10 DEF Goroutine

\* So do adding a connection to the map and starting to read one.
LEMMA StartStepOwned ==
    ASSUME TypeOK, HandlerForm, ListenerForm, ReaderForm, Owned,
           NEW g \in Goroutine, add(g) \/ spawn(g)
    PROVE  Owned'
<1>0. ProgramStep(g) BY Zenon DEF ProgramStep
<1>1. ~emit(g) /\ ~push(g) /\ ~write(g) /\ ~drop(g) /\ ~(add(g) /\ spawn(g))
  BY Zenon DEF emit, push, write, drop, spawn, add, Doing
<1>2. \A k \in Goroutine : k # g => prog'[k] = prog[k] BY Zenon, <1>0, OthersKeep
<1>3. /\ "handler" \in Goroutine /\ "listener" \in Goroutine /\ Conn \subseteq Goroutine
      /\ "handler" # "listener" /\ "handler" \notin Conn /\ "listener" \notin Conn
  BY Zenon, TcpAssumption DEF Goroutine
<1>4. ASSUME NEW c \in Conn, NEW h \in Host, spawn(g), Arg(g) = Link(c, h)
      PROVE  /\ reader' = [reader EXCEPT ![c] = h]
             /\ UNCHANGED <<activeConnections, socket, transportDone>>
  <2>1. Arg(g).conn = c /\ Arg(g).host = h BY <1>4 DEF Link
  <2> QED BY Zenon, <1>4, <2>1 DEF spawn, layerVars
<1>5. CASE g = "handler"
  <2>1. ProgramStep("handler") /\ ~emit("handler") /\ ~drop("handler") /\ ~write("handler")
    BY Zenon, <1>0, <1>1, <1>5
  <2>2. PICK c \in Conn : /\ prog["handler"] = <<Spawn(c, request.host), End>>
                          /\ prog'["handler"] = <<End>>
                          /\ spawn("handler") /\ Arg("handler") = Link(c, request.host)
    BY Zenon, <2>1, HandlerMoves
  <2>3. request.host \in Host BY Zenon, <2>1, HandlerMoves DEF Request
  <2>4. prog["handler"] \in Dialling(c, request.host) BY Zenon, <2>2 DEF Dialling
  <2>5. \A d, k : prog'["handler"] \notin Dialling(d, k) BY Zenon, <2>2, NotDialling
  <2>6. prog'["listener"] = prog["listener"] /\ \A d \in Conn : prog'[d] = prog[d]
    BY Zenon, <1>2, <1>3, <1>5
  <2>7. /\ reader' = [reader EXCEPT ![c] = request.host]
        /\ UNCHANGED <<activeConnections, socket, transportDone>>
    BY Zenon, <1>4, <1>5, <2>2, <2>3
  <2> QED BY Zenon, <2>3, <2>4, <2>5, <2>6, <2>7, SpawnOwned
<1>6. CASE g = "listener"
  <2>1. ProgramStep("listener") /\ ~emit("listener") BY Zenon, <1>0, <1>1, <1>6
  <2>2. PICK c \in Conn, h \in Inbound :
          \/ /\ prog["listener"] \in Adding(c, h) /\ add("listener")
             /\ Arg("listener") = Link(c, h)
             /\ prog'["listener"] = <<Emit("Connected", h), Spawn(c, h)>>
          \/ /\ prog["listener"] = <<Spawn(c, h)>> /\ spawn("listener")
             /\ Arg("listener") = Link(c, h) /\ prog'["listener"] = <<>>
    BY Zenon, <2>1, ListenerMoves
  <2>3. h \in Host BY Zenon, TcpAssumption
  <2>4. CASE add(g) BY Zenon, <1>1, <1>6, <2>2, <2>3, <2>4, AddOwned
  <2>5. CASE spawn(g)
    <3>1. /\ prog["listener"] = <<Spawn(c, h)>> /\ prog'["listener"] = <<>>
          /\ Arg("listener") = Link(c, h)
      BY Zenon, <1>1, <1>6, <2>2, <2>5
    <3>2. prog["listener"] \in Starting(c, h) BY Zenon, <3>1 DEF Starting
    <3>3. \A d, k : prog'["listener"] \notin Adding(d, k) \cup Starting(d, k)
      BY <3>1 DEF Adding, Starting
    <3>4. prog'["handler"] = prog["handler"] /\ \A d \in Conn : prog'[d] = prog[d]
      BY Zenon, <1>2, <1>3, <1>6
    <3>5. /\ reader' = [reader EXCEPT ![c] = h]
          /\ UNCHANGED <<activeConnections, socket, transportDone>>
      BY Zenon, <1>4, <1>6, <2>3, <2>5, <3>1
    <3> QED BY Zenon, <2>3, <3>2, <3>3, <3>4, <3>5, SpawnOwned
  <2> QED BY Zenon, <2>4, <2>5
<1>7. g \notin Conn BY Zenon, <1>0, <1>1, ReaderMoves
<1> QED BY Zenon, <1>5, <1>6, <1>7 DEF Goroutine

\* What the handler does with a call it takes moves no connection but the one
\* it dials.
LEMMA HandlerOwned ==
    ASSUME TypeOK, ReaderForm, Owned, HandlerForm, HandlerForm', HandlerStep
    PROVE  Owned'
<1>0. /\ "handler" \in Goroutine /\ "listener" \in Goroutine /\ Conn \subseteq Goroutine
      /\ "handler" # "listener" /\ "handler" \notin Conn
  BY Zenon, TcpAssumption DEF Goroutine
<1>1. ASSUME NEW c \in Conn, connect(c) PROVE Owned' BY Zenon, <1>1, ConnectOwned
<1>2. CASE HandlerReturns
  BY Zenon, <1>2, OwnedFrame DEF HandlerReturns, layerVars, conns
<1>3. CASE connectFails \/ disconnect \/ send
  <2>1. /\ UNCHANGED <<activeConnections, socket, reader, transportDone>>
        /\ prog["handler"] = <<>>
    BY Zenon, <1>3 DEF connectFails, disconnect, send, Serving, Idle, layerVars, conns
  <2>2. \/ prog'["handler"] \in {<<End>>, <<Drop(request.host), End>>,
                                 <<Emit("Failed", request.host), End>>}
        \/ \E d : prog'["handler"] = <<Write(d, request.host), End>>
    <3>1. \A s : Run("handler", s) => prog'["handler"] = s BY Zenon, <1>0 DEF Run, TypeOK
    <3>2. CASE send BY Zenon, <3>1, <3>2 DEF send
    <3> QED BY Zenon, <1>3, <3>1, <3>2 DEF connectFails, disconnect
  <2>3. \A c \in Conn, h \in Host : /\ prog'["handler"] \notin Dialling(c, h)
                                   /\ prog["handler"] \notin Dialling(c, h)
    BY Zenon, <2>1, <2>2, NotDialling
  <2>4. prog'["listener"] = prog["listener"] /\ \A c \in Conn : prog'[c] = prog[c]
    BY Zenon, <1>0, <1>3 DEF connectFails, disconnect, send, Run, TypeOK
  <2> QED BY Zenon, <2>1, <2>3, <2>4, OwnedFrame
<1>4. CASE endRequest
  <2>1. UNCHANGED <<activeConnections, socket, reader, transportDone>>
    BY Zenon, <1>4 DEF endRequest, conns
  <2>2. \A c \in Conn, h \in Host : prog["handler"] \notin Dialling(c, h)
    <3> TAKE c \in Conn, h \in Host
    <3>1. prog["handler"] = <<Spawn(c, h), End>> => Head(prog["handler"]) = Spawn(c, h)
      OBVIOUS
    <3>2. prog["handler"] = <<Emit("Connected", h), Spawn(c, h), End>> =>
            Head(prog["handler"]) = Emit("Connected", h)
      OBVIOUS
    <3>3. Head(prog["handler"]).op = "end" BY Zenon, <1>4 DEF endRequest, Doing
    <3> QED BY SMTT(30), <3>1, <3>2, <3>3, OpNames DEF Dialling
  <2>3. \A c \in Conn, h \in Host : prog'["handler"] \notin Dialling(c, h)
    <3>1. request' = Nil BY Zenon, <1>4 DEF endRequest
    <3>2. prog'["handler"] = <<>> BY Zenon, <3>1 DEF HandlerForm, Idle
    <3> QED BY Zenon, <3>2, NotDialling
  <2>4. prog'["listener"] = prog["listener"] /\ \A c \in Conn : prog'[c] = prog[c]
    BY Zenon, <1>0, <1>4 DEF endRequest, Done, Run, TypeOK
  <2> QED BY Zenon, <2>1, <2>2, <2>3, <2>4, OwnedFrame
<1> QED BY Zenon, <1>1, <1>2, <1>3, <1>4 DEF HandlerStep

\* A reader returns when it has nothing else to do.
LEMMA EndsReader ==
    ASSUME ReaderForm, NEW c \in Conn, endReader(c)
    PROVE  prog[c] = <<End>>
<1>1. Head(prog[c]).op = "end" /\ prog[c] # <<>> BY Zenon DEF endReader, Doing
<1>2. ASSUME prog[c] \in Seq(PushOp) PROVE FALSE
  <2>1. Head(prog[c]) \in PushOp BY <1>1, <1>2
  <2> QED BY Zenon, <1>1, <2>1 DEF PushOp
<1>3. ASSUME NEW h
      PROVE  /\ Head(<<Emit("Failed", h), Drop(h), End>>) = Emit("Failed", h)
             /\ Head(<<Drop(h), End>>) = Drop(h)
             /\ Head(<<Emit("Disconnected", h), End>>) = Emit("Disconnected", h)
  OBVIOUS
<1>4. Head(prog[c]) # Emit("Failed", reader[c]) /\ Head(prog[c]) # Drop(reader[c])
      /\ Head(prog[c]) # Emit("Disconnected", reader[c])
  BY <1>1, OpNames
<1> QED BY Zenon, <1>1, <1>2, <1>3, <1>4 DEF ReaderForm, Idle, Leaving, PushOp

\* A reader that starts to act on what it read owns its connection still; one
\* that returns leaves a connection that is out of the map.
LEMMA ReaderOwned ==
    ASSUME TypeOK, ReaderForm, Owned, NEW c \in Conn, ReaderStep(c)
    PROVE  Owned'
<1>0. /\ c \in Goroutine /\ "handler" \in Goroutine /\ "listener" \in Goroutine
      /\ Conn \subseteq Goroutine /\ c # "handler" /\ c # "listener"
  BY Zenon, TcpAssumption DEF Goroutine
<1>1. ASSUME NEW s, Run(c, s)
      PROVE  /\ prog'[c] = s /\ \A d \in Conn : d # c => prog'[d] = prog[d]
             /\ prog'["handler"] = prog["handler"] /\ prog'["listener"] = prog["listener"]
  BY Zenon, <1>0, <1>1 DEF Run, TypeOK
<1>2. ASSUME NEW s, Run(c, s), s \notin Leaving(reader[c]),
             UNCHANGED <<activeConnections, socket, reader, transportDone>>
      PROVE  Owned'
  <2>1. \A d \in Conn : prog'[d] \in Leaving(reader[d]) => prog[d] \in Leaving(reader[d])
    BY Zenon, <1>1, <1>2
  <2> QED BY Zenon, <1>1, <1>2, <2>1, OwnedFrame
<1>3. ASSUME NEW ms \in Batch(c), readFrames(c, ms) PROVE Owned'
  <2>1. [i \in DOMAIN ms |-> Push(ms[i])] \in Seq(PushOp)
    BY Zenon, <1>3, BatchTypes DEF readFrames, Reading
  <2>2. [i \in DOMAIN ms |-> Push(ms[i])] \notin Leaving(reader[c]) BY Zenon, <2>1, NotLeaving
  <2> QED BY Zenon, <1>2, <1>3, <2>2 DEF readFrames, layerVars, conns
<1>4. CASE readBadFrame(c)
  BY Zenon, <1>2, <1>4, NotLeaving DEF readBadFrame, layerVars, conns
<1>5. CASE readError(c)
  BY Zenon, <1>2, <1>5, NotLeaving DEF readError, layerVars, conns
<1>6. CASE readerSeesDone(c)
  <2>1. /\ reader' = [reader EXCEPT ![c] = Nil] /\ transportDone
        /\ UNCHANGED <<activeConnections, transportDone, prog>> /\ prog[c] = <<>>
    BY Zenon, <1>6 DEF readerSeesDone, Reading, Idle, layerVars
  <2>2. \A d \in Conn : d # c => socket'[d] = socket[d]
    BY Zenon, <1>6 DEF readerSeesDone, TypeOK
  <2> QED BY Zenon, <2>1, <2>2, EndOwned
<1>7. CASE endReader(c)
  <2>2. prog[c] = <<End>> BY Zenon, <1>7, EndsReader
  <2>3. prog[c] \in Leaving(reader[c]) BY Zenon, <2>2 DEF Leaving
  <2>4. Tail(prog[c]) = <<>> BY <2>2
  <2>5. /\ prog'[c] = <<>> /\ \A d \in Conn : d # c => prog'[d] = prog[d]
        /\ prog'["handler"] = prog["handler"] /\ prog'["listener"] = prog["listener"]
    BY Zenon, <1>1, <1>7, <2>4 DEF endReader, Done
  <2>6. /\ reader' = [reader EXCEPT ![c] = Nil]
        /\ UNCHANGED <<activeConnections, transportDone, socket>>
    BY Zenon, <1>7 DEF endReader, layerVars
  <2> QED BY Zenon, <2>3, <2>5, <2>6, EndOwned
<1> QED BY Zenon, <1>3, <1>4, <1>5, <1>6, <1>7 DEF ReaderStep

\* Every step keeps who owns which connection, and the map sound.
LEMMA OwnedStep ==
    ASSUME TypeOK, HandlerForm, ListenerForm, ReaderForm, Owned, HandlerForm', [Next]_vars
    PROVE  Owned'
<1>1. ASSUME NEW g \in Goroutine, ProgramStep(g) PROVE Owned'
  BY Zenon, <1>1, QuietOwned, DropStepOwned, StartStepOwned DEF ProgramStep
<1>2. ASSUME NEW c \in Conn, NEW h \in Inbound, accept(c, h) PROVE Owned'
  BY Zenon, <1>2, AcceptOwned
<1>3. ASSUME NEW c \in Conn, PeerCloses(c) PROVE Owned'
  <2>1. UNCHANGED <<activeConnections, reader, transportDone, prog>>
    BY Zenon, <1>3 DEF PeerCloses, layerVars
  <2>2. \A d \in Conn : socket'[d] = "closed" => socket[d] = "closed"
    BY Zenon, <1>3 DEF PeerCloses, TypeOK
  <2> QED BY Zenon, <2>1, <2>2, OwnedFrame
<1>4. ASSUME NEW c \in Conn, collect(c) PROVE Owned'
  <2>1. UNCHANGED <<activeConnections, reader, transportDone, prog>>
    BY Zenon, <1>4 DEF collect, layerVars
  <2>2. /\ \A d \in Conn : d # c => socket'[d] = socket[d]
        /\ Unreferenced(c) /\ \A h \in Host : activeConnections[h] # c
    BY Zenon, <1>4 DEF collect, Unreferenced, TypeOK
  <2>3. \A h \in Host : prog["listener"] \notin Adding(c, h) BY Zenon, <2>2, UnreferencedFacts
  <2>4. \A h \in Host : activeConnections[h] \in Conn \cup {Nil} BY Zenon DEF TypeOK
  <2>5. ActiveUsable' BY Zenon, <2>1, <2>2, <2>4 DEF Owned, ActiveUsable
  <2>6. AddingFresh' BY Zenon, <2>1, <2>2, <2>3 DEF Owned, Ownership, AddingFresh
  <2>7. /\ ActiveIsRead' /\ PendingUnread' /\ OneOwner' /\ ReadUnderHost'
    BY Zenon, <2>1 DEF Owned, Ownership, ActiveIsRead, PendingUnread, OneOwner, ReadUnderHost
  <2> QED BY Zenon, <2>5, <2>6, <2>7 DEF Owned, Ownership
<1>5. CASE closeOnCtxDone
  <2>1. /\ UNCHANGED <<reader, transportDone, prog>> /\ transportDone
        /\ \A h \in Host : activeConnections'[h] = Nil
    BY Zenon, <1>5 DEF closeOnCtxDone, layerVars
  <2>2. Nil \notin Conn BY Zenon, TcpAssumption
  <2>3. ActiveUsable' /\ ActiveIsRead' BY Zenon, <2>1 DEF ActiveUsable, ActiveIsRead
  <2>4. /\ PendingUnread' /\ AddingFresh' /\ OneOwner' /\ ReadUnderHost'
    BY <2>1, <2>2 DEF Owned, Ownership, PendingUnread, AddingFresh, OneOwner, ReadUnderHost
  <2> QED BY Zenon, <2>3, <2>4 DEF Owned, Ownership
<1>6. CASE ListenerReturns \/ UserReadsEvent \/ UserReadsMessage \/ Cancel
           \/ (\E r \in UserRequest : UserCalls(r)) \/ UNCHANGED vars
  <2>1. /\ UNCHANGED <<activeConnections, socket, reader, prog>>
        /\ transportDone => transportDone'
    BY <1>6 DEF ListenerReturns, UserReadsEvent, UserReadsMessage, Cancel, UserCalls, vars,
                tcpVars, layerVars, conns
  <2> QED BY Zenon, <2>1, OwnedFrame
<1> QED
  BY Zenon, <1>1, <1>2, <1>3, <1>4, <1>5, <1>6, HandlerOwned, ReaderOwned DEF Next, Work

\* A reader's program keeps its form: one is started on a connection that has
\* no reader, and returns with nothing left to do.
LEMMA ReaderFormStep ==
    ASSUME TypeOK, HandlerForm, ListenerForm, ReaderForm, Owned, [Next]_vars
    PROVE  ReaderForm'
<1>0. /\ "handler" \in Goroutine /\ "listener" \in Goroutine /\ Conn \subseteq Goroutine
      /\ "handler" \notin Conn /\ "listener" \notin Conn
  BY Zenon, TcpAssumption DEF Goroutine
<1>1. ASSUME reader' = reader, \A d \in Conn : prog'[d] = prog[d] PROVE ReaderForm'
  BY Zenon, <1>1 DEF ReaderForm, Idle
<1>2. ASSUME NEW c \in Conn, \A d \in Conn : d # c => prog'[d] = prog[d] /\ reader'[d] = reader[d],
             \/ prog'[c] = <<>>
             \/ reader'[c] # Nil /\ prog'[c] \in Seq(PushOp)
             \/ /\ reader'[c] # Nil
                /\ \/ prog'[c] = <<Emit("Failed", reader'[c]), Drop(reader'[c]), End>>
                   \/ prog'[c] = <<Drop(reader'[c]), End>>
                   \/ prog'[c] \in Leaving(reader'[c])
      PROVE  ReaderForm'
  BY Zenon, <1>2 DEF ReaderForm, Idle, PushOp
<1>3. ASSUME NEW g \in Goroutine, ProgramStep(g) PROVE ReaderForm'
  <2>0. \A k \in Goroutine : k # g => prog'[k] = prog[k] BY Zenon, <1>3, OthersKeep
  <2>1. CASE g \in Conn
    <3>1. ~spawn(g) /\ reader[g] # Nil
      <4>1. reader[g] \in Host BY Zenon, <1>3, <2>1, ReaderMoves
      <4>2. ~spawn(g) BY Zenon, <1>3, <2>1, ReaderMoves DEF emit, push, drop, spawn, Doing
      <4> QED BY Zenon, <4>1, <4>2, LayerAssumption
    <3>2. reader' = reader
      BY Zenon, <1>3, <3>1 DEF ProgramStep, emit, push, drop, add, write, conns
    <3>3. \A d \in Conn : d # g => prog'[d] = prog[d] /\ reader'[d] = reader[d]
      BY Zenon, <1>0, <2>0, <3>2
    <3>4. \/ prog'[g] \in Seq(PushOp) \/ prog'[g] = <<Drop(reader[g]), End>>
          \/ prog'[g] \in Leaving(reader[g])
      BY Zenon, <1>3, <2>1, ReaderMoves DEF Leaving
    <3> QED BY Zenon, <1>2, <2>1, <3>1, <3>2, <3>3, <3>4
  <2>2. CASE g \notin Conn /\ ~spawn(g)
    <3>1. reader' = reader
      BY Zenon, <1>3, <2>2 DEF ProgramStep, emit, push, drop, add, write, conns
    <3> QED BY Zenon, <1>0, <1>1, <2>0, <2>2, <3>1
  <2>3. CASE g \notin Conn /\ spawn(g)
    <3>1. PICK c \in Conn, h \in Host :
            /\ Arg(g) = Link(c, h)
            /\ prog["handler"] \in Dialling(c, h) \/ prog["listener"] \in Starting(c, h)
      <4>1. ~emit(g) /\ ~drop(g) /\ ~write(g) /\ ~add(g)
        BY Zenon, <2>3 DEF emit, write, drop, spawn, add, Doing
      <4>2. CASE g = "handler"
        <5>1. ProgramStep("handler") /\ ~emit("handler") /\ ~drop("handler") /\ ~write("handler")
          BY Zenon, <1>3, <4>1, <4>2
        <5>2. PICK c \in Conn : /\ prog["handler"] = <<Spawn(c, request.host), End>>
                                /\ Arg("handler") = Link(c, request.host)
          BY Zenon, <5>1, HandlerMoves
        <5>3. request.host \in Host BY Zenon, <5>1, HandlerMoves DEF Request
        <5>4. prog["handler"] \in Dialling(c, request.host) BY Zenon, <5>2 DEF Dialling
        <5> QED BY Zenon, <4>2, <5>2, <5>3, <5>4
      <4>3. CASE g = "listener"
        <5>1. ProgramStep("listener") /\ ~emit("listener") /\ ~add("listener")
          BY Zenon, <1>3, <4>1, <4>3
        <5>2. PICK c \in Conn, h \in Inbound :
                prog["listener"] = <<Spawn(c, h)>> /\ Arg("listener") = Link(c, h)
          BY Zenon, <5>1, ListenerMoves
        <5>3. prog["listener"] \in Starting(c, h) BY Zenon, <5>2 DEF Starting
        <5> QED BY Zenon, <4>3, <5>2, <5>3, TcpAssumption
      <4> QED BY Zenon, <2>3, <4>2, <4>3 DEF Goroutine
    <3>2. reader[c] = Nil BY Zenon, <3>1 DEF Owned, Ownership, PendingUnread
    <3>3. prog[c] = <<>> BY Zenon, <3>2 DEF ReaderForm, Idle
    <3>4. Arg(g).conn = c BY <3>1 DEF Link
    <3>5. \A d \in Conn : prog'[d] = prog[d] /\ (d # c => reader'[d] = reader[d])
      BY Zenon, <1>0, <2>0, <2>3, <3>4 DEF spawn, TypeOK
    <3> QED BY Zenon, <1>2, <3>3, <3>5
  <2> QED BY Zenon, <2>1, <2>2, <2>3
<1>4. ASSUME NEW c \in Conn, ReaderStep(c) PROVE ReaderForm'
  <2>0. c \in Goroutine BY Zenon, <1>0
  <2>1. ASSUME NEW s, Run(c, s)
        PROVE  prog'[c] = s /\ \A d \in Conn : d # c => prog'[d] = prog[d]
    BY Zenon, <2>0, <2>1, <1>0 DEF Run, TypeOK
  <2>2. ASSUME NEW ms \in Batch(c), readFrames(c, ms) PROVE ReaderForm'
    <3>1. [i \in DOMAIN ms |-> Push(ms[i])] \in Seq(PushOp) /\ reader[c] # Nil
      BY Zenon, <2>2, BatchTypes DEF readFrames, Reading
    <3>2. prog'[c] \in Seq(PushOp) /\ (\A d \in Conn : d # c => prog'[d] = prog[d])
      BY Zenon, <2>1, <2>2, <3>1 DEF readFrames
    <3>3. reader' = reader BY Zenon, <2>2 DEF readFrames, conns
    <3> QED BY Zenon, <1>2, <3>1, <3>2, <3>3
  <2>3. CASE readBadFrame(c)
    BY Zenon, <1>2, <2>1, <2>3 DEF readBadFrame, Reading, conns
  <2>4. CASE readError(c)
    BY Zenon, <1>2, <2>1, <2>4 DEF readError, Reading, conns
  <2>5. CASE readerSeesDone(c)
    BY Zenon, <1>2, <2>5 DEF readerSeesDone, Reading, Idle, TypeOK
  <2>6. CASE endReader(c)
    <3>1. prog[c] = <<End>> BY Zenon, <2>6, EndsReader
    <3>2. Tail(prog[c]) = <<>> BY <3>1
    <3>3. prog'[c] = <<>> /\ \A d \in Conn : d # c => prog'[d] = prog[d]
      BY Zenon, <2>1, <2>6, <3>2 DEF endReader, Done
    <3>4. \A d \in Conn : d # c => reader'[d] = reader[d] BY Zenon, <2>6 DEF endReader, TypeOK
    <3> QED BY Zenon, <1>2, <3>3, <3>4
  <2> QED BY Zenon, <1>4, <2>2, <2>3, <2>4, <2>5, <2>6 DEF ReaderStep
<1>5. CASE HandlerStep
  BY Zenon, <1>0, <1>1, <1>5
  DEF HandlerStep, connectFails, disconnect, send, endRequest, HandlerReturns, connect, Done,
      Run, TypeOK, conns
<1>6. ASSUME NEW c \in Conn, NEW h \in Inbound, accept(c, h) PROVE ReaderForm'
  BY Zenon, <1>0, <1>1, <1>6 DEF accept, Run, TypeOK
<1>7. CASE \/ ListenerReturns \/ closeOnCtxDone \/ Cancel \/ UserReadsEvent
           \/ UserReadsMessage \/ UNCHANGED vars
           \/ (\E r \in UserRequest : UserCalls(r))
           \/ \E c \in Conn : PeerCloses(c) \/ collect(c)
  BY Zenon, <1>1, <1>7
  DEF ListenerReturns, closeOnCtxDone, Cancel, UserReadsEvent, UserReadsMessage, UserCalls,
      PeerCloses, collect, vars, tcpVars, conns
<1> QED BY Zenon, <1>3, <1>4, <1>5, <1>6, <1>7 DEF Next, Work

-----------------------------------------------------------------------------
(* The theorems.                                                           *)

\* The layer starts without connections and with nothing to do.
LEMMA InvariantInit == Init => IInv
<1> SUFFICES ASSUME Init PROVE IInv BY Zenon
<1>1. \A g \in Goroutine : prog[g] = <<>> BY Zenon DEF Init
<1>2. /\ "handler" \in Goroutine /\ "listener" \in Goroutine /\ Conn \subseteq Goroutine
  BY Zenon DEF Goroutine
<1>3. prog["handler"] = <<>> /\ prog["listener"] = <<>> /\ \A c \in Conn : prog[c] = <<>>
  BY Zenon, <1>1, <1>2
<1>4. TypeOK
  <2>1. <<>> \in Seq(Event) /\ <<>> \in Seq(Message) /\ <<>> \in Seq(Op) /\ Len(<<>>) = 0
    OBVIOUS
  <2>2. LayerTypeOK
    <3>1. /\ outEvents = <<>> /\ outChannel = <<>> /\ request = Nil
          /\ transportDone = FALSE
      BY Zenon DEF Init, LayerInit
    <3>2. OutBuf \in Nat /\ 0 <= OutBuf BY LayerAssumption
    <3>3. Len(outEvents) <= OutBuf /\ Len(outChannel) <= OutBuf BY Zenon, <2>1, <3>1, <3>2
    <3>4. outEvents \in Seq(Event) /\ outChannel \in Seq(Message) BY Zenon, <2>1, <3>1
    <3> QED BY Zenon, <3>1, <3>3, <3>4 DEF LayerTypeOK
  <2> QED BY Zenon, <2>1, <2>2 DEF Init, TypeOK
<1>5. HandlerForm /\ ListenerForm /\ ReaderForm
  BY Zenon, <1>3 DEF HandlerForm, ListenerForm, ReaderForm, Idle
<1>6. \A h \in Host : activeConnections[h] = Nil BY Zenon DEF Init
<1>7. Nil \notin Conn BY Zenon, TcpAssumption
<1>8. ActiveUsable /\ ActiveIsRead BY Zenon, <1>6 DEF ActiveUsable, ActiveIsRead
<1>9. \A c, h : prog["handler"] \notin Dialling(c, h) BY Zenon, <1>3, NotDialling
<1>10. \A c, h : prog["listener"] \notin Adding(c, h) \cup Starting(c, h)
  BY <1>3 DEF Adding, Starting
<1>11. PendingUnread /\ AddingFresh /\ OneOwner /\ ReadUnderHost
  BY Zenon, <1>6, <1>7, <1>9, <1>10 DEF PendingUnread, AddingFresh, OneOwner, ReadUnderHost
<1> QED BY Zenon, <1>4, <1>5, <1>8, <1>11 DEF IInv, Ownership

\* Every goroutine's program has one of a few forms, and a connection is in
\* the hands of one goroutine, whatever the interleaving of the handler, the
\* listener, the readers and closeOnCtxDone.
THEOREM TcpInvariant == Spec => []IInv
<1>1. IInv /\ [Next]_vars => IInv'
  <2> SUFFICES ASSUME IInv, [Next]_vars PROVE IInv' BY Zenon
  <2>1. TypeOK /\ HandlerForm /\ ListenerForm /\ ReaderForm /\ Owned BY Zenon DEF IInv, Owned
  <2>2. TypeOK' BY Zenon, <2>1, TypesStep
  <2>3. HandlerForm' BY Zenon, <2>1, HandlerFormStep
  <2>4. ListenerForm' BY Zenon, <2>1, ListenerFormStep
  <2>5. ReaderForm' BY Zenon, <2>1, ReaderFormStep
  <2>6. Owned' BY Zenon, <2>1, <2>3, OwnedStep
  <2> QED BY Zenon, <2>2, <2>3, <2>4, <2>5, <2>6 DEF IInv, Owned
<1> QED BY <1>1, InvariantInit, PTL DEF Spec

\* The TCP layer stays well typed and its channels within their capacity.
THEOREM TcpTypeCorrect == Spec => []TypeOK
<1>1. IInv => TypeOK BY Zenon DEF IInv
<1> QED BY <1>1, TcpInvariant, PTL

\* Send never finds a connection this side has closed: disconnect takes it
\* out of the map in the step that closes it.
THEOREM MapUsable == Spec => []ActiveUsable
<1>1. IInv => ActiveUsable BY Zenon DEF IInv
<1> QED BY <1>1, TcpInvariant, PTL

\* Every connection in the map is read, or about to be: connect and the
\* listener start the reader after they add it, and the reader takes it out
\* before it returns.
THEOREM MapRead == Spec => []ActiveIsRead
<1>1. IInv => ActiveIsRead BY Zenon DEF IInv
<1> QED BY <1>1, TcpInvariant, PTL

-----------------------------------------------------------------------------
(* The contract.                                                           *)

\* Only the handler's steps and calls change whether a dial is owed.
LEMMA OwedKept ==
    ASSUME prog'["handler"] = prog["handler"], request' = request
    PROVE  DialOwed' = DialOwed
BY Zenon DEF DialOwed, Idle, Doing

\* A step that sends no event and no message is none of the contract's.
LEMMA SilentStep ==
    ASSUME IInv,
           \/ connectFails \/ disconnect \/ send \/ HandlerReturns \/ ListenerReturns
           \/ closeOnCtxDone
           \/ \E c \in Conn : connect(c) \/ ReaderStep(c) \/ PeerCloses(c) \/ collect(c)
           \/ \E c \in Conn, h \in Inbound : accept(c, h)
    PROVE  UNCHANGED layerVars /\ DialOwed' = DialOwed
<1>0. TypeOK /\ "handler" \in Goroutine /\ "handler" \notin Conn /\ "handler" # "listener"
  BY Zenon, TcpAssumption DEF IInv, Goroutine
<1>1. UNCHANGED layerVars
  BY Zenon DEF connectFails, disconnect, send, HandlerReturns, ListenerReturns, closeOnCtxDone,
         connect, ReaderStep, readFrames, readBadFrame, readError, readerSeesDone, endReader,
         PeerCloses, collect, accept
<1>2. request' = request BY Zenon, <1>1 DEF layerVars
<1>3. CASE connectFails \/ \E c \in Conn : connect(c)
  <2>1. /\ request # Nil /\ request.op = "connect" /\ Idle("handler")
        /\ \/ prog'["handler"] = <<Emit("Failed", request.host), End>>
           \/ \E c \in Conn : prog'["handler"]
                 = <<Emit("Connected", request.host), Spawn(c, request.host), End>>
    BY Zenon, <1>0, <1>3 DEF connectFails, connect, Serving, Run, TypeOK
  <2>2. /\ prog'["handler"] # <<>>
        /\ Head(prog'["handler"]) \in {Emit("Failed", request.host),
                                       Emit("Connected", request.host)}
    <3>1. prog'["handler"] = <<Emit("Failed", request.host), End>> =>
            prog'["handler"] # <<>> /\ Head(prog'["handler"]) = Emit("Failed", request.host)
      OBVIOUS
    <3>2. ASSUME NEW c \in Conn,
                 prog'["handler"] = <<Emit("Connected", request.host), Spawn(c, request.host), End>>
          PROVE  /\ prog'["handler"] # <<>>
                 /\ Head(prog'["handler"]) = Emit("Connected", request.host)
      BY <3>2
    <3> QED BY Zenon, <2>1, <3>1, <3>2
  <2>3. Head(prog'["handler"]).op = "emit" BY <2>2 DEF Emit
  <2> QED BY Zenon, <1>1, <1>2, <2>1, <2>2, <2>3 DEF DialOwed, Doing
<1>4. CASE disconnect \/ send
  <2>1. request.op # "connect" BY Zenon, <1>4 DEF disconnect, send, Serving
  <2> QED BY Zenon, <1>1, <1>2, <2>1 DEF DialOwed
<1>5. ASSUME ~connectFails, ~disconnect, ~send, ~(\E c \in Conn : connect(c))
      PROVE  prog'["handler"] = prog["handler"]
  BY Zenon, <1>0, <1>5
  DEF HandlerReturns, ListenerReturns, closeOnCtxDone, ReaderStep, readFrames, readBadFrame,
      readError, readerSeesDone, endReader, PeerCloses, collect, accept, Done, Run, TypeOK
<1> QED BY Zenon, <1>1, <1>2, <1>3, <1>4, <1>5, OwedKept

\* What a goroutine emits is an answer to the dial, if the handler is serving
\* one, or a notice; the listener's is about an inbound connection.
LEMMA EmitStep ==
    ASSUME IInv, NEW g \in Goroutine, emit(g)
    PROVE  Contract!Answer \/ Contract!Notice
<1>0. /\ TypeOK /\ HandlerForm /\ ListenerForm /\ ReaderForm /\ ProgramStep(g)
      /\ "handler" \in Goroutine
  BY Zenon DEF IInv, ProgramStep, Goroutine
<1>1. Arg(g) \in Event BY Zenon, <1>0, ArgTypes DEF emit
<1>2. /\ Len(outEvents) < OutBuf /\ outEvents' = Append(outEvents, Arg(g))
      /\ UNCHANGED <<outChannel, request, transportDone>>
  BY Zenon DEF emit
<1>3. Contract!Report(Arg(g)) BY Zenon, <1>2 DEF Contract!Report
<1>4. ~drop(g) /\ ~spawn(g) /\ ~add(g) /\ ~push(g) /\ ~write(g)
  BY Zenon DEF emit, push, write, drop, spawn, add, Doing
<1>5. CASE g = "handler" /\ request.op = "connect"
  <2>1. /\ ProgramStep("handler") /\ ~drop("handler") /\ ~spawn("handler")
        /\ ~write("handler") /\ Doing("handler", "emit")
    BY Zenon, <1>0, <1>4, <1>5 DEF emit
  <2>2. request # Nil /\ Arg("handler") \in {EventOf("Failed", request.host),
                                              EventOf("Connected", request.host)}
    BY Zenon, <1>0, <1>5, <2>1, HandlerMoves
  <2>3. DialOwed BY Zenon, <1>5, <2>1, <2>2 DEF DialOwed
  <2>4. \/ prog'["handler"] = <<End>>
        \/ \E c \in Conn : prog'["handler"] = <<Spawn(c, request.host), End>>
    BY Zenon, <1>0, <1>5, <2>1, HandlerMoves
  <2>5. /\ prog'["handler"] # <<>>
        /\ \/ Head(prog'["handler"]) = End
           \/ \E c \in Conn : Head(prog'["handler"]) = Spawn(c, request.host)
    <3>1. prog'["handler"] = <<End>> =>
            prog'["handler"] # <<>> /\ Head(prog'["handler"]) = End
      OBVIOUS
    <3>2. ASSUME NEW c \in Conn, prog'["handler"] = <<Spawn(c, request.host), End>>
          PROVE  prog'["handler"] # <<>> /\ Head(prog'["handler"]) = Spawn(c, request.host)
      BY <3>2
    <3> QED BY Zenon, <2>4, <3>1, <3>2
  <2>6. Head(prog'["handler"]).op # "emit"
    <3>1. End.op # "emit" BY Zenon DEF End
    <3>2. ASSUME NEW c PROVE Spawn(c, request.host).op # "emit" BY Zenon DEF Spawn
    <3> QED BY Zenon, <2>5, <3>1, <3>2
  <2>7. DialOwed' = FALSE BY Zenon, <2>5, <2>6 DEF DialOwed, Idle, Doing
  <2>8. \/ Arg(g) = Contract!EventOf("Failed", request.host)
        \/ Arg(g) = Contract!EventOf("Connected", request.host)
    BY Zenon, <1>5, <2>2 DEF EventOf, Contract!EventOf
  <2>9. \E ty \in {"Connected", "Failed"} : Contract!Report(Contract!EventOf(ty, request.host))
    BY Zenon, <1>3, <2>8
  <2> QED BY Zenon, <2>3, <2>7, <2>9 DEF Contract!Answer
<1>6. CASE g # "handler" \/ request.op # "connect"
  <2>1. DialOwed' = DialOwed
    <3>1. CASE g # "handler" BY Zenon, <1>0, <1>2, <3>1, OthersKeep, OwedKept
    <3>2. CASE request.op # "connect" BY Zenon, <1>2, <3>2 DEF DialOwed
    <3> QED BY Zenon, <1>6, <3>1, <3>2
  <2>2. Arg(g).type = "Connected" => Arg(g).host \in Inbound
    <3>1. CASE g = "handler"
      <4>1. /\ ProgramStep("handler") /\ ~drop("handler") /\ ~spawn("handler")
            /\ ~write("handler") /\ request.op # "connect"
        BY Zenon, <1>0, <1>4, <1>6, <3>1
      <4>2. Arg("handler") \in {EventOf("Failed", request.host),
                                EventOf("Disconnected", request.host)}
        BY Zenon, <1>0, <4>1, HandlerMoves
      <4> QED BY <3>1, <4>2 DEF EventOf
    <3>2. CASE g = "listener"
      <4>1. ProgramStep("listener") /\ ~add("listener") /\ ~spawn("listener")
        BY Zenon, <1>0, <1>4, <3>2
      <4>2. PICK h \in Inbound : Arg("listener") = EventOf("Connected", h)
        BY Zenon, <1>0, <4>1, ListenerMoves
      <4> QED BY <3>2, <4>2 DEF EventOf
    <3>3. CASE g \in Conn
      <4>1. Arg(g) \in {EventOf("Failed", reader[g]), EventOf("Disconnected", reader[g])}
        BY Zenon, <1>0, <1>4, <3>3, ReaderMoves
      <4> QED BY <4>1 DEF EventOf
    <3> QED BY Zenon, <3>1, <3>2, <3>3 DEF Goroutine
  <2>3. Arg(g) \in Contract!Event BY Zenon, <1>1 DEF Event, Contract!Event
  <2> QED BY Zenon, <1>3, <2>1, <2>2, <2>3 DEF Contract!Notice
<1> QED BY Zenon, <1>5, <1>6

\* The other steps of a program: a message is received, or nothing is seen.
LEMMA OtherProgramStep ==
    ASSUME IInv, NEW g \in Goroutine, push(g) \/ drop(g) \/ add(g) \/ spawn(g) \/ write(g)
    PROVE  Contract!Receive \/ (UNCHANGED layerVars /\ DialOwed' = DialOwed)
<1>0. /\ TypeOK /\ HandlerForm /\ ListenerForm /\ ReaderForm /\ ProgramStep(g)
      /\ "handler" \in Goroutine
  BY Zenon DEF IInv, ProgramStep, Goroutine
<1>1. ~emit(g) BY Zenon DEF emit, push, write, drop, spawn, add, Doing
<1>2. request' = request BY Zenon, <1>0, OthersKeep
<1>3. DialOwed' = DialOwed
  <2>1. CASE g # "handler" BY Zenon, <1>0, <1>2, <2>1, OthersKeep, OwedKept
  <2>2. CASE g = "handler" /\ request.op = "connect"
    <3>1. ProgramStep("handler") /\ ~emit("handler") BY Zenon, <1>0, <1>1, <2>2
    <3>2. PICK c \in Conn : /\ prog["handler"] = <<Spawn(c, request.host), End>>
                            /\ prog'["handler"] = <<End>>
      BY Zenon, <1>0, <2>2, <3>1, HandlerMoves
    <3>3. /\ prog["handler"] # <<>> /\ Head(prog["handler"]) = Spawn(c, request.host)
          /\ prog'["handler"] # <<>> /\ Head(prog'["handler"]) = End
      BY <3>2
    <3>4. Head(prog["handler"]).op # "emit" /\ Head(prog'["handler"]).op # "emit"
      <4>1. End.op # "emit" BY Zenon DEF End
      <4>2. Spawn(c, request.host).op # "emit" BY Zenon DEF Spawn
      <4> QED BY Zenon, <3>3, <4>1, <4>2
    <3> QED BY Zenon, <3>3, <3>4 DEF DialOwed, Idle, Doing
  <2>3. CASE request.op # "connect" BY Zenon, <1>2, <2>3 DEF DialOwed
  <2> QED BY Zenon, <2>1, <2>2, <2>3
<1>4. CASE push(g)
  <2>1. Arg(g) \in Message BY Zenon, <1>0, <1>4, ArgTypes DEF push
  <2>2. Arg(g) \in Contract!Message BY Zenon, <2>1 DEF Message, Contract!Message, Kind, Contract!Kind
  <2> QED BY Zenon, <1>3, <1>4, <2>2 DEF push, Contract!Receive
<1>5. CASE ~push(g) BY Zenon, <1>3, <1>5 DEF drop, add, spawn, write
<1> QED BY Zenon, <1>4, <1>5

\* The end of a request, and what the user and the context do.
LEMMA OuterStep ==
    ASSUME IInv,
           \/ endRequest \/ Cancel \/ UserReadsEvent \/ UserReadsMessage
           \/ \E r \in UserRequest : UserCalls(r)
    PROVE  Contract!Next
<1>1. CASE endRequest
  <2>1. prog["handler"] # <<>> /\ Head(prog["handler"]).op = "end"
    BY Zenon, <1>1 DEF endRequest, Doing
  <2>2. ~DialOwed BY Zenon, <2>1 DEF DialOwed, Idle, Doing
  <2>3. request # Nil BY Zenon, <2>1 DEF IInv, HandlerForm, Idle
  <2>4. request' = Nil BY Zenon, <1>1 DEF endRequest
  <2>5. DialOwed' = DialOwed BY Zenon, <2>1, <2>4 DEF DialOwed, Idle, Doing
  <2> QED BY Zenon, <1>1, <2>2, <2>3, <2>5 DEF endRequest, Contract!Serve, Contract!Next
<1>2. CASE Cancel
  <2>1. DialOwed' = DialOwed BY Zenon, <1>2, OwedKept DEF Cancel, tcpVars
  <2> QED BY Zenon, <1>2, <2>1 DEF Cancel, Contract!Stop, Contract!Next
<1>3. CASE UserReadsEvent \/ UserReadsMessage
  <2>1. DialOwed' = DialOwed BY Zenon, <1>3, OwedKept DEF UserReadsEvent, UserReadsMessage, tcpVars
  <2> QED BY Zenon, <1>3, <2>1 DEF UserReadsEvent, UserReadsMessage, Contract!Read, Contract!Next
<1>4. ASSUME NEW r \in UserRequest, UserCalls(r) PROVE Contract!Next
  <2>1. r \in Request /\ request = Nil /\ request' = r /\ prog' = prog
    BY Zenon, <1>4, RequestTypes DEF UserCalls, tcpVars
  <2>2. Idle("handler") BY Zenon, <2>1 DEF IInv, HandlerForm
  <2>3. request' # Nil BY Zenon, <2>1, TcpAssumption
  <2>4. DialOwed' <=> request'.op = "connect" BY Zenon, <2>1, <2>2, <2>3 DEF DialOwed, Idle
  <2>5. request' \in Contract!Request
    BY Zenon, <2>1 DEF Request, Contract!Request, Kind, Contract!Kind
  <2> QED BY Zenon, <1>4, <2>1, <2>4, <2>5 DEF UserCalls, Contract!Take, Contract!Next
<1> QED BY Zenon, <1>1, <1>2, <1>3, <1>4

\* The TCP layer is a transport: whatever its goroutines do, the layer above
\* sees one answer to each dial, before its next call is taken.
THEOREM TcpImplementsTransport == Spec => ImplementsTransport
<1>1. Init => Contract!Init
  BY Zenon DEF Init, LayerInit, DialOwed, Contract!Init, Contract!LayerInit
<1>2. IInv /\ [Next]_vars => [Contract!Next]_(Contract!transportVars)
  <2> SUFFICES ASSUME IInv, [Next]_vars PROVE [Contract!Next]_(Contract!transportVars)
    BY Zenon
  <2>1. ASSUME UNCHANGED layerVars, DialOwed' = DialOwed
        PROVE  UNCHANGED Contract!transportVars
    BY Zenon, <2>1 DEF layerVars, Contract!transportVars, Contract!layerVars
  <2>2. CASE Work
    <3>1. ASSUME NEW g \in Goroutine, ProgramStep(g)
          PROVE  [Contract!Next]_(Contract!transportVars)
      BY Zenon, <2>1, <3>1, EmitStep, OtherProgramStep DEF ProgramStep, Contract!Next
    <3> QED BY Zenon, <2>1, <2>2, <3>1, SilentStep, OuterStep DEF Work, HandlerStep
  <2>3. CASE UNCHANGED vars
    BY Zenon, <2>1, <2>3, OwedKept DEF vars, layerVars, tcpVars
  <2> QED BY Zenon, <2>2, <2>3, OuterStep DEF Next
<1> QED BY <1>1, <1>2, TcpInvariant, PTL DEF Spec, ImplementsTransport, Contract!Spec

=============================================================================
