--------------------------- MODULE LifecycleProofs ---------------------------
(***************************************************************************)
(* The life of a runtime, for any number of protocols and message ids and  *)
(* mailboxes of any capacity.                                              *)
(***************************************************************************)
EXTENDS LifecycleProps, FiniteSetTheorems, TLAPS

-----------------------------------------------------------------------------
(* The inductive invariant.                                                *)

Write(m, p, i) == OpOf("write", m, p, i)
Set(p, i) == OpOf("set", "codecs", p, i)
Read(m, p, i) == OpOf("read", m, p, i)
DeliverOp(p, i) == OpOf("deliver", "codecs", p, i)

\* What may be left of a call.  A goroutine that is about to make p the target
\* of i has stored p's codec; a handler is looked up by the event loop of p.
CallForm(g) ==
    \/ todo[g] = <<>>
    \/ \E p \in Proto, i \in Id :
         \/ todo[g] = <<Write("codecs", p, i), Set(p, i)>>
         \/ todo[g] = <<Set(p, i)>> /\ i \in codecs[p]
         \/ todo[g] = <<Write("handlers", p, i)>>
         \/ todo[g] = <<Read("codecs", p, i)>>
         \/ todo[g] = <<Read("codecs", p, i), DeliverOp(p, i)>>
         \/ todo[g] = <<DeliverOp(p, i)>>
         \/ todo[g] = <<Read("handlers", p, i)>> /\ g = p
    \/ \E S \in SUBSET Proto : S # {} /\ todo[g] = <<Fanout(S)>>

\* Only a goroutine that runs is in a call.
Busy(g) ==
    \/ g = Main /\ main.at \in {"inStart", "inInit"}
    \/ g \in Proto /\ loop[g] = "handler"
    \/ g = Dispatcher /\ dispatcher = "on"
CallsOK == \A g \in Goroutine : CallForm(g) /\ (todo[g] # <<>> => Busy(g))

\* Event loops are launched in order, one per Start that has returned, and the
\* other two goroutines after the Init methods.
Launched ==
    /\ main.at = "entry" => main.n = 1
    /\ main.at \in {"entry", "start", "inStart"} =>
         \A m \in DOMAIN Protocols : m >= main.n => loop[Protocols[m]] = "none"
    /\ main.at \in {"entry", "start", "inStart", "init", "inInit", "pump"} => pump = "none"
    /\ main.at \in {"entry", "start", "inStart", "init", "inInit", "pump", "dispatch"} =>
         dispatcher = "none"

\* The WaitGroup counts the goroutines that run.
On(st) == IF st = "on" THEN 1 ELSE 0
Counted == wg = Cardinality({p \in Proto : Running(p)}) + On(pump) + On(dispatcher)

\* A protocol is in the registering phase only inside its Start.
Registering ==
    \A p \in Proto : phase[p] = "registering" =>
        /\ loop[p] = "none"
        /\ main.at \in {"inStart", "panicked"}
        /\ main.at = "inStart" => p = Current

\* Strict mode: only Start writes a protocol's maps; while a Start runs no
\* protocol that has an event loop is active, so that a loop does no more than
\* look a handler up.
StrictWrites ==
    strict => \A g \in Goroutine : Doing(g, "write") =>
        g = Main /\ main.at = "inStart" /\ Head(todo[g]).proto = Current
AtMostLooksUp(g) == todo[g] = <<>> \/ \E i \in Id : todo[g] = <<Read("handlers", g, i)>>
StrictReads ==
    strict /\ ~early /\ main.at \in {"start", "inStart"} =>
        /\ \A m \in DOMAIN Protocols : m < main.n => phase[Protocols[m]] = "registered"
        /\ \A g \in Goroutine \ {Main} : AtMostLooksUp(g)

\* A Cancel that has got to wg.Wait has cancelled the context, and unless it
\* came early start has ended or will refuse to run.
CancelSeen ==
    /\ \A c \in Callers : canceller[c] \in {"waiting", "returned"} => cancelled
    /\ cancelled /\ ~early => ~Starting

IInv ==
    /\ TypeOK /\ CallsOK /\ Launched /\ Counted /\ RoutedHasCodec
    /\ Registering /\ StrictWrites /\ StrictReads
    /\ CancelSeen /\ QuietAfterCancel

-----------------------------------------------------------------------------
(* Operations and what is left of a call.                                  *)

\* The fields of the operations a call queues.
LEMMA OpFields ==
    /\ \A o, m, p, i : /\ OpOf(o, m, p, i).op = o /\ OpOf(o, m, p, i).map = m
                       /\ OpOf(o, m, p, i).proto = p /\ OpOf(o, m, p, i).id = i
    /\ \A S : Fanout(S).op = "fanout" /\ Fanout(S).to = S
BY Zenon DEF OpOf, Fanout

\* Which map an access is to.
LEMMA AccessFields ==
    \A m, p, i : /\ Read(m, p, i).op = "read" /\ Read(m, p, i).proto = p
                 /\ Write(m, p, i).op = "write" /\ Write(m, p, i).proto = p
BY OpFields DEF Read, Write

\* They are operations.
LEMMA OpTypes ==
    /\ \A p \in Proto, i \in Id :
         /\ \A m \in {"codecs", "handlers"} : Write(m, p, i) \in Op /\ Read(m, p, i) \in Op
         /\ Set(p, i) \in Op /\ DeliverOp(p, i) \in Op
    /\ \A S \in SUBSET Proto : Fanout(S) \in Op
BY Zenon DEF Op, OpOf, Fanout, Write, Read, Set, DeliverOp

\* Sequences of one and of two operations.
LEMMA ShortSequences ==
    /\ \A a : <<a>> # <<>> /\ Head(<<a>>) = a /\ Tail(<<a>>) = <<>>
    /\ \A a, b : <<a, b>> # <<>> /\ Head(<<a, b>>) = a /\ Tail(<<a, b>>) = <<b>>
OBVIOUS

\* What a call in progress does next tells what is left of it.
LEMMA NextOp ==
    ASSUME NEW g \in Goroutine, CallForm(g)
    PROVE  /\ Doing(g, "write") => \E p \in Proto, i \in Id :
                \/ todo[g] = <<Write("codecs", p, i), Set(p, i)>>
                \/ todo[g] = <<Write("handlers", p, i)>>
           /\ Doing(g, "set") => \E p \in Proto, i \in Id :
                todo[g] = <<Set(p, i)>> /\ i \in codecs[p]
           /\ Doing(g, "read") => \E p \in Proto, i \in Id :
                \/ todo[g] = <<Read("codecs", p, i)>>
                \/ todo[g] = <<Read("codecs", p, i), DeliverOp(p, i)>>
                \/ todo[g] = <<Read("handlers", p, i)>> /\ g = p
           /\ Doing(g, "deliver") => \E p \in Proto, i \in Id : todo[g] = <<DeliverOp(p, i)>>
           /\ Doing(g, "fanout") => \E S \in SUBSET Proto : S # {} /\ todo[g] = <<Fanout(S)>>
BY OpFields, ShortSequences DEF CallForm, Doing, Write, Set, Read, DeliverOp

\* The protocols are finitely many; each has an index, and only one.
LEMMA ProtoFacts ==
    /\ IsFiniteSet(Proto)
    /\ \A m \in DOMAIN Protocols : Protocols[m] \in Proto
    /\ DOMAIN Protocols = 1..Len(Protocols) /\ Len(Protocols) \in Nat /\ Len(Protocols) >= 1
<1>1. DOMAIN Protocols = 1..Len(Protocols) /\ Len(Protocols) \in Nat /\ Len(Protocols) >= 1
  BY LifecycleAssumption
<1>2. Protocols \in [1..Len(Protocols) -> Proto] BY LifecycleAssumption
<1>3. Protocols \in Surjection(1..Len(Protocols), Proto)
  BY Zenon, <1>1, <1>2 DEF Surjection, Proto
<1>4. IsFiniteSet(Proto)
  BY Zenon, <1>1, <1>3, FS_NatSurjection DEF ExistsSurjection
<1> QED BY Zenon, <1>1, <1>4 DEF Proto

\* What a call of user code does at once: it panics, changes the subscribers,
\* or queues the rest of the call.
SubsOnly ==
    /\ subs' \subseteq Proto
    /\ UNCHANGED <<strict, main, phase, goroutines, todo, codecs, handlers, lookup,
                   mailboxes, teardown>>
QueuesWrite(g, p) ==
    /\ requireRegisterPhase(p)
    /\ \E i \in Id : \/ Queue(g, <<Write("codecs", p, i), Set(p, i)>>)
                     \/ Queue(g, <<Write("handlers", p, i)>>)
QueuesRead(g, p) ==
    /\ requireActivePhase(p)
    /\ \E i \in Id : lookup[i] # Nil /\ Queue(g, <<Read("codecs", lookup[i], i)>>)
QueuesFanout(g, p) ==
    requireActivePhase(p) /\ subs # {} /\ Queue(g, <<Fanout(subs)>>)

\* These are all the cases.
LEMMA UserCallCases ==
    ASSUME TypeOK, NEW g \in Goroutine, NEW p \in Proto, UserCall(g, p)
    PROVE  /\ InUserCode(g, p)
           /\ Panic(g) \/ SubsOnly \/ QueuesWrite(g, p) \/ QueuesRead(g, p)
              \/ QueuesFanout(g, p)
<1>1. ASSUME NEW i \in Id, registerCodec(g, p, i)
      PROVE  InUserCode(g, p) /\ (Panic(g) \/ QueuesWrite(g, p))
  BY Zenon, <1>1 DEF registerCodec, QueuesWrite, Write, Set
<1>2. ASSUME NEW i \in Id, registerHandler(g, p, i)
      PROVE  InUserCode(g, p) /\ (Panic(g) \/ QueuesWrite(g, p))
  BY Zenon, <1>2 DEF registerHandler, QueuesWrite, Write
<1>3. ASSUME NEW i \in Id, Send(g, p, i)
      PROVE  InUserCode(g, p) /\ (Panic(g) \/ QueuesRead(g, p))
  BY Zenon, <1>3 DEF Send, QueuesRead, Read
<1>4. CASE subscribeNotification(g, p) \/ unsubscribeNotification(g, p)
  <2>1. subs \subseteq Proto BY Zenon DEF TypeOK
  <2> QED BY Zenon, <1>4, <2>1 DEF subscribeNotification, unsubscribeNotification, SubsOnly
<1>5. CASE publishNotification(g, p)
  BY Zenon, <1>5 DEF publishNotification, QueuesFanout
<1>6. CASE UserPanic(g, p) BY Zenon, <1>6 DEF UserPanic
<1> QED BY Zenon, <1>1, <1>2, <1>3, <1>4, <1>5, <1>6 DEF UserCall

\* Queueing the rest of a call changes nothing else.
LEMMA QueueFrame ==
    ASSUME NEW g, NEW ops, Queue(g, ops)
    PROVE  /\ todo' = [todo EXCEPT ![g] = ops]
           /\ UNCHANGED <<strict, main, phase, loop, pump, dispatcher, wg, codecs, handlers,
                          lookup, subs, messageChannel, notificationEvents, cancelled,
                          canceller, shutdown, early>>
BY Zenon DEF Queue, goroutines, registry, mailboxes, teardown

-----------------------------------------------------------------------------
(* Types.                                                                  *)

\* Main's steps keep the types.
LEMMA MainTypes ==
    ASSUME TypeOK, MainStep
    PROVE  TypeOK'
<1> USE DEF Beside, goroutines, registry, mailboxes, teardown
<1>0. main \in [at : Stage, n : 1..Len(Protocols)] BY Zenon DEF TypeOK
<1>1. \A st \in Stage, n \in 1..Len(Protocols) : At(st, n) \in [at : Stage, n : 1..Len(Protocols)]
  BY Zenon DEF At
<1>2. 1 \in 1..Len(Protocols) /\ main.n \in 1..Len(Protocols) /\ Current \in Proto
      /\ (~Last => main.n + 1 \in 1..Len(Protocols))
  BY <1>0, ProtoFacts DEF Current, Last
<1>3. wg \in Nat BY Zenon DEF TypeOK
<1>4. CASE start
  <2>1. main' \in [at : Stage, n : 1..Len(Protocols)]
    BY Zenon, <1>1, <1>2, <1>4 DEF start, Stage
  <2> QED BY Zenon, <1>4, <2>1 DEF start, TypeOK
<1>5. CASE StartEnter
  <2>1. main' \in [at : Stage, n : 1..Len(Protocols)]
    BY Zenon, <1>1, <1>2, <1>5 DEF StartEnter, Stage
  <2>2. phase' \in [Proto -> Phase] BY Zenon, <1>5 DEF StartEnter, TypeOK, Phase
  <2> QED BY Zenon, <1>5, <2>1, <2>2 DEF StartEnter, TypeOK
<1>6. CASE StartReturn
  <2>1. main' \in [at : Stage, n : 1..Len(Protocols)]
    BY Zenon, <1>1, <1>2, <1>6 DEF StartReturn, Stage
  <2>2. phase' \in [Proto -> Phase] BY Zenon, <1>6 DEF StartReturn, TypeOK, Phase
  <2>3. loop' \in [Proto -> {"none", "select", "handler", "stuck", "done"}]
    BY Zenon, <1>6 DEF StartReturn, TypeOK
  <2> QED BY <1>3, <1>6, <2>1, <2>2, <2>3 DEF StartReturn, TypeOK
<1>7. CASE InitEnter
  <2>1. main' \in [at : Stage, n : 1..Len(Protocols)]
    BY Zenon, <1>1, <1>2, <1>7 DEF InitEnter, Stage
  <2>2. phase' \in [Proto -> Phase] BY Zenon, <1>7 DEF InitEnter, TypeOK, Phase
  <2> QED BY Zenon, <1>7, <2>1, <2>2 DEF InitEnter, TypeOK
<1>8. CASE InitReturn
  <2>1. main' \in [at : Stage, n : 1..Len(Protocols)]
    BY Zenon, <1>1, <1>2, <1>8 DEF InitReturn, Stage
  <2>2. phase' \in [Proto -> Phase] BY Zenon, <1>8 DEF InitReturn, TypeOK, Phase
  <2> QED BY Zenon, <1>8, <2>1, <2>2 DEF InitReturn, TypeOK
<1>9. CASE startSessionEvents
  <2>1. main' \in [at : Stage, n : 1..Len(Protocols)]
    BY Zenon, <1>1, <1>2, <1>9 DEF startSessionEvents, Stage
  <2> QED BY <1>3, <1>9, <2>1 DEF startSessionEvents, TypeOK
<1>11. CASE startDispatcher
  <2>1. main' \in [at : Stage, n : 1..Len(Protocols)]
    BY Zenon, <1>1, <1>2, <1>11 DEF startDispatcher, Stage
  <2> QED BY <1>3, <1>11, <2>1 DEF startDispatcher, TypeOK
<1>10. CASE RunReturn
  <2>1. main' \in [at : Stage, n : 1..Len(Protocols)]
    BY Zenon, <1>1, <1>2, <1>10 DEF RunReturn, Stage
  <2> QED BY Zenon, <1>10, <2>1 DEF RunReturn, TypeOK
<1> QED BY Zenon, <1>4, <1>5, <1>6, <1>7, <1>8, <1>9, <1>10, <1>11 DEF MainStep

\* A call that user code makes keeps the types.
LEMMA UserCallTypes ==
    ASSUME TypeOK, NEW g \in Goroutine, NEW p \in Proto, UserCall(g, p)
    PROVE  TypeOK'
<1>0. todo \in [Goroutine -> Seq(Op)] BY Zenon DEF TypeOK
<1>1. CASE Panic(g)
  <2>1. InUserCode(g, p) BY Zenon, UserCallCases
  <2>2. CASE g = Main
    <3>1. main' \in [at : Stage, n : 1..Len(Protocols)]
      BY <1>1, <2>2, ProtoFacts DEF Panic, At, Stage
    <3> QED BY Zenon, <1>1, <2>2, <3>1 DEF Panic, TypeOK, goroutines, registry, mailboxes, teardown
  <2>3. CASE g # Main
    <3>1. g \in Proto BY Zenon, <2>1, <2>3 DEF InUserCode
    <3>2. loop' \in [Proto -> {"none", "select", "handler", "stuck", "done"}]
      BY Zenon, <1>1, <2>3, <3>1 DEF Panic, TypeOK
    <3> QED BY Zenon, <1>1, <2>3, <3>2 DEF Panic, TypeOK, goroutines, registry, mailboxes, teardown
  <2> QED BY Zenon, <2>2, <2>3
<1>2. CASE SubsOnly
  BY Zenon, <1>2 DEF SubsOnly, TypeOK, goroutines, mailboxes, teardown
<1>3. ASSUME NEW ops \in Seq(Op), Queue(g, ops) PROVE TypeOK'
  <2>1. todo' \in [Goroutine -> Seq(Op)] BY ZenonT(40), <1>0, <1>3, QueueFrame
  <2> QED BY Zenon, <1>3, <2>1, QueueFrame DEF TypeOK
<1>4. \A a, b \in Op : <<a>> \in Seq(Op) /\ <<a, b>> \in Seq(Op) OBVIOUS
<1>5. CASE QueuesWrite(g, p)
  BY Zenon, <1>3, <1>4, <1>5, OpTypes DEF QueuesWrite
<1>6. CASE QueuesRead(g, p)
  <2>1. lookup \in [Id -> Proto \cup {Nil}] BY Zenon DEF TypeOK
  <2> QED BY Zenon, <1>3, <1>4, <1>6, <2>1, OpTypes DEF QueuesRead
<1>7. CASE QueuesFanout(g, p)
  <2>1. subs \in SUBSET Proto BY Zenon DEF TypeOK
  <2> QED BY Zenon, <1>3, <1>4, <1>7, <2>1, OpTypes DEF QueuesFanout
<1> QED BY Zenon, <1>1, <1>2, <1>5, <1>6, <1>7, UserCallCases

\* So does what is left of it.
LEMMA CallStepTypes ==
    ASSUME TypeOK, CallsOK, NEW g \in Goroutine, CallStep(g)
    PROVE  TypeOK'
<1> USE DEF OpUnchanged, goroutines, registry, mailboxes, teardown
<1>0. todo \in [Goroutine -> Seq(Op)] /\ CallForm(g) BY Zenon DEF TypeOK, CallsOK
<1>1. todo[g] # <<>> /\ Done(g) => todo' \in [Goroutine -> Seq(Op)] BY <1>0 DEF Done
<1>2. todo' = [todo EXCEPT ![g] = <<>>] => todo' \in [Goroutine -> Seq(Op)] BY <1>0
<1>3. CASE WriteMap(g)
  <2>1. Head(todo[g]).proto \in Proto /\ Head(todo[g]).id \in Id
    BY SMTT(30), <1>0, <1>3, NextOp, OpFields, ShortSequences DEF WriteMap, Write
  <2> DEFINE o == Head(todo[g])
  <2>2. \/ codecs' = [codecs EXCEPT ![o.proto] = @ \cup {o.id}] /\ UNCHANGED handlers
        \/ handlers' = [handlers EXCEPT ![o.proto] = @ \cup {o.id}] /\ UNCHANGED codecs
    BY Zenon, <1>3 DEF WriteMap
  <2>4. codecs \in [Proto -> SUBSET Id] /\ handlers \in [Proto -> SUBSET Id] BY Zenon DEF TypeOK
  <2> HIDE DEF o
  <2>5. o.proto \in Proto /\ o.id \in Id BY Zenon, <2>1 DEF o
  <2>6. codecs' \in [Proto -> SUBSET Id] /\ handlers' \in [Proto -> SUBSET Id]
    BY <2>2, <2>4, <2>5
  <2>3. todo' \in [Goroutine -> Seq(Op)] BY Zenon, <1>1, <1>3 DEF WriteMap, Doing
  <2> QED BY Zenon, <1>3, <2>3, <2>6 DEF WriteMap, TypeOK
<1>4. CASE SetLookup(g)
  <2>1. Head(todo[g]).proto \in Proto /\ Head(todo[g]).id \in Id
    BY <1>0, <1>4, NextOp, OpFields, ShortSequences DEF SetLookup, Set
  <2>2. lookup' \in [Id -> Proto \cup {Nil}] BY Zenon, <1>4, <2>1 DEF SetLookup, TypeOK
  <2>3. todo' \in [Goroutine -> Seq(Op)] BY Zenon, <1>1, <1>4 DEF SetLookup, Doing
  <2> QED BY Zenon, <1>4, <2>2, <2>3 DEF SetLookup, TypeOK
<1>5. CASE ReadMap(g)
  <2>1. todo' \in [Goroutine -> Seq(Op)] BY Zenon, <1>1, <1>2, <1>5 DEF ReadMap, Doing
  <2> QED BY Zenon, <1>5, <2>1 DEF ReadMap, TypeOK
<1>6. CASE DeliverMessage(g)
  <2>1. Head(todo[g]).proto \in Proto
    BY <1>0, <1>6, NextOp, OpFields, ShortSequences DEF DeliverMessage, DeliverOp
  <2>2. messageChannel' \in [Proto -> 0..MailboxBuf]
    <3>1. messageChannel \in [Proto -> 0..MailboxBuf] /\ MailboxBuf \in Nat
      BY Zenon, LifecycleAssumption DEF TypeOK
    <3>2. PICK q \in Proto : /\ messageChannel[q] < MailboxBuf
                             /\ messageChannel' = [messageChannel EXCEPT ![q] = @ + 1]
      BY Zenon, <1>6, <2>1 DEF DeliverMessage
    <3> QED BY <3>1, <3>2
  <2>3. todo' \in [Goroutine -> Seq(Op)] BY Zenon, <1>1, <1>6 DEF DeliverMessage, Doing
  <2> QED BY Zenon, <1>6, <2>2, <2>3 DEF DeliverMessage, TypeOK
<1>7. CASE Notify(g)
  <2>1. Head(todo[g]).to \in SUBSET Proto
    BY <1>0, <1>7, NextOp, OpFields, ShortSequences DEF Notify
  <2>2. PICK q \in Head(todo[g]).to :
          /\ notificationEvents[q] < MailboxBuf
          /\ notificationEvents' = [notificationEvents EXCEPT ![q] = @ + 1]
          /\ todo' = [todo EXCEPT ![g] = IF Head(todo[g]).to \ {q} = {} THEN <<>>
                                         ELSE <<Fanout(Head(todo[g]).to \ {q})>>]
    BY Zenon, <1>7 DEF Notify
  <2>3. notificationEvents' \in [Proto -> 0..MailboxBuf]
    <3>1. notificationEvents \in [Proto -> 0..MailboxBuf] /\ MailboxBuf \in Nat
      BY Zenon, LifecycleAssumption DEF TypeOK
    <3> QED BY <2>1, <2>2, <3>1
  <2>4. Fanout(Head(todo[g]).to \ {q}) \in Op BY Zenon, <2>1, OpTypes
  <2>5. todo' \in [Goroutine -> Seq(Op)] BY <1>0, <2>2, <2>4
  <2> QED BY Zenon, <1>7, <2>3, <2>5 DEF Notify, TypeOK
<1>8. CASE GiveUp(g)
  <2>1. todo' \in [Goroutine -> Seq(Op)] BY Zenon, <1>2, <1>8 DEF GiveUp
  <2> QED BY Zenon, <1>8, <2>1 DEF GiveUp, TypeOK
<1> QED BY Zenon, <1>3, <1>4, <1>5, <1>6, <1>7, <1>8 DEF CallStep

\* A running goroutine is counted, so that the counter of the WaitGroup does
\* not fall below zero.
LEMMA CountFacts ==
    ASSUME TypeOK, Counted
    PROVE  /\ \A p \in Proto : Running(p) => wg \in Nat \ {0}
           /\ pump = "on" \/ dispatcher = "on" => wg \in Nat \ {0}
           /\ wg = 0 => pump # "on" /\ dispatcher # "on" /\ \A p \in Proto : ~Running(p)
<1> DEFINE R == {p \in Proto : Running(p)}
<1>1. IsFiniteSet(R) BY Zenon, ProtoFacts, FS_Subset
<1>2. Cardinality(R) \in Nat /\ (Cardinality(R) = 0 <=> R = {})
  BY Zenon, <1>1, FS_CardinalityType, FS_EmptySet
<1>3. wg = Cardinality(R) + On(pump) + On(dispatcher) BY Zenon DEF Counted
<1>4. /\ On(pump) \in Nat /\ (On(pump) = 0 <=> pump # "on")
      /\ On(dispatcher) \in Nat /\ (On(dispatcher) = 0 <=> dispatcher # "on")
  BY DEF On
<1>5. \A p \in Proto : Running(p) => R # {} BY Zenon
<1>6. R = {} => \A p \in Proto : ~Running(p) BY Zenon
<1> HIDE DEF R
<1>7. wg = 0 => Cardinality(R) = 0 /\ On(pump) = 0 /\ On(dispatcher) = 0
  BY <1>2, <1>3, <1>4
<1>8. wg \in Nat BY <1>2, <1>3, <1>4
<1> QED BY Zenon, <1>2, <1>4, <1>5, <1>6, <1>7, <1>8

\* So do the event loops, the dispatcher, the pump, Cancel and Shutdown.
LEMMA LoopTypes ==
    ASSUME TypeOK, Counted, NEW p \in Proto,
           TakeEvent(p) \/ HandlerReturn(p) \/ HandlerHangs(p) \/ LoopReturn(p)
    PROVE  TypeOK'
<1> USE DEF LoopUnchanged, goroutines, registry, mailboxes, teardown
<1>0. loop \in [Proto -> {"none", "select", "handler", "stuck", "done"}] BY Zenon DEF TypeOK
<1>1. CASE TakeEvent(p)
  <2>1. loop' \in [Proto -> {"none", "select", "handler", "stuck", "done"}]
    BY Zenon, <1>0, <1>1 DEF TakeEvent
  <2>2. /\ messageChannel \in [Proto -> 0..MailboxBuf]
        /\ notificationEvents \in [Proto -> 0..MailboxBuf]
        /\ MailboxBuf \in Nat
    BY Zenon, LifecycleAssumption DEF TypeOK
  <2>3. messageChannel' \in [Proto -> 0..MailboxBuf]
    BY <1>1, <2>2 DEF TakeEvent
  <2>4. notificationEvents' \in [Proto -> 0..MailboxBuf]
    BY <1>1, <2>2 DEF TakeEvent
  <2>5. todo' \in [Goroutine -> Seq(Op)]
    <3>1. todo \in [Goroutine -> Seq(Op)] BY Zenon DEF TypeOK
    <3>2. \A i \in Id : <<OpOf("read", "handlers", p, i)>> \in Seq(Op) BY OpTypes DEF Read
    <3>3. \/ UNCHANGED todo
          \/ \E i \in Id : todo' = [todo EXCEPT ![p] = <<OpOf("read", "handlers", p, i)>>]
      BY Zenon, <1>1 DEF TakeEvent
    <3> QED BY Zenon, <3>1, <3>2, <3>3
  <2> QED BY Zenon, <1>1, <2>1, <2>3, <2>4, <2>5 DEF TakeEvent, TypeOK
<1>2. CASE HandlerReturn(p) \/ HandlerHangs(p)
  <2>1. loop' \in [Proto -> {"none", "select", "handler", "stuck", "done"}]
    BY Zenon, <1>0, <1>2 DEF HandlerReturn, HandlerHangs
  <2> QED BY <1>2, <2>1 DEF HandlerReturn, HandlerHangs, TypeOK
<1>3. CASE LoopReturn(p)
  <2>1. loop' \in [Proto -> {"none", "select", "handler", "stuck", "done"}]
    BY Zenon, <1>0, <1>3 DEF LoopReturn
  <2>2. wg \in Nat \ {0} BY Zenon, <1>3, CountFacts DEF LoopReturn, Running
  <2>3. wg' \in Nat BY <1>3, <2>2 DEF LoopReturn
  <2> QED BY Zenon, <1>3, <2>1, <2>3 DEF LoopReturn, TypeOK
<1> QED BY Zenon, <1>1, <1>2, <1>3

\* So do the dispatcher and the pump,
LEMMA DispatcherTypes ==
    ASSUME TypeOK, Counted,
           (\E i \in Id : processMessage(i)) \/ DispatcherReturn \/ PumpReturn
    PROVE  TypeOK'
<1>1. ASSUME NEW i \in Id, processMessage(i) PROVE TypeOK'
  <2>1. lookup[i] \in Proto BY Zenon, <1>1 DEF processMessage, TypeOK
  <2>2. <<Read("codecs", lookup[i], i), DeliverOp(lookup[i], i)>> \in Seq(Op)
    BY <2>1, OpTypes
  <2>3. Queue(Dispatcher, <<Read("codecs", lookup[i], i), DeliverOp(lookup[i], i)>>)
    BY Zenon, <1>1 DEF processMessage, Read, DeliverOp
  <2>4. todo' \in [Goroutine -> Seq(Op)]
    <3>1. todo \in [Goroutine -> Seq(Op)] BY Zenon DEF TypeOK
    <3> QED BY ZenonT(40), <2>2, <2>3, <3>1, QueueFrame
  <2> QED BY Zenon, <2>3, <2>4, QueueFrame DEF TypeOK
<1>2. CASE DispatcherReturn \/ PumpReturn
  <2>1. wg \in Nat \ {0} BY Zenon, <1>2, CountFacts DEF DispatcherReturn, PumpReturn
  <2>2. wg' \in Nat BY <1>2, <2>1 DEF DispatcherReturn, PumpReturn
  <2> QED BY Zenon, <1>2, <2>2 DEF DispatcherReturn, PumpReturn, TypeOK, registry, mailboxes, teardown
<1> QED BY Zenon, <1>1, <1>2

\* and Cancel and Shutdown.
Teardown ==
    \/ \E c \in Callers : CancelCall(c) \/ cancelFunc(c) \/ CancelReturn(c)
    \/ ShutdownReturn \/ ShutdownTimeout
LEMMA TeardownTypes ==
    ASSUME TypeOK, Teardown
    PROVE  TypeOK'
<1> USE DEF Aside, goroutines, registry, mailboxes
<1>1. ASSUME NEW c \in Callers, CancelCall(c) PROVE TypeOK'
  <2>1. early' \in BOOLEAN BY Zenon, <1>1 DEF CancelCall, TypeOK
  <2>2. phase' \in [Proto -> Phase] BY Zenon, <1>1 DEF CancelCall, Phase
  <2>3. canceller' \in [Callers -> {"no", "marking", "waiting", "returned"}]
    BY Zenon, <1>1 DEF CancelCall, TypeOK
  <2> QED BY Zenon, <1>1, <2>1, <2>2, <2>3 DEF CancelCall, TypeOK
<1>2. ASSUME NEW c \in Callers, cancelFunc(c) PROVE TypeOK'
  <2>1. early' \in BOOLEAN BY Zenon, <1>2 DEF cancelFunc, TypeOK
  <2>2. canceller' \in [Callers -> {"no", "marking", "waiting", "returned"}]
    BY Zenon, <1>2 DEF cancelFunc, TypeOK
  <2> QED BY Zenon, <1>2, <2>1, <2>2 DEF cancelFunc, TypeOK
<1>3. ASSUME NEW c \in Callers, CancelReturn(c) PROVE TypeOK'
  <2>1. canceller' \in [Callers -> {"no", "marking", "waiting", "returned"}]
    BY Zenon, <1>3 DEF CancelReturn, TypeOK
  <2> QED BY Zenon, <1>3, <2>1 DEF CancelReturn, TypeOK
<1>4. CASE ShutdownReturn \/ ShutdownTimeout
  BY Zenon, <1>4 DEF ShutdownReturn, ShutdownTimeout, TypeOK
<1> QED BY Zenon, <1>1, <1>2, <1>3, <1>4 DEF Teardown

-----------------------------------------------------------------------------
(* What calls have yet to do.                                              *)

\* Main and the dispatcher are goroutines of their own.
LEMMA Distinct ==
    /\ Main \notin Proto /\ Dispatcher \notin Proto /\ Dispatcher # Main /\ Nil \notin Proto
    /\ Goroutine = Proto \cup {Main, Dispatcher}
BY Zenon, LifecycleAssumption DEF Goroutine

\* A call that makes no step stays what it is: no codec is ever removed.
LEMMA CallFormKept ==
    ASSUME NEW g \in Goroutine, CallForm(g), todo'[g] = todo[g],
           \A p \in Proto : codecs[p] \subseteq codecs'[p]
    PROVE  CallForm(g)'
BY Zenon DEF CallForm

\* A call that queues its rest queues one of the forms.
LEMMA CallFormQueued ==
    ASSUME TypeOK, CallsOK, NEW g \in Goroutine, NEW ops, Queue(g, ops), Busy(g),
           \/ ops = <<>>
           \/ \E p \in Proto, i \in Id :
                \/ ops = <<Write("codecs", p, i), Set(p, i)>>
                \/ ops = <<Write("handlers", p, i)>>
                \/ ops = <<Read("codecs", p, i)>>
                \/ ops = <<Read("codecs", p, i), DeliverOp(p, i)>>
           \/ \E S \in SUBSET Proto : S # {} /\ ops = <<Fanout(S)>>
    PROVE  CallsOK'
<1>1. /\ todo' = [todo EXCEPT ![g] = ops]
      /\ UNCHANGED <<main, loop, dispatcher, codecs>>
  BY Zenon, QueueFrame
<1>2. todo \in [Goroutine -> Seq(Op)] BY Zenon DEF TypeOK
<1>3. todo'[g] = ops /\ \A h \in Goroutine : h # g => todo'[h] = todo[h] BY Zenon, <1>1, <1>2
<1>4. CallForm(g)' BY Zenon, <1>1, <1>3 DEF CallForm
<1>5. \A h \in Goroutine : h # g => CallForm(h)'
  BY Zenon, <1>1, <1>3, CallFormKept DEF CallsOK
<1>6. \A h \in Goroutine : Busy(h)' <=> Busy(h) BY Zenon, <1>1 DEF Busy
<1> QED BY Zenon, <1>3, <1>4, <1>5, <1>6 DEF CallsOK

\* Main changes no call but leaves Start and Init only when its own is over.
LEMMA MainCalls ==
    ASSUME TypeOK, CallsOK, Launched, MainStep
    PROVE  CallsOK'
<1> USE DEF Beside, goroutines, registry
<1>1. UNCHANGED <<todo, codecs>>
  BY Zenon DEF MainStep, start, StartEnter, StartReturn, InitEnter, InitReturn,
         startSessionEvents, startDispatcher, RunReturn
<1>2. todo[Main] = <<>>
  <2>1. todo[Main] # <<>> => main.at \in {"inStart", "inInit"}
    BY Zenon, Distinct DEF CallsOK, Busy
  <2> QED BY Zenon, <2>1 DEF MainStep, start, StartEnter, StartReturn, InitEnter, InitReturn,
                      startSessionEvents, startDispatcher, RunReturn
<1>3. \A p \in Proto : loop[p] = "handler" => loop'[p] = "handler"
  <2>1. StartReturn => loop[Current] = "none"
    BY ProtoFacts DEF StartReturn, Launched, Current, TypeOK
  <2>2. StartReturn => loop' = [loop EXCEPT ![Current] = "select"] BY Zenon DEF StartReturn
  <2>3. ~StartReturn => UNCHANGED loop
    BY Zenon DEF MainStep, start, StartEnter, InitEnter, InitReturn,
           startSessionEvents, startDispatcher, RunReturn
  <2>4. loop \in [Proto -> {"none", "select", "handler", "stuck", "done"}] BY Zenon DEF TypeOK
  <2> QED BY Zenon, <2>1, <2>2, <2>3, <2>4
<1>4. dispatcher = "on" => dispatcher' = "on"
  BY Zenon DEF MainStep, start, StartEnter, StartReturn, InitEnter, InitReturn,
         startSessionEvents, startDispatcher, RunReturn
<1>5. \A g \in Goroutine : CallForm(g)' BY Zenon, <1>1, CallFormKept DEF CallsOK
<1>6. ASSUME NEW g \in Goroutine, todo'[g] # <<>> PROVE Busy(g)'
  <2>1. g # Main /\ Busy(g) BY Zenon, <1>1, <1>2, <1>6 DEF CallsOK
  <2> QED BY Zenon, <1>3, <1>4, <2>1 DEF Busy
<1> QED BY Zenon, <1>5, <1>6 DEF CallsOK

\* User code is run by Main and by the event loops.
LEMMA UserCodeBusy ==
    ASSUME NEW g \in Goroutine, NEW p \in Proto, InUserCode(g, p)
    PROVE  Busy(g) /\ todo[g] = <<>>
BY Zenon DEF InUserCode, Busy

\* What user code calls leaves the calls in progress as they must be.
LEMMA UserCalls ==
    ASSUME TypeOK, CallsOK, NEW g \in Goroutine, NEW p \in Proto, UserCall(g, p)
    PROVE  CallsOK'
<1>0. InUserCode(g, p) /\ Busy(g) /\ todo[g] = <<>> BY Zenon, UserCallCases, UserCodeBusy
<1>1. CASE Panic(g)
  <2>1. UNCHANGED <<todo, codecs, dispatcher>> BY Zenon, <1>1 DEF Panic, registry
  <2>2. \A h \in Goroutine : CallForm(h)' BY Zenon, <2>1, CallFormKept DEF CallsOK
  <2>3. ASSUME NEW h \in Goroutine, todo'[h] # <<>> PROVE Busy(h)'
    <3>1. h # g /\ Busy(h) BY Zenon, <1>0, <2>1, <2>3 DEF CallsOK
    <3>2. loop \in [Proto -> {"none", "select", "handler", "stuck", "done"}] BY Zenon DEF TypeOK
    <3>3. \/ g = Main /\ UNCHANGED loop
          \/ loop' = [loop EXCEPT ![g] = "select"] /\ UNCHANGED main
      BY Zenon, <1>1 DEF Panic
    <3> QED BY Zenon, <2>1, <3>1, <3>2, <3>3 DEF Busy
  <2> QED BY Zenon, <2>2, <2>3 DEF CallsOK
<1>2. CASE SubsOnly
  <2>1. UNCHANGED <<todo, codecs, main, loop, dispatcher>> BY Zenon, <1>2 DEF SubsOnly, goroutines
  <2>2. \A h \in Goroutine : CallForm(h)' BY Zenon, <2>1, CallFormKept DEF CallsOK
  <2> QED BY Zenon, <2>1, <2>2 DEF CallsOK, Busy
<1>3. CASE QueuesWrite(g, p) BY Zenon, <1>0, <1>3, CallFormQueued DEF QueuesWrite
<1>4. CASE QueuesRead(g, p)
  <2>1. lookup \in [Id -> Proto \cup {Nil}] BY Zenon DEF TypeOK
  <2>2. PICK i \in Id : lookup[i] # Nil /\ Queue(g, <<Read("codecs", lookup[i], i)>>)
    BY Zenon, <1>4 DEF QueuesRead
  <2>3. lookup[i] \in Proto BY Zenon, <2>1, <2>2
  <2> QED BY Zenon, <1>0, <2>2, <2>3, CallFormQueued
<1>5. CASE QueuesFanout(g, p)
  <2>1. subs \in SUBSET Proto BY Zenon DEF TypeOK
  <2> QED BY Zenon, <1>0, <1>5, <2>1, CallFormQueued DEF QueuesFanout
<1> QED BY Zenon, <1>1, <1>2, <1>3, <1>4, <1>5, UserCallCases

\* A step of a call leaves a form: the codec is in p's map once it is written.
\* The routing table keeps naming protocols that have the codec.
LEMMA CallStepCalls ==
    ASSUME TypeOK, CallsOK, RoutedHasCodec, NEW g \in Goroutine, CallStep(g)
    PROVE  CallsOK' /\ RoutedHasCodec'
<1> USE DEF OpUnchanged, goroutines, registry
<1>0. /\ todo \in [Goroutine -> Seq(Op)] /\ CallForm(g)
      /\ codecs \in [Proto -> SUBSET Id] /\ lookup \in [Id -> Proto \cup {Nil}]
  BY Zenon DEF TypeOK, CallsOK
<1>1. todo[g] # <<>> /\ UNCHANGED <<main, loop, dispatcher>>
  BY Zenon DEF CallStep, WriteMap, SetLookup, ReadMap, DeliverMessage, Notify, GiveUp, Doing
<1>2. \A h \in Goroutine : h # g => todo'[h] = todo[h]
  BY Zenon, <1>0 DEF CallStep, WriteMap, SetLookup, ReadMap, DeliverMessage, Notify, GiveUp, Done
<1>3. SUFFICES /\ CallForm(g)'
               /\ \A p \in Proto : codecs[p] \subseteq codecs'[p]
               /\ RoutedHasCodec'
  <2>1. \A h \in Goroutine : CallForm(h)' BY Zenon, <1>2, <1>3, CallFormKept DEF CallsOK
  <2>2. \A h \in Goroutine : Busy(h)' <=> Busy(h) BY Zenon, <1>1 DEF Busy
  <2> QED BY Zenon, <1>1, <1>2, <1>3, <2>1, <2>2 DEF CallsOK
<1>4. Done(g) => todo'[g] = Tail(todo[g]) BY Zenon, <1>0 DEF Done
<1>5. UNCHANGED codecs => \A p \in Proto : codecs[p] \subseteq codecs'[p] BY Zenon
<1>6. UNCHANGED <<codecs, lookup>> => RoutedHasCodec' BY Zenon DEF RoutedHasCodec
<1>7. CASE WriteMap(g)
  <2>1. PICK p \in Proto, i \in Id :
          \/ todo[g] = <<Write("codecs", p, i), Set(p, i)>>
          \/ todo[g] = <<Write("handlers", p, i)>>
    BY Zenon, <1>0, <1>7, NextOp DEF WriteMap
  <2>2. CASE todo[g] = <<Write("codecs", p, i), Set(p, i)>>
    <3>1. Head(todo[g]) = Write("codecs", p, i) /\ todo'[g] = <<Set(p, i)>>
      BY <1>4, <1>7, <2>2, ShortSequences DEF WriteMap
    <3>2. /\ Head(todo[g]).map = "codecs" /\ Head(todo[g]).proto = p
          /\ Head(todo[g]).id = i
      BY <3>1, OpFields DEF Write
    <3>3. codecs' = [codecs EXCEPT ![p] = @ \cup {i}] BY Zenon, <1>7, <3>2 DEF WriteMap
    <3>4. CallForm(g)' BY Zenon, <1>0, <3>1, <3>3 DEF CallForm
    <3>5. UNCHANGED lookup BY Zenon, <1>7 DEF WriteMap
    <3> QED BY Zenon, <1>0, <3>3, <3>4, <3>5 DEF RoutedHasCodec
  <2>3. CASE todo[g] = <<Write("handlers", p, i)>>
    <3>1. Head(todo[g]) = Write("handlers", p, i) /\ todo'[g] = <<>>
      BY Zenon, <1>4, <1>7, <2>3, ShortSequences DEF WriteMap
    <3>2. Head(todo[g]).map = "handlers" BY <3>1, OpFields DEF Write
    <3> QED BY Zenon, <1>5, <1>6, <1>7, <3>1, <3>2 DEF WriteMap, CallForm
  <2> QED BY Zenon, <2>1, <2>2, <2>3
<1>8. CASE SetLookup(g)
  <2>1. PICK p \in Proto, i \in Id : todo[g] = <<Set(p, i)>> /\ i \in codecs[p]
    BY Zenon, <1>0, <1>8, NextOp DEF SetLookup
  <2>2. Head(todo[g]) = Set(p, i) /\ todo'[g] = <<>>
    BY Zenon, <1>4, <1>8, <2>1, ShortSequences DEF SetLookup
  <2>3. Head(todo[g]).proto = p /\ Head(todo[g]).id = i BY <2>2, OpFields DEF Set
  <2>4. lookup' = [lookup EXCEPT ![i] = p] /\ UNCHANGED codecs BY Zenon, <1>8, <2>3 DEF SetLookup
  <2>5. RoutedHasCodec' BY Zenon, <1>0, <2>1, <2>4 DEF RoutedHasCodec
  <2> QED BY Zenon, <2>2, <2>4, <2>5 DEF CallForm
<1>9. CASE ReadMap(g)
  <2>1. UNCHANGED <<codecs, lookup>> BY Zenon, <1>9 DEF ReadMap
  <2>2. todo'[g] = Tail(todo[g]) \/ todo'[g] = <<>> BY Zenon, <1>0, <1>4, <1>9 DEF ReadMap
  <2>3. PICK p \in Proto, i \in Id :
          \/ todo[g] = <<Read("codecs", p, i)>> \/ todo[g] = <<Read("handlers", p, i)>>
          \/ todo[g] = <<Read("codecs", p, i), DeliverOp(p, i)>>
    BY Zenon, <1>0, <1>9, NextOp DEF ReadMap
  <2>4. todo'[g] = <<>> \/ todo'[g] = <<DeliverOp(p, i)>> BY Zenon, <2>2, <2>3, ShortSequences
  <2> QED BY Zenon, <1>5, <1>6, <2>1, <2>4 DEF CallForm
<1>10. CASE DeliverMessage(g)
  <2>1. UNCHANGED <<codecs, lookup>> /\ todo'[g] = Tail(todo[g])
    BY Zenon, <1>4, <1>10 DEF DeliverMessage
  <2>2. todo'[g] = <<>> BY Zenon, <1>0, <1>10, <2>1, NextOp, ShortSequences DEF DeliverMessage
  <2> QED BY Zenon, <1>5, <1>6, <2>1, <2>2 DEF CallForm
<1>11. CASE Notify(g)
  <2>1. PICK S \in SUBSET Proto : todo[g] = <<Fanout(S)>> BY Zenon, <1>0, <1>11, NextOp DEF Notify
  <2>2. Head(todo[g]).to = S BY <2>1, OpFields, ShortSequences
  <2>3. PICK q \in S : todo'[g] = IF S \ {q} = {} THEN <<>> ELSE <<Fanout(S \ {q})>>
    BY Zenon, <1>0, <1>11, <2>2 DEF Notify
  <2>4. CallForm(g)' BY Zenon, <2>3 DEF CallForm
  <2> QED BY Zenon, <1>5, <1>6, <1>11, <2>4 DEF Notify
<1>12. CASE GiveUp(g)
  BY Zenon, <1>0, <1>5, <1>6, <1>12 DEF GiveUp, CallForm
<1> QED BY Zenon, <1>7, <1>8, <1>9, <1>10, <1>11, <1>12 DEF CallStep

\* An event loop that takes an event looks its handler up at most, and leaves
\* a handler only when its call is over.
LEMMA LoopCalls ==
    ASSUME TypeOK, CallsOK, NEW p \in Proto,
           TakeEvent(p) \/ HandlerReturn(p) \/ HandlerHangs(p) \/ LoopReturn(p)
    PROVE  CallsOK'
<1> USE DEF LoopUnchanged, registry
<1>0. /\ loop \in [Proto -> {"none", "select", "handler", "stuck", "done"}]
      /\ todo \in [Goroutine -> Seq(Op)]
  BY Zenon DEF TypeOK
<1>1. /\ UNCHANGED <<main, dispatcher, codecs>>
      /\ \A q \in Proto : q # p => loop'[q] = loop[q]
      /\ \A h \in Goroutine : h # p => todo'[h] = todo[h]
  BY Zenon, <1>0 DEF TakeEvent, HandlerReturn, HandlerHangs, LoopReturn
<1>2. p \in Goroutine /\ p # Main /\ p # Dispatcher BY Zenon, Distinct
<1>3. todo[p] = <<>>
  <2>1. loop[p] = "select" => todo[p] = <<>> BY Zenon, <1>2 DEF CallsOK, Busy
  <2> QED BY Zenon, <2>1 DEF TakeEvent, HandlerReturn, HandlerHangs, LoopReturn
<1>4. \/ todo'[p] = <<>>
      \/ loop'[p] = "handler" /\ \E i \in Id : todo'[p] = <<Read("handlers", p, i)>>
  BY Zenon, <1>0, <1>2, <1>3 DEF TakeEvent, HandlerReturn, HandlerHangs, LoopReturn, Read
<1>5. CallForm(p)' BY Zenon, <1>4 DEF CallForm
<1>6. \A h \in Goroutine : h # p => CallForm(h)' BY Zenon, <1>1, CallFormKept DEF CallsOK
<1>7. ASSUME NEW h \in Goroutine, todo'[h] # <<>> PROVE Busy(h)'
  BY Zenon, <1>1, <1>2, <1>4, <1>7 DEF CallsOK, Busy
<1> QED BY Zenon, <1>5, <1>6, <1>7 DEF CallsOK

\* The dispatcher returns only between messages; the other goroutines of the
\* runtime do not touch calls.
LEMMA DispatcherCalls ==
    ASSUME TypeOK, CallsOK,
           (\E i \in Id : processMessage(i)) \/ DispatcherReturn \/ PumpReturn \/ Teardown
    PROVE  CallsOK'
<1>1. ASSUME NEW i \in Id, processMessage(i) PROVE CallsOK'
  <2>1. lookup[i] \in Proto BY Zenon, <1>1 DEF processMessage, TypeOK
  <2>2. Queue(Dispatcher, <<Read("codecs", lookup[i], i), DeliverOp(lookup[i], i)>>)
    BY Zenon, <1>1 DEF processMessage, Read, DeliverOp
  <2>3. Busy(Dispatcher) /\ Dispatcher \in Goroutine BY Zenon, <1>1, Distinct DEF processMessage, Busy
  <2> QED BY Zenon, <2>1, <2>2, <2>3, CallFormQueued
<1>2. CASE DispatcherReturn \/ PumpReturn \/ Teardown
  <2>1. UNCHANGED <<todo, codecs, main, loop>>
    BY Zenon, <1>2 DEF DispatcherReturn, PumpReturn, Teardown, CancelCall, cancelFunc, CancelReturn,
                ShutdownReturn, ShutdownTimeout, Aside, goroutines, registry
  <2>2. dispatcher' = dispatcher \/ todo[Dispatcher] = <<>>
    BY Zenon, <1>2 DEF DispatcherReturn, PumpReturn, Teardown, CancelCall, cancelFunc, CancelReturn,
                ShutdownReturn, ShutdownTimeout, Aside, goroutines
  <2>3. \A h \in Goroutine : CallForm(h)' BY Zenon, <2>1, CallFormKept DEF CallsOK
  <2> QED BY Zenon, <2>1, <2>2, <2>3 DEF CallsOK, Busy
<1> QED BY Zenon, <1>1, <1>2

-----------------------------------------------------------------------------
(* Launching and counting goroutines.                                      *)

OtherStep ==
    \/ \E g \in Goroutine : (\E p \in Proto : UserCall(g, p)) \/ CallStep(g)
    \/ \E p \in Proto : TakeEvent(p) \/ HandlerReturn(p) \/ HandlerHangs(p) \/ LoopReturn(p)
    \/ (\E i \in Id : processMessage(i)) \/ DispatcherReturn \/ PumpReturn
    \/ Teardown
    \/ UNCHANGED vars

\* A step is one of Main's or one of these.
LEMMA StepCases ==
    ASSUME [Next]_vars
    PROVE  MainStep \/ OtherStep
BY Zenon DEF Next, OtherStep, Teardown

\* The frame of a step of a call.
LEMMA CallStepFrame ==
    ASSUME NEW g, CallStep(g)
    PROVE  UNCHANGED <<strict, main, phase, loop, pump, dispatcher, wg, cancelled, canceller,
                       shutdown, early>>
BY Zenon DEF CallStep, WriteMap, SetLookup, ReadMap, DeliverMessage, Notify, GiveUp, OpUnchanged,
       goroutines, teardown

\* The frame of a call of user code: an event loop may be back in its select,
\* and Main may have panicked, in either case with no call in progress.
LEMMA UserCallFrame ==
    ASSUME TypeOK, NEW g \in Goroutine, NEW p \in Proto, UserCall(g, p)
    PROVE  /\ UNCHANGED <<strict, phase, pump, dispatcher, wg, cancelled, canceller, shutdown,
                          early>>
           /\ \/ UNCHANGED <<main, loop>>
              \/ /\ g = Main /\ todo[Main] = <<>>
                 /\ main' = At("panicked", 1) /\ UNCHANGED <<loop, todo>>
              \/ /\ g = p /\ loop[p] = "handler" /\ loop' = [loop EXCEPT ![p] = "select"]
                 /\ UNCHANGED <<main, todo>>
<1>0. InUserCode(g, p) BY Zenon, UserCallCases
<1>1. CASE Panic(g)
  <2>1. UNCHANGED <<strict, phase, pump, dispatcher, wg, todo, cancelled, canceller, shutdown,
                    early>>
    BY Zenon, <1>1 DEF Panic, teardown
  <2>2. \/ g = Main /\ main' = At("panicked", 1) /\ UNCHANGED loop
        \/ g # Main /\ loop' = [loop EXCEPT ![g] = "select"] /\ UNCHANGED main
    BY Zenon, <1>1 DEF Panic
  <2> QED BY Zenon, <1>0, <2>1, <2>2 DEF InUserCode
<1>2. CASE SubsOnly BY Zenon, <1>2 DEF SubsOnly, goroutines, teardown
<1>3. ASSUME NEW ops, Queue(g, ops)
      PROVE  UNCHANGED <<strict, main, phase, loop, pump, dispatcher, wg, cancelled, canceller,
                         shutdown, early>>
  BY Zenon, <1>3, QueueFrame
<1> QED BY Zenon, <1>1, <1>2, <1>3, UserCallCases DEF QueuesWrite, QueuesRead, QueuesFanout

\* What steps other than Main's do to the goroutines, the phases and main.
LEMMA OtherFrame ==
    ASSUME TypeOK, OtherStep
    PROVE  /\ main' = main \/ main' = At("panicked", 1)
           /\ \A p \in Proto : loop[p] = "none" => loop'[p] = "none"
           /\ pump = "none" => pump' = "none"
           /\ dispatcher = "none" => dispatcher' = "none"
           /\ UNCHANGED strict /\ (early => early')
           /\ \/ UNCHANGED phase
              \/ phase' = [p \in Proto |-> "cancelled"] /\ (Starting => early')
<1>0. loop \in [Proto -> {"none", "select", "handler", "stuck", "done"}] BY Zenon DEF TypeOK
<1>1. ASSUME NEW g \in Goroutine, NEW p \in Proto, UserCall(g, p)
      PROVE  /\ UNCHANGED <<strict, phase, pump, dispatcher, early>>
             /\ main' = main \/ main' = At("panicked", 1)
             /\ \A q \in Proto : loop[q] = "none" => loop'[q] = "none"
  BY Zenon, <1>0, <1>1, UserCallFrame
<1>2. ASSUME NEW g \in Goroutine, CallStep(g)
      PROVE  UNCHANGED <<strict, main, phase, loop, pump, dispatcher, early>>
  BY Zenon, <1>2, CallStepFrame
<1>3. ASSUME NEW p \in Proto,
             TakeEvent(p) \/ HandlerReturn(p) \/ HandlerHangs(p) \/ LoopReturn(p)
      PROVE  /\ UNCHANGED <<strict, main, phase, pump, dispatcher, early>>
             /\ \A q \in Proto : loop[q] = "none" => loop'[q] = "none"
  BY Zenon, <1>0, <1>3 DEF TakeEvent, HandlerReturn, HandlerHangs, LoopReturn, LoopUnchanged, teardown
<1>4. ASSUME NEW i \in Id, processMessage(i)
      PROVE  UNCHANGED <<strict, main, phase, loop, pump, dispatcher, early>>
  BY Zenon, <1>4, QueueFrame DEF processMessage
<1>5. CASE DispatcherReturn \/ PumpReturn
  BY <1>5 DEF DispatcherReturn, PumpReturn, teardown
<1>6. CASE Teardown
  <2>1. UNCHANGED <<strict, main, loop, pump, dispatcher>>
    BY Zenon, <1>6 DEF Teardown, CancelCall, cancelFunc, CancelReturn, ShutdownReturn,
                ShutdownTimeout, Aside, goroutines
  <2>2. early => early'
    BY <1>6, Zenon DEF Teardown, CancelCall, cancelFunc, CancelReturn, ShutdownReturn,
                ShutdownTimeout
  <2>3. \/ UNCHANGED phase
        \/ phase' = [p \in Proto |-> "cancelled"] /\ (Starting => early')
    BY <1>6, Zenon DEF Teardown, CancelCall, cancelFunc, CancelReturn, ShutdownReturn,
                ShutdownTimeout
  <2> QED BY Zenon, <2>1, <2>2, <2>3
<1>7. CASE UNCHANGED vars BY Zenon, <1>7 DEF vars, goroutines, teardown
<1> QED BY Zenon, <1>1, <1>2, <1>3, <1>4, <1>5, <1>6, <1>7 DEF OtherStep

\* Goroutines are launched in order.
LEMMA LaunchedStep ==
    ASSUME TypeOK, Launched, [Next]_vars
    PROVE  Launched'
<1>0. /\ main \in [at : Stage, n : 1..Len(Protocols)]
      /\ loop \in [Proto -> {"none", "select", "handler", "stuck", "done"}]
  BY Zenon DEF TypeOK
<1>1. main.n \in DOMAIN Protocols /\ Current \in Proto
  BY Zenon, <1>0, ProtoFacts DEF Current
<1>2. \A st, n : At(st, n).at = st /\ At(st, n).n = n BY Zenon DEF At
<1>3. CASE OtherStep
  <2>1. CASE main' = main
    BY Zenon, <1>3, <2>1, OtherFrame, ProtoFacts DEF Launched
  <2>2. CASE main' = At("panicked", 1)
    BY <1>2, <2>2 DEF Launched
  <2> QED BY Zenon, <1>3, <2>1, <2>2, OtherFrame
<1>4. CASE StartReturn
  <2>1. CASE Last
    <3>1. main'.at = "init" /\ pump' = "none" /\ dispatcher' = "none"
      BY Zenon, <1>2, <1>4, <2>1 DEF StartReturn, Launched
    <3> QED BY Zenon, <3>1 DEF Launched
  <2>2. CASE ~Last
    <3>1. main'.at = "start" /\ main'.n = main.n + 1 /\ pump' = "none" /\ dispatcher' = "none"
      BY <1>2, <1>4, <2>2 DEF StartReturn, Launched
    <3>2. loop' = [loop EXCEPT ![Current] = "select"] BY Zenon, <1>4 DEF StartReturn
    <3>3. ASSUME NEW m \in DOMAIN Protocols, m >= main.n + 1
          PROVE  loop'[Protocols[m]] = "none"
      <4>1. Protocols[m] # Current /\ Protocols[m] \in Proto
        BY <1>1, <3>3, ProtoFacts, LifecycleAssumption DEF Current
      <4>2. loop[Protocols[m]] = "none" BY <1>0, <1>4, <3>3, ProtoFacts DEF StartReturn, Launched
      <4> QED BY Zenon, <1>0, <3>2, <4>1, <4>2
    <3> QED BY Zenon, <3>1, <3>3 DEF Launched
  <2> QED BY Zenon, <2>1, <2>2
<1>5. CASE MainStep /\ ~StartReturn
  <2>1. UNCHANGED loop
    BY Zenon, <1>5 DEF MainStep, start, StartEnter, InitEnter, InitReturn,
           startSessionEvents, startDispatcher, RunReturn, goroutines
  <2> QED BY <1>2, <1>5, <2>1 DEF MainStep, start, StartEnter, InitEnter, InitReturn,
           startSessionEvents, startDispatcher, RunReturn, goroutines, Launched
<1> QED BY Zenon, <1>3, <1>4, <1>5, StepCases

\* The WaitGroup's counter is the number of goroutines that run (the Add and
\* Done calls of protocol.go, session.go and runtime.go).
LEMMA CountedStep ==
    ASSUME TypeOK, Launched, Counted, [Next]_vars
    PROVE  Counted'
<1> DEFINE R == {p \in Proto : Running(p)}
<1>0. loop \in [Proto -> {"none", "select", "handler", "stuck", "done"}] BY Zenon DEF TypeOK
<1>1. IsFiniteSet(R) BY Zenon, ProtoFacts, FS_Subset
<1>2. Cardinality(R) \in Nat BY Zenon, <1>1, FS_CardinalityType
<1>3. wg = Cardinality(R) + On(pump) + On(dispatcher) BY Zenon DEF Counted
<1>4. SUFFICES wg' = Cardinality(R') + On(pump') + On(dispatcher') BY Zenon DEF Counted, On
<1>5. \A x : On(x) \in Nat BY Zenon DEF On
<1>6. On("none") = 0 /\ On("on") = 1 /\ On("done") = 0 BY Zenon DEF On
<1>7. CASE StartReturn
  <2>1. Current \in Proto /\ loop[Current] = "none"
    BY <1>7, ProtoFacts DEF StartReturn, Launched, Current, TypeOK
  <2>2. loop' = [loop EXCEPT ![Current] = "select"] /\ wg' = wg + 1
        /\ UNCHANGED <<pump, dispatcher>>
    BY Zenon, <1>7 DEF StartReturn
  <2>3. R' = R \cup {Current} /\ Current \notin R BY Zenon, <1>0, <2>1, <2>2 DEF Running
  <2>4. Cardinality(R') = Cardinality(R) + 1 BY Zenon, <1>1, <2>3, FS_AddElement
  <2> QED BY <1>2, <1>3, <1>5, <2>2, <2>4
<1>8. ASSUME NEW p \in Proto, LoopReturn(p)
      PROVE  wg' = Cardinality(R') + On(pump') + On(dispatcher')
  <2>1. /\ loop[p] = "select" /\ loop' = [loop EXCEPT ![p] = "done"] /\ wg' = wg - 1
        /\ UNCHANGED <<pump, dispatcher>>
    BY Zenon, <1>8 DEF LoopReturn, LoopUnchanged
  <2>2. R' = R \ {p} /\ p \in R BY Zenon, <1>0, <2>1 DEF Running
  <2>3. Cardinality(R') = Cardinality(R) - 1 BY Zenon, <1>1, <2>2, FS_RemoveElement
  <2> QED BY <1>2, <1>3, <1>5, <2>1, <2>3
<1>9. ASSUME UNCHANGED <<wg, pump, dispatcher>>,
             \A p \in Proto : Running(p)' <=> Running(p)
      PROVE  wg' = Cardinality(R') + On(pump') + On(dispatcher')
  <2>1. R' = R BY Zenon, <1>9
  <2> QED BY Zenon, <1>3, <1>9, <2>1
<1>10. UNCHANGED loop => R' = R BY Zenon DEF Running
<1>11. CASE startSessionEvents
  <2>1. pump = "none" BY Zenon, <1>11 DEF startSessionEvents, Launched
  <2>2. UNCHANGED <<loop, dispatcher>> /\ pump' = "on" /\ wg' = wg + 1
    BY Zenon, <1>11 DEF startSessionEvents
  <2>3. On(pump) = 0 /\ On(pump') = 1 BY Zenon, <1>6, <2>1, <2>2
  <2>4. Cardinality(R') = Cardinality(R) BY Zenon, <1>10, <2>2
  <2> HIDE DEF R
  <2> QED BY <1>2, <1>3, <1>5, <2>2, <2>3, <2>4
<1>12. CASE startDispatcher
  <2>1. dispatcher = "none" BY Zenon, <1>12 DEF startDispatcher, Launched
  <2>2. UNCHANGED <<loop, pump>> /\ dispatcher' = "on" /\ wg' = wg + 1
    BY Zenon, <1>12 DEF startDispatcher
  <2>3. On(dispatcher) = 0 /\ On(dispatcher') = 1 BY Zenon, <1>6, <2>1, <2>2
  <2>4. Cardinality(R') = Cardinality(R) BY Zenon, <1>10, <2>2
  <2> HIDE DEF R
  <2> QED BY <1>2, <1>3, <1>5, <2>2, <2>3, <2>4
<1>13. CASE DispatcherReturn
  <2>1. /\ UNCHANGED <<loop, pump>> /\ dispatcher = "on" /\ dispatcher' = "done"
        /\ wg' = wg - 1
    BY Zenon, <1>13 DEF DispatcherReturn
  <2>3. On(dispatcher) = 1 /\ On(dispatcher') = 0 BY Zenon, <1>6, <2>1
  <2>4. Cardinality(R') = Cardinality(R) BY Zenon, <1>10, <2>1
  <2> HIDE DEF R
  <2> QED BY <1>2, <1>3, <1>5, <2>1, <2>3, <2>4
<1>14. CASE PumpReturn
  <2>1. UNCHANGED <<loop, dispatcher>> /\ pump = "on" /\ pump' = "done" /\ wg' = wg - 1
    BY Zenon, <1>14 DEF PumpReturn
  <2>3. On(pump) = 1 /\ On(pump') = 0 BY Zenon, <1>6, <2>1
  <2>4. Cardinality(R') = Cardinality(R) BY Zenon, <1>10, <2>1
  <2> HIDE DEF R
  <2> QED BY <1>2, <1>3, <1>5, <2>1, <2>3, <2>4
<1>15. CASE start \/ StartEnter \/ InitEnter \/ InitReturn \/ RunReturn \/ Teardown
            \/ UNCHANGED vars
  <2>1. UNCHANGED <<wg, loop, pump, dispatcher>>
    BY Zenon, <1>15 DEF start, StartEnter, InitEnter, InitReturn, RunReturn, Teardown, CancelCall,
           cancelFunc, CancelReturn, ShutdownReturn, ShutdownTimeout, Aside, goroutines, vars
  <2> QED BY Zenon, <1>9, <2>1 DEF Running
<1>16. ASSUME NEW g \in Goroutine, NEW p \in Proto, UserCall(g, p)
       PROVE  wg' = Cardinality(R') + On(pump') + On(dispatcher')
  <2>1. \A q \in Proto : Running(q)' <=> Running(q) BY Zenon, <1>0, <1>16, UserCallFrame DEF Running
  <2> QED BY Zenon, <1>9, <1>16, <2>1, UserCallFrame
<1>17. ASSUME NEW g \in Goroutine, CallStep(g)
       PROVE  wg' = Cardinality(R') + On(pump') + On(dispatcher')
  BY Zenon, <1>9, <1>17, CallStepFrame DEF Running
<1>18. ASSUME NEW p \in Proto, TakeEvent(p) \/ HandlerReturn(p) \/ HandlerHangs(p)
       PROVE  wg' = Cardinality(R') + On(pump') + On(dispatcher')
  <2>1. /\ \A q \in Proto : Running(q)' <=> Running(q)
        /\ UNCHANGED <<wg, pump, dispatcher>>
    BY Zenon, <1>0, <1>18 DEF Running, TakeEvent, HandlerReturn, HandlerHangs, LoopUnchanged
  <2> QED BY Zenon, <1>9, <2>1
<1>19. ASSUME NEW i \in Id, processMessage(i)
       PROVE  wg' = Cardinality(R') + On(pump') + On(dispatcher')
  BY Zenon, <1>9, <1>19, QueueFrame DEF processMessage, Running
<1> QED BY Zenon, <1>7, <1>8, <1>11, <1>12, <1>13, <1>14, <1>15, <1>16, <1>17, <1>18, <1>19,
           StepCases DEF MainStep, OtherStep

-----------------------------------------------------------------------------
(* Strict mode.                                                            *)

\* Main makes its steps between the calls of Start and Init.
LEMMA MainIdle ==
    ASSUME TypeOK, CallsOK, MainStep
    PROVE  /\ todo[Main] = <<>> /\ UNCHANGED <<strict, todo, codecs, lookup>>
           /\ UNCHANGED <<cancelled, canceller, shutdown, early>>
<1>1. todo[Main] # <<>> => main.at \in {"inStart", "inInit"}
  BY Zenon, Distinct DEF CallsOK, Busy
<1> QED BY Zenon, <1>1 DEF MainStep, start, StartEnter, StartReturn, InitEnter, InitReturn,
       startSessionEvents, startDispatcher, RunReturn, Beside, registry, teardown

\* A protocol registers inside its Start only (enterPhase in protocol.go).
LEMMA RegisteringStep ==
    ASSUME TypeOK, Launched, Registering, [Next]_vars
    PROVE  Registering'
<1>0. /\ main \in [at : Stage, n : 1..Len(Protocols)]
      /\ loop \in [Proto -> {"none", "select", "handler", "stuck", "done"}]
      /\ phase \in [Proto -> Phase]
  BY Zenon DEF TypeOK
<1>1. main.n \in DOMAIN Protocols /\ Current \in Proto
  BY Zenon, <1>0, ProtoFacts DEF Current
<1>2. \A st, n : At(st, n).at = st /\ At(st, n).n = n BY Zenon DEF At
<1>3. CASE OtherStep
  <2>1. \A p \in Proto : phase'[p] = "registering" => phase[p] = "registering"
    BY Zenon, <1>3, OtherFrame
  <2>2. CASE main' = main BY Zenon, <1>3, <2>1, <2>2, OtherFrame DEF Registering, Current
  <2>3. CASE main' = At("panicked", 1)
    BY <1>2, <1>3, <2>1, <2>3, OtherFrame DEF Registering
  <2> QED BY Zenon, <1>3, <2>2, <2>3, OtherFrame
<1>4. CASE StartEnter
  <2>1. /\ main'.at = "inStart" /\ main'.n = main.n
        /\ phase' = [phase EXCEPT ![Current] = "registering"] /\ UNCHANGED loop
        /\ main.at = "start"
    BY Zenon, <1>2, <1>4 DEF StartEnter, goroutines
  <2>2. loop[Current] = "none" BY <1>0, <1>1, <2>1 DEF Launched, Current
  <2>3. \A p \in Proto : phase[p] # "registering" BY Zenon, <2>1 DEF Registering
  <2>4. Current' = Current BY Zenon, <2>1 DEF Current
  <2> QED BY Zenon, <1>0, <2>1, <2>2, <2>3, <2>4 DEF Registering
<1>5. CASE StartReturn
  <2>1. phase' = [phase EXCEPT ![Current] = "registered"] /\ main.at = "inStart"
    BY Zenon, <1>5 DEF StartReturn
  <2>2. \A p \in Proto : phase[p] = "registering" => p = Current BY Zenon, <2>1 DEF Registering
  <2>3. \A p \in Proto : phase'[p] # "registering" BY Zenon, <1>0, <2>1, <2>2
  <2> QED BY Zenon, <2>3 DEF Registering
<1>6. CASE MainStep /\ ~StartEnter /\ ~StartReturn
  <2>1. main.at \notin {"inStart", "panicked"}
    BY Zenon, <1>6 DEF MainStep, start, InitEnter, InitReturn,
       startSessionEvents, startDispatcher, RunReturn
  <2>2. \A p \in Proto : phase[p] # "registering" BY Zenon, <2>1 DEF Registering
  <2>3. \/ UNCHANGED phase
        \/ phase' = [phase EXCEPT ![Current] = "initializing"]
        \/ phase' = [phase EXCEPT ![Current] = "running"]
    BY Zenon, <1>6 DEF MainStep, start, InitEnter, InitReturn,
       startSessionEvents, startDispatcher, RunReturn
  <2>4. \A p \in Proto : phase'[p] # "registering" BY Zenon, <1>0, <2>2, <2>3
  <2> QED BY Zenon, <2>4 DEF Registering
<1> QED BY Zenon, <1>3, <1>4, <1>5, <1>6, StepCases

\* What a step of a call leaves of it begins with no write.
LEMMA AfterStep ==
    ASSUME TypeOK, CallsOK, NEW g \in Goroutine, CallStep(g)
    PROVE  /\ \A h \in Goroutine : h # g => todo'[h] = todo[h]
           /\ \/ todo'[g] = <<>>
              \/ \E p \in Proto, i \in Id : todo'[g] \in {<<Set(p, i)>>, <<DeliverOp(p, i)>>}
              \/ \E S \in SUBSET Proto : todo'[g] = <<Fanout(S)>>
           /\ \A p \in Proto, i \in Id : todo[g] = <<Read("handlers", p, i)>> => todo'[g] = <<>>
<1>0. todo \in [Goroutine -> Seq(Op)] /\ CallForm(g) BY Zenon DEF TypeOK, CallsOK
<1>1. \A h \in Goroutine : h # g => todo'[h] = todo[h]
  BY Zenon, <1>0 DEF CallStep, WriteMap, SetLookup, ReadMap, DeliverMessage, Notify, GiveUp, Done
<1>2. Done(g) => todo'[g] = Tail(todo[g]) BY Zenon, <1>0 DEF Done
<1>3. CASE Notify(g)
  <2>1. PICK S \in SUBSET Proto : todo[g] = <<Fanout(S)>> BY Zenon, <1>0, <1>3, NextOp DEF Notify
  <2>2. Head(todo[g]).to = S /\ Head(todo[g]).op = "fanout"
    BY <2>1, OpFields, ShortSequences
  <2>3. PICK q \in S : todo'[g] = IF S \ {q} = {} THEN <<>> ELSE <<Fanout(S \ {q})>>
    BY Zenon, <1>0, <1>3, <2>2 DEF Notify
  <2>4. \A p \in Proto, i \in Id : todo[g] # <<Read("handlers", p, i)>>
    BY <2>2, OpFields, ShortSequences DEF Read
  <2> QED BY Zenon, <1>1, <2>3, <2>4
<1>4. CASE WriteMap(g) \/ SetLookup(g) \/ ReadMap(g) \/ DeliverMessage(g) \/ GiveUp(g)
  <2>1. todo'[g] = Tail(todo[g]) \/ todo'[g] = <<>>
    BY Zenon, <1>0, <1>2, <1>4 DEF WriteMap, SetLookup, ReadMap, DeliverMessage, GiveUp
  <2>2. \/ todo[g] = <<>> \/ Tail(todo[g]) = <<>>
        \/ \E p \in Proto, i \in Id :
             Tail(todo[g]) = <<Set(p, i)>> \/ Tail(todo[g]) = <<DeliverOp(p, i)>>
    BY <1>0, ShortSequences, ZenonT(40) DEF CallForm
  <2>3. todo[g] # <<>>
    BY Zenon, <1>4 DEF WriteMap, SetLookup, ReadMap, DeliverMessage, GiveUp, Doing
  <2>4. \A p \in Proto, i \in Id : todo[g] = <<Read("handlers", p, i)>> => Tail(todo[g]) = <<>>
    BY Zenon, ShortSequences
  <2> QED BY Zenon, <1>1, <2>1, <2>2, <2>3, <2>4
<1> QED BY Zenon, <1>3, <1>4 DEF CallStep

\* The first operation of what is left is no write.
LEMMA NoWriteAhead ==
    ASSUME NEW t,
           \/ t = <<>>
           \/ \E p \in Proto, i \in Id :
                t \in {<<Set(p, i)>>, <<DeliverOp(p, i)>>, <<Read("handlers", p, i)>>,
                       <<Read("codecs", p, i)>>, <<Read("codecs", p, i), DeliverOp(p, i)>>}
           \/ \E S \in SUBSET Proto : t = <<Fanout(S)>>
    PROVE  ~(t # <<>> /\ Head(t).op = "write")
BY OpFields, ShortSequences DEF Set, DeliverOp, Read

\* In strict mode only a Start writes its protocol's maps.
LEMMA StrictWritesStep ==
    ASSUME TypeOK, CallsOK, Registering, StrictWrites, [Next]_vars
    PROVE  StrictWrites'
<1>0. todo \in [Goroutine -> Seq(Op)] /\ lookup \in [Id -> Proto \cup {Nil}] BY Zenon DEF TypeOK
<1>1. ASSUME UNCHANGED <<strict, main>>, NEW g \in Goroutine,
             \A h \in Goroutine : h # g => todo'[h] = todo[h],
             ~(todo'[g] # <<>> /\ Head(todo'[g]).op = "write")
      PROVE  StrictWrites'
  BY Zenon, <1>1 DEF StrictWrites, Doing, Current
<1>2. ASSUME UNCHANGED <<strict, main, todo>> PROVE StrictWrites'
  BY Zenon, <1>2 DEF StrictWrites, Doing, Current
<1>3. ASSUME UNCHANGED <<strict, todo>>, todo[Main] = <<>> PROVE StrictWrites'
  BY Zenon, <1>3 DEF StrictWrites, Doing
<1>4. CASE MainStep BY Zenon, <1>3, <1>4, MainIdle
<1>5. ASSUME NEW g \in Goroutine, NEW p \in Proto, UserCall(g, p) PROVE StrictWrites'
  <2>0. InUserCode(g, p) /\ UNCHANGED strict BY Zenon, <1>5, UserCallCases, UserCallFrame
  <2>1. CASE Panic(g)
    <3>1. UNCHANGED todo BY Zenon, <2>1 DEF Panic
    <3>2. CASE g = Main BY Zenon, <1>3, <2>0, <3>1, <3>2 DEF InUserCode
    <3>3. CASE g # Main
      <4>1. UNCHANGED main BY Zenon, <2>1, <3>3 DEF Panic
      <4> QED BY Zenon, <1>2, <2>0, <3>1, <4>1
    <3> QED BY Zenon, <3>2, <3>3
  <2>2. CASE SubsOnly BY Zenon, <1>2, <2>2 DEF SubsOnly
  <2>3. CASE QueuesWrite(g, p)
    <3>1. PICK ops : /\ Queue(g, ops)
                     /\ \E i \in Id : \/ ops = <<Write("codecs", p, i), Set(p, i)>>
                                      \/ ops = <<Write("handlers", p, i)>>
      BY Zenon, <2>3 DEF QueuesWrite
    <3>2. Head(ops).proto = p
      <4>1. \E i \in Id : Head(ops) = Write("codecs", p, i) \/ Head(ops) = Write("handlers", p, i)
        <5>1. \A a, b : Head(<<a>>) = a /\ Head(<<a, b>>) = a BY Zenon, ShortSequences
        <5>2. PICK i \in Id : \/ ops = <<Write("codecs", p, i), Set(p, i)>>
                              \/ ops = <<Write("handlers", p, i)>>
          BY Zenon, <3>1
        <5>3. ops = <<Write("codecs", p, i), Set(p, i)>> => Head(ops) = Write("codecs", p, i)
          BY Zenon, <5>1
        <5>4. ops = <<Write("handlers", p, i)>> => Head(ops) = Write("handlers", p, i)
          BY Zenon, <5>1
        <5> QED BY Zenon, <5>2, <5>3, <5>4
      <4> QED BY <4>1, AccessFields
    <3>3. /\ UNCHANGED <<strict, main>> /\ todo'[g] = ops
          /\ \A h \in Goroutine : h # g => todo'[h] = todo[h]
      <4>1. UNCHANGED <<strict, main>> /\ todo' = [todo EXCEPT ![g] = ops]
        BY Zenon, <3>1, QueueFrame
      <4> QED BY Zenon, <1>0, <4>1
    <3>4. strict => g = Main /\ main.at = "inStart" /\ p = Current
      <4>1. requireRegisterPhase(p) BY Zenon, <2>3 DEF QueuesWrite
      <4> QED BY Zenon, <2>0, <4>1 DEF requireRegisterPhase, Registering, InUserCode
    <3> QED BY Zenon, <3>2, <3>3, <3>4 DEF StrictWrites, Doing, Current
  <2>4. ASSUME NEW ops, Queue(g, ops), ~(ops # <<>> /\ Head(ops).op = "write")
        PROVE  StrictWrites'
    <3>1. /\ UNCHANGED <<strict, main>> /\ todo'[g] = ops
          /\ \A h \in Goroutine : h # g => todo'[h] = todo[h]
      BY SMTT(30), <1>0, <2>4, QueueFrame
    <3> QED BY Zenon, <1>1, <2>4, <3>1
  <2>5. CASE QueuesRead(g, p)
    <3>1. PICK i \in Id : Queue(g, <<Read("codecs", lookup[i], i)>>) BY Zenon, <2>5 DEF QueuesRead
    <3>2. Head(<<Read("codecs", lookup[i], i)>>).op # "write"
      BY OpFields, ShortSequences DEF Read
    <3> QED BY Zenon, <2>4, <3>1, <3>2
  <2>6. CASE QueuesFanout(g, p)
    <3>1. Head(<<Fanout(subs)>>).op # "write" BY OpFields, ShortSequences
    <3> QED BY Zenon, <2>4, <2>6, <3>1 DEF QueuesFanout
  <2> QED BY Zenon, <1>5, <2>1, <2>2, <2>3, <2>5, <2>6, UserCallCases
<1>6. ASSUME NEW g \in Goroutine, CallStep(g) PROVE StrictWrites'
  <2>1. ~(todo'[g] # <<>> /\ Head(todo'[g]).op = "write")
    BY Zenon, <1>6, AfterStep, NoWriteAhead
  <2> QED BY Zenon, <1>1, <1>6, <2>1, AfterStep, CallStepFrame
<1>7. ASSUME NEW p \in Proto,
             TakeEvent(p) \/ HandlerReturn(p) \/ HandlerHangs(p) \/ LoopReturn(p)
      PROVE  StrictWrites'
  <2>1. UNCHANGED <<strict, main>>
    BY Zenon, <1>7 DEF TakeEvent, HandlerReturn, HandlerHangs, LoopReturn, LoopUnchanged
  <2>2. \/ UNCHANGED todo
        \/ \E i \in Id : todo' = [todo EXCEPT ![p] = <<Read("handlers", p, i)>>]
    BY Zenon, <1>7 DEF TakeEvent, HandlerReturn, HandlerHangs, LoopReturn, Read
  <2>3. ASSUME NEW i \in Id, todo' = [todo EXCEPT ![p] = <<Read("handlers", p, i)>>]
        PROVE  StrictWrites'
    <3>1. /\ todo'[p] = <<Read("handlers", p, i)>> /\ p \in Goroutine
          /\ \A h \in Goroutine : h # p => todo'[h] = todo[h]
      BY Zenon, <1>0, <2>3, Distinct
    <3>2. Head(todo'[p]).op # "write" BY <3>1, OpFields, ShortSequences DEF Read
    <3> QED BY Zenon, <1>1, <2>1, <3>1, <3>2
  <2> QED BY Zenon, <1>2, <2>1, <2>2, <2>3
<1>8. ASSUME NEW i \in Id, processMessage(i) PROVE StrictWrites'
  <2>1. Queue(Dispatcher, <<Read("codecs", lookup[i], i), DeliverOp(lookup[i], i)>>)
    BY Zenon, <1>8 DEF processMessage, Read, DeliverOp
  <2>2. /\ UNCHANGED <<strict, main>> /\ Dispatcher \in Goroutine
        /\ todo'[Dispatcher] = <<Read("codecs", lookup[i], i), DeliverOp(lookup[i], i)>>
        /\ \A h \in Goroutine : h # Dispatcher => todo'[h] = todo[h]
    <3> DEFINE ops == <<Read("codecs", lookup[i], i), DeliverOp(lookup[i], i)>>
    <3>1. UNCHANGED <<strict, main>> /\ todo' = [todo EXCEPT ![Dispatcher] = ops]
      BY Zenon, <2>1, QueueFrame
    <3>2. Dispatcher \in Goroutine BY Zenon, Distinct
    <3> HIDE DEF ops
    <3>3. todo'[Dispatcher] = ops /\ \A h \in Goroutine : h # Dispatcher => todo'[h] = todo[h]
      BY Zenon, <1>0, <3>1, <3>2
    <3> QED BY Zenon, <3>1, <3>2, <3>3 DEF ops
  <2>3. Head(todo'[Dispatcher]).op # "write"
    <3>1. Head(todo'[Dispatcher]) = Read("codecs", lookup[i], i) BY Zenon, <2>2, ShortSequences
    <3>2. Head(todo'[Dispatcher]).op = "read" BY <3>1, AccessFields
    <3> QED BY Zenon, <3>2
  <2> QED BY Zenon, <1>1, <2>2, <2>3
<1>9. CASE DispatcherReturn \/ PumpReturn \/ Teardown \/ UNCHANGED vars
  <2>1. UNCHANGED <<strict, main, todo>>
    BY Zenon, <1>9 DEF DispatcherReturn, PumpReturn, Teardown, CancelCall, cancelFunc, CancelReturn,
                ShutdownReturn, ShutdownTimeout, Aside, vars
  <2> QED BY Zenon, <1>2, <2>1
<1> QED BY Zenon, <1>4, <1>5, <1>6, <1>7, <1>8, <1>9, StepCases DEF OtherStep

\* Nothing but a look-up of a handler is left of the call of goroutine g.
\* While Starts run in strict mode, a protocol that has an event loop has
\* registered and is not active yet: its handlers neither write nor send.
LEMMA StrictReadsStep ==
    ASSUME TypeOK, CallsOK, Launched, StrictReads, [Next]_vars
    PROVE  StrictReads'
<1>0. /\ main \in [at : Stage, n : 1..Len(Protocols)]
      /\ todo \in [Goroutine -> Seq(Op)]
      /\ phase \in [Proto -> Phase]
  BY Zenon DEF TypeOK
<1>1. main.n \in DOMAIN Protocols /\ Current \in Proto
  BY Zenon, <1>0, ProtoFacts DEF Current
<1>2. \A st, n : At(st, n).at = st /\ At(st, n).n = n BY Zenon DEF At
<1>3. SUFFICES ASSUME strict', ~early', main'.at \in {"start", "inStart"}
               PROVE  /\ \A m \in DOMAIN Protocols :
                           m < main'.n => phase'[Protocols[m]] = "registered"
                      /\ \A g \in Goroutine \ {Main} : AtMostLooksUp(g)'
  BY Zenon DEF StrictReads
<1>4. CASE start
  <2>1. main.at = "entry" /\ main'.n = 1 /\ UNCHANGED todo BY Zenon, <1>2, <1>4 DEF start, Beside
  <2>2. \A p \in Proto : loop[p] = "none"
    <3>1. \A m \in DOMAIN Protocols : m >= 1 => loop[Protocols[m]] = "none"
      BY Zenon, <2>1 DEF Launched
    <3>2. \A m \in DOMAIN Protocols : m >= 1 BY ProtoFacts
    <3>3. \A p \in Proto : \E m \in DOMAIN Protocols : p = Protocols[m] BY Zenon DEF Proto
    <3>4. ASSUME NEW p \in Proto PROVE loop[p] = "none"
      <4>1. PICK m \in DOMAIN Protocols : p = Protocols[m] BY Zenon, <3>3
      <4> QED BY Zenon, <3>1, <3>2, <4>1
    <3> QED BY Zenon, <3>4
  <2>3. dispatcher = "none" BY Zenon, <2>1 DEF Launched
  <2>4. \A g \in Goroutine \ {Main} : todo[g] = <<>>
    BY Zenon, <2>2, <2>3, Distinct DEF CallsOK, Busy
  <2>5. \A g \in Goroutine \ {Main} : AtMostLooksUp(g)' BY Zenon, <2>1, <2>4 DEF AtMostLooksUp
  <2>6. \A m \in DOMAIN Protocols : ~(m < main'.n) BY <2>1, ProtoFacts
  <2> QED BY Zenon, <2>5, <2>6
<1>5. CASE StartEnter \/ StartReturn
  <2>1. /\ strict /\ ~early /\ UNCHANGED todo /\ main.at \in {"start", "inStart"}
        /\ \/ phase' = [phase EXCEPT ![Current] = "registering"] /\ main'.n = main.n
           \/ phase' = [phase EXCEPT ![Current] = "registered"] /\ main'.n = main.n + 1
    <3>1. UNCHANGED <<strict, early, todo>>
      BY Zenon, <1>5 DEF StartEnter, StartReturn, Beside, teardown
    <3>2. CASE StartEnter BY Zenon, <1>2, <1>3, <3>1, <3>2 DEF StartEnter
    <3>3. CASE StartReturn
      <4>1. main' = At("start", main.n + 1) BY <1>2, <1>3, <3>3 DEF StartReturn
      <4> QED BY <1>2, <1>3, <3>1, <3>3, <4>1 DEF StartReturn
    <3> QED BY Zenon, <1>5, <3>2, <3>3
  <2>2. /\ \A m \in DOMAIN Protocols : m < main.n => phase[Protocols[m]] = "registered"
        /\ \A g \in Goroutine \ {Main} : AtMostLooksUp(g)
    BY Zenon, <2>1 DEF StrictReads
  <2>3. \A g \in Goroutine \ {Main} : AtMostLooksUp(g)' BY Zenon, <2>1, <2>2 DEF AtMostLooksUp
  <2>4. ASSUME NEW m \in DOMAIN Protocols, m < main'.n
        PROVE  phase'[Protocols[m]] = "registered"
    <3>1. CASE m = main.n
      BY <1>0, <1>1, <2>1, <2>4, <3>1, ProtoFacts DEF Current
    <3>2. CASE m # main.n
      <4>1. m < main.n BY <1>0, <2>1, <2>4, <3>2, ProtoFacts
      <4>2. Protocols[m] # Current /\ Protocols[m] \in Proto
        BY Zenon, <1>1, <3>2, ProtoFacts, LifecycleAssumption DEF Current
      <4> QED BY Zenon, <1>0, <1>1, <2>1, <2>2, <4>1, <4>2
    <3> QED BY Zenon, <3>1, <3>2
  <2> QED BY Zenon, <2>3, <2>4
<1>6. CASE InitEnter \/ InitReturn \/ startSessionEvents \/ startDispatcher \/ RunReturn
  <2>1. \E st \in {"init", "inInit", "pump", "dispatch", "run", "returned"} :
          \E n : main' = At(st, n)
    BY Zenon, <1>6 DEF InitEnter, InitReturn, startSessionEvents, startDispatcher, RunReturn
  <2> QED BY Zenon, <1>2, <1>3, <2>1
<1>7. CASE OtherStep
  <2>1. main' = main /\ strict /\ ~early /\ UNCHANGED phase
    <3>1. main' = main BY <1>2, <1>3, <1>7, OtherFrame
    <3>2. Starting BY Zenon, <1>3, <3>1 DEF Starting, Over
    <3> QED BY Zenon, <1>3, <1>7, <3>1, <3>2, OtherFrame
  <2>2. /\ \A m \in DOMAIN Protocols : m < main.n => phase[Protocols[m]] = "registered"
        /\ \A g \in Goroutine \ {Main} : AtMostLooksUp(g)
    BY Zenon, <1>3, <2>1 DEF StrictReads
  <2>3. SUFFICES \A g \in Goroutine \ {Main} : AtMostLooksUp(g)' BY Zenon, <2>1, <2>2
  <2>4. \A p \in Proto : loop[p] # "none" => phase[p] = "registered"
    <3>1. ASSUME NEW m \in DOMAIN Protocols, loop[Protocols[m]] # "none"
          PROVE  m < main.n
      BY <1>0, <1>3, <2>1, <3>1, ProtoFacts DEF Launched
    <3> QED BY Zenon, <2>2, <3>1 DEF Proto
  <2>5. dispatcher = "none" BY Zenon, <1>3, <2>1 DEF Launched
  <2>6. ASSUME UNCHANGED todo PROVE \A g \in Goroutine \ {Main} : AtMostLooksUp(g)'
    BY Zenon, <2>2, <2>6 DEF AtMostLooksUp
  <2>7. ASSUME NEW g \in Goroutine, NEW p \in Proto, UserCall(g, p)
        PROVE  \A h \in Goroutine \ {Main} : AtMostLooksUp(h)'
    <3>1. CASE g = Main
      <4>1. \A h \in Goroutine \ {Main} : todo'[h] = todo[h]
        <5>1. CASE Panic(g) \/ SubsOnly BY Zenon, <5>1 DEF Panic, SubsOnly
        <5>2. ASSUME NEW ops, Queue(g, ops)
              PROVE  \A h \in Goroutine \ {Main} : todo'[h] = todo[h]
          BY Zenon, <1>0, <3>1, <5>2, QueueFrame
        <5> QED BY Zenon, <2>7, <5>1, <5>2, UserCallCases DEF QueuesWrite, QueuesRead, QueuesFanout
      <4> QED BY Zenon, <2>2, <4>1 DEF AtMostLooksUp
    <3>2. CASE g # Main
      <4>1. loop[p] = "handler" BY Zenon, <2>7, <3>2, UserCallCases DEF InUserCode
      <4>2. phase[p] = "registered" BY Zenon, <2>4, <4>1
      <4>3. ~requireRegisterPhase(p) /\ ~requireActivePhase(p)
        BY Zenon, <2>1, <4>2 DEF requireRegisterPhase, requireActivePhase
      <4>4. Panic(g) \/ SubsOnly
        BY Zenon, <2>7, <4>3, UserCallCases DEF QueuesWrite, QueuesRead, QueuesFanout
      <4> QED BY Zenon, <2>6, <4>4 DEF Panic, SubsOnly
    <3> QED BY Zenon, <3>1, <3>2
  <2>8. ASSUME NEW g \in Goroutine, CallStep(g)
        PROVE  \A h \in Goroutine \ {Main} : AtMostLooksUp(h)'
    <3>1. \A h \in Goroutine : h # g => todo'[h] = todo[h] BY Zenon, <2>8, AfterStep
    <3>2. CASE g = Main BY Zenon, <2>2, <3>1, <3>2 DEF AtMostLooksUp
    <3>3. CASE g # Main
      <4>1. todo[g] # <<>>
        BY Zenon, <2>8 DEF CallStep, WriteMap, SetLookup, ReadMap, DeliverMessage, Notify, GiveUp,
                    Doing
      <4>2. g \in Proto BY Zenon, <2>5, <3>3, <4>1, Distinct DEF CallsOK, Busy
      <4>3. todo'[g] = <<>> BY Zenon, <2>2, <2>8, <3>3, <4>1, <4>2, AfterStep DEF AtMostLooksUp
      <4> QED BY Zenon, <2>2, <3>1, <4>3 DEF AtMostLooksUp
    <3> QED BY Zenon, <3>2, <3>3
  <2>9. ASSUME NEW p \in Proto,
               TakeEvent(p) \/ HandlerReturn(p) \/ HandlerHangs(p) \/ LoopReturn(p)
        PROVE  \A h \in Goroutine \ {Main} : AtMostLooksUp(h)'
    <3>1. \/ UNCHANGED todo
          \/ \E i \in Id : todo' = [todo EXCEPT ![p] = <<Read("handlers", p, i)>>]
      BY Zenon, <2>9 DEF TakeEvent, HandlerReturn, HandlerHangs, LoopReturn, Read
    <3> QED BY Zenon, <1>0, <2>2, <2>6, <3>1, Distinct DEF AtMostLooksUp
  <2>10. ASSUME NEW i \in Id, processMessage(i) PROVE FALSE
    BY Zenon, <2>5, <2>10 DEF processMessage
  <2>11. CASE DispatcherReturn \/ PumpReturn \/ Teardown \/ UNCHANGED vars
    BY Zenon, <2>6, <2>11 DEF DispatcherReturn, PumpReturn, Teardown, CancelCall, cancelFunc,
                CancelReturn, ShutdownReturn, ShutdownTimeout, Aside, vars
  <2> QED BY Zenon, <1>7, <2>7, <2>8, <2>9, <2>10, <2>11 DEF OtherStep
<1> QED BY Zenon, <1>4, <1>5, <1>6, <1>7, StepCases DEF MainStep

-----------------------------------------------------------------------------
(* Cancel.                                                                 *)

\* A Cancel that waits has cancelled the context, and not while start runs
\* unless `early' records it.
LEMMA CancelSeenStep ==
    ASSUME TypeOK, CallsOK, CancelSeen, [Next]_vars
    PROVE  CancelSeen'
<1>0. canceller \in [Callers -> {"no", "marking", "waiting", "returned"}]
      /\ cancelled \in BOOLEAN /\ early \in BOOLEAN
  BY Zenon DEF TypeOK
<1>1. \A st, n : At(st, n).at = st BY Zenon DEF At
<1>2. CASE MainStep
  <2>1. UNCHANGED <<cancelled, canceller, early>> BY Zenon, <1>2, MainIdle
  <2>2. CASE start
    <3>1. cancelled => main'.at = "refused" BY Zenon, <1>1, <2>2 DEF start
    <3> QED BY Zenon, <2>1, <3>1 DEF CancelSeen, Starting, Over
  <2>3. CASE ~start
    <3>1. \/ main.at \in {"start", "inStart", "init", "inInit", "pump", "dispatch"}
          \/ main.at = "run" /\ main'.at = "returned"
      <4>1. CASE RunReturn BY Zenon, <1>1, <4>1 DEF RunReturn
      <4>2. CASE ~RunReturn
        BY Zenon, <1>2, <2>3, <4>2 DEF MainStep, StartEnter, StartReturn, InitEnter, InitReturn,
           startSessionEvents, startDispatcher
      <4> QED BY Zenon, <4>1, <4>2
    <3> QED BY Zenon, <2>1, <3>1 DEF CancelSeen, Starting, Over
  <2> QED BY Zenon, <2>2, <2>3
<1>3. ASSUME UNCHANGED <<cancelled, canceller, early>>,
             main' = main \/ main' = At("panicked", 1)
      PROVE  CancelSeen'
  BY <1>1, <1>3 DEF CancelSeen, Starting, Over
<1>4. ASSUME NEW g \in Goroutine, NEW p \in Proto, UserCall(g, p) PROVE CancelSeen'
  BY Zenon, <1>3, <1>4, UserCallFrame
<1>5. ASSUME NEW g \in Goroutine, CallStep(g) PROVE CancelSeen'
  BY Zenon, <1>3, <1>5, CallStepFrame
<1>6. ASSUME NEW p \in Proto,
             TakeEvent(p) \/ HandlerReturn(p) \/ HandlerHangs(p) \/ LoopReturn(p)
      PROVE  CancelSeen'
  BY Zenon, <1>3, <1>6 DEF TakeEvent, HandlerReturn, HandlerHangs, LoopReturn, LoopUnchanged, teardown
<1>7. ASSUME NEW i \in Id, processMessage(i) PROVE CancelSeen'
  BY Zenon, <1>3, <1>7, QueueFrame DEF processMessage
<1>8. CASE DispatcherReturn \/ PumpReturn \/ ShutdownReturn \/ ShutdownTimeout \/ UNCHANGED vars
  BY Zenon, <1>3, <1>8 DEF DispatcherReturn, PumpReturn, ShutdownReturn, ShutdownTimeout, Aside, vars,
                    teardown
<1>9. ASSUME NEW c \in Callers, CancelCall(c) PROVE CancelSeen'
  <2>1. /\ UNCHANGED <<cancelled, main>> /\ (early => early')
        /\ canceller' = [canceller EXCEPT ![c] = "marking"]
    BY <1>9, Zenon DEF CancelCall, Aside
  <2> QED BY Zenon, <1>0, <2>1 DEF CancelSeen, Starting
<1>10. ASSUME NEW c \in Callers, cancelFunc(c) PROVE CancelSeen'
  <2>1. cancelled' /\ UNCHANGED main BY Zenon, <1>10 DEF cancelFunc, Aside
  <2>2. Starting => early' BY <1>10, Zenon DEF cancelFunc
  <2> QED BY Zenon, <2>1, <2>2 DEF CancelSeen, Starting
<1>11. ASSUME NEW c \in Callers, CancelReturn(c) PROVE CancelSeen'
  <2>1. /\ canceller[c] = "waiting" /\ canceller' = [canceller EXCEPT ![c] = "returned"]
        /\ UNCHANGED <<cancelled, early, main>>
    BY Zenon, <1>11 DEF CancelReturn, Aside
  <2> QED BY Zenon, <1>0, <2>1 DEF CancelSeen, Starting
<1> QED BY Zenon, <1>2, <1>4, <1>5, <1>6, <1>7, <1>8, <1>9, <1>10, <1>11, StepCases
        DEF OtherStep, Teardown

\* After a Cancel that was not early no goroutine runs: the counter was zero
\* when it returned and nothing is launched any more.
LEMMA QuietStep ==
    ASSUME TypeOK, CallsOK, Counted, CancelSeen, QuietAfterCancel, [Next]_vars
    PROVE  QuietAfterCancel'
<1>0. /\ canceller \in [Callers -> {"no", "marking", "waiting", "returned"}]
      /\ loop \in [Proto -> {"none", "select", "handler", "stuck", "done"}]
  BY Zenon DEF TypeOK
<1> DEFINE Quiet == pump # "on" /\ dispatcher # "on" /\ \A p \in Proto : ~Running(p)
<1>1. (\E c \in Callers : canceller[c] = "returned") /\ ~early => Quiet /\ ~Starting
  BY Zenon DEF QuietAfterCancel, CancelSeen
<1>2. QuietAfterCancel' <=>
        ((\E c \in Callers : canceller'[c] = "returned") /\ ~early' => Quiet')
  BY Zenon DEF QuietAfterCancel
<1>3. ASSUME NEW c \in Callers, CancelReturn(c) PROVE QuietAfterCancel'
  <2>1. wg = 0 /\ UNCHANGED <<loop, pump, dispatcher>>
    BY Zenon, <1>3 DEF CancelReturn, Aside, goroutines
  <2>2. Quiet BY Zenon, <2>1, CountFacts
  <2>3. Quiet' BY Zenon, <2>1, <2>2 DEF Running
  <2> QED BY Zenon, <1>2, <2>3
<1>4. CASE MainStep
  <2>1. UNCHANGED <<canceller, early>> BY Zenon, <1>4, MainIdle
  <2>2. ~Starting => UNCHANGED <<loop, pump, dispatcher>>
    <3>1. CASE StartReturn \/ startSessionEvents \/ startDispatcher
      BY Zenon, <3>1 DEF StartReturn, startSessionEvents, startDispatcher, Starting, Over
    <3>2. CASE ~(StartReturn \/ startSessionEvents \/ startDispatcher)
      BY Zenon, <1>4, <3>2 DEF MainStep, start, StartEnter, InitEnter, InitReturn, RunReturn,
                        goroutines
    <3> QED BY Zenon, <3>1, <3>2
  <2>3. Quiet /\ UNCHANGED <<loop, pump, dispatcher>> => Quiet' BY Zenon DEF Running
  <2> HIDE DEF Quiet
  <2> QED BY Zenon, <1>1, <1>2, <2>1, <2>2, <2>3
<1>5. CASE OtherStep /\ ~(\E c \in Callers : CancelReturn(c))
  <2>1. /\ early => early'
        /\ \A c \in Callers : canceller'[c] = "returned" => canceller[c] = "returned"
    <3>1. CASE Teardown
      <4>1. ASSUME NEW c \in Callers, CancelCall(c) \/ cancelFunc(c)
            PROVE  \A d \in Callers : canceller'[d] = "returned" => canceller[d] = "returned"
        BY Zenon, <1>0, <4>1 DEF CancelCall, cancelFunc
      <4>2. CASE ShutdownReturn \/ ShutdownTimeout
        BY <4>2 DEF ShutdownReturn, ShutdownTimeout
      <4> QED BY Zenon, <1>5, <3>1, <4>1, <4>2, OtherFrame DEF Teardown
    <3>2. CASE ~Teardown
      <4>1. UNCHANGED canceller
        <5>1. ASSUME NEW g \in Goroutine, NEW p \in Proto, UserCall(g, p)
              PROVE  UNCHANGED canceller
          BY Zenon, <5>1, UserCallFrame
        <5>2. ASSUME NEW g \in Goroutine, CallStep(g) PROVE UNCHANGED canceller
          BY Zenon, <5>2, CallStepFrame
        <5>3. ASSUME NEW p \in Proto,
                     TakeEvent(p) \/ HandlerReturn(p) \/ HandlerHangs(p) \/ LoopReturn(p)
              PROVE  UNCHANGED canceller
          BY Zenon, <5>3 DEF TakeEvent, HandlerReturn, HandlerHangs, LoopReturn, LoopUnchanged, teardown
        <5>4. ASSUME NEW i \in Id, processMessage(i) PROVE UNCHANGED canceller
          BY Zenon, <5>4, QueueFrame DEF processMessage
        <5>5. CASE DispatcherReturn \/ PumpReturn \/ UNCHANGED vars
          BY Zenon, <5>5 DEF DispatcherReturn, PumpReturn, vars, teardown
        <5> QED BY Zenon, <1>5, <3>2, <5>1, <5>2, <5>3, <5>4, <5>5 DEF OtherStep
      <4> QED BY Zenon, <1>5, <4>1, OtherFrame
    <3> QED BY Zenon, <3>1, <3>2
  <2>2. Quiet => Quiet'
    <3>1. SUFFICES ASSUME Quiet PROVE Quiet' BY Zenon
    <3>2. ASSUME UNCHANGED <<loop, pump, dispatcher>> PROVE Quiet' BY Zenon, <3>1, <3>2 DEF Running
    <3>3. ASSUME NEW g \in Goroutine, NEW p \in Proto, UserCall(g, p) PROVE Quiet'
      <4>1. loop[p] # "handler" BY Zenon, <3>1 DEF Running
      <4> QED BY Zenon, <3>2, <3>3, <4>1, UserCallFrame
    <3>4. ASSUME NEW g \in Goroutine, CallStep(g) PROVE Quiet'
      BY Zenon, <3>2, <3>4, CallStepFrame
    <3>5. ASSUME NEW p \in Proto,
                 TakeEvent(p) \/ HandlerReturn(p) \/ HandlerHangs(p) \/ LoopReturn(p)
          PROVE  FALSE
      BY Zenon, <3>1, <3>5 DEF TakeEvent, HandlerReturn, HandlerHangs, LoopReturn, Running
    <3>6. ASSUME NEW i \in Id, processMessage(i) PROVE Quiet'
      BY Zenon, <3>1, <3>6 DEF processMessage
    <3>7. CASE DispatcherReturn \/ PumpReturn
      BY Zenon, <3>1, <3>7 DEF DispatcherReturn, PumpReturn
    <3>8. CASE Teardown \/ UNCHANGED vars
      BY Zenon, <3>2, <3>8 DEF Teardown, CancelCall, cancelFunc, CancelReturn, ShutdownReturn,
                        ShutdownTimeout, Aside, goroutines, vars
    <3> QED BY Zenon, <1>5, <3>3, <3>4, <3>5, <3>6, <3>7, <3>8 DEF OtherStep
  <2> HIDE DEF Quiet
  <2> QED BY Zenon, <1>1, <1>2, <2>1, <2>2
<1> QED BY Zenon, <1>3, <1>4, <1>5, StepCases

-----------------------------------------------------------------------------
(* The theorems.                                                           *)

\* The invariant holds before Run.
LEMMA InvInit == Init => IInv
<1> SUFFICES ASSUME Init PROVE IInv BY Zenon
<1>1. main = At("entry", 1) /\ main.at = "entry" /\ main.n = 1 BY Zenon DEF Init, At
<1>2. TypeOK
  <2>1. main \in [at : Stage, n : 1..Len(Protocols)] BY <1>1, ProtoFacts DEF At, Stage
  <2>2. MailboxBuf \in Nat /\ strict \in BOOLEAN BY Zenon, LifecycleAssumption DEF Init
  <2>3. phase \in [Proto -> Phase] BY Zenon DEF Init, Phase
  <2>4. todo \in [Goroutine -> Seq(Op)] BY DEF Init
  <2>5. /\ loop \in [Proto -> {"none", "select", "handler", "stuck", "done"}]
        /\ codecs \in [Proto -> SUBSET Id] /\ handlers \in [Proto -> SUBSET Id]
        /\ lookup \in [Id -> Proto \cup {Nil}] /\ subs \subseteq Proto
    BY Zenon DEF Init
  <2>6. /\ messageChannel \in [Proto -> 0..MailboxBuf]
        /\ notificationEvents \in [Proto -> 0..MailboxBuf]
    BY <2>2 DEF Init
  <2>7. /\ canceller \in [Callers -> {"no", "marking", "waiting", "returned"}]
        /\ shutdown \in {"no", "waiting", "nil", "timeout"} /\ wg \in Nat
        /\ pump \in {"none", "on", "done"} /\ dispatcher \in {"none", "on", "done"}
        /\ cancelled \in BOOLEAN /\ early \in BOOLEAN
    BY Zenon DEF Init
  <2> QED BY Zenon, <2>1, <2>2, <2>3, <2>4, <2>5, <2>6, <2>7 DEF TypeOK
<1>3. CallsOK BY Zenon DEF Init, CallsOK, CallForm
<1>4. Launched BY Zenon, <1>1, ProtoFacts DEF Init, Launched
<1>5. Counted
  <2>1. {p \in Proto : Running(p)} = {} BY Zenon DEF Init, Running
  <2>2. Cardinality({p \in Proto : Running(p)}) = 0 BY Zenon, <2>1, FS_EmptySet
  <2> QED BY <2>2 DEF Init, Counted, On
<1>6. RoutedHasCodec BY Zenon DEF Init, RoutedHasCodec
<1>7. Registering BY Zenon DEF Init, Registering
<1>8. StrictWrites BY Zenon DEF Init, StrictWrites, Doing
<1>9. StrictReads BY Zenon, <1>1 DEF StrictReads
<1>10. CancelSeen BY Zenon, <1>1 DEF Init, CancelSeen, Starting
<1>11. QuietAfterCancel BY Zenon DEF Init, QuietAfterCancel
<1> QED BY Zenon, <1>2, <1>3, <1>4, <1>5, <1>6, <1>7, <1>8, <1>9, <1>10, <1>11 DEF IInv

\* Every step keeps it.
LEMMA InvStep == IInv /\ [Next]_vars => IInv'
<1> SUFFICES ASSUME IInv, [Next]_vars PROVE IInv' BY Zenon
<1>0. /\ TypeOK /\ CallsOK /\ Launched /\ Counted /\ RoutedHasCodec
      /\ Registering /\ StrictWrites /\ StrictReads
      /\ CancelSeen /\ QuietAfterCancel
  BY Zenon DEF IInv
<1>1. TypeOK' /\ CallsOK' /\ RoutedHasCodec'
  <2>1. UNCHANGED <<codecs, lookup>> => RoutedHasCodec' BY Zenon, <1>0 DEF RoutedHasCodec
  <2>2. CASE MainStep BY Zenon, <1>0, <2>1, <2>2, MainTypes, MainCalls, MainIdle
  <2>3. ASSUME NEW g \in Goroutine, NEW p \in Proto, UserCall(g, p)
        PROVE  TypeOK' /\ CallsOK' /\ RoutedHasCodec'
    <3>1. UNCHANGED <<codecs, lookup>>
      BY Zenon, <1>0, <2>3, UserCallCases
         DEF Panic, SubsOnly, QueuesWrite, QueuesRead, QueuesFanout, Queue, registry
    <3> QED BY Zenon, <1>0, <2>1, <2>3, <3>1, UserCallTypes, UserCalls
  <2>4. ASSUME NEW g \in Goroutine, CallStep(g)
        PROVE  TypeOK' /\ CallsOK' /\ RoutedHasCodec'
    BY Zenon, <1>0, <2>4, CallStepTypes, CallStepCalls
  <2>5. ASSUME NEW p \in Proto,
               TakeEvent(p) \/ HandlerReturn(p) \/ HandlerHangs(p) \/ LoopReturn(p)
        PROVE  TypeOK' /\ CallsOK' /\ RoutedHasCodec'
    <3>1. UNCHANGED <<codecs, lookup>>
      BY Zenon, <2>5 DEF TakeEvent, HandlerReturn, HandlerHangs, LoopReturn, LoopUnchanged, registry
    <3> QED BY Zenon, <1>0, <2>1, <2>5, <3>1, LoopTypes, LoopCalls
  <2>6. CASE (\E i \in Id : processMessage(i)) \/ DispatcherReturn \/ PumpReturn
    <3>1. UNCHANGED <<codecs, lookup>>
      BY Zenon, <2>6 DEF processMessage, Queue, DispatcherReturn, PumpReturn, registry
    <3> QED BY Zenon, <1>0, <2>1, <2>6, <3>1, DispatcherTypes, DispatcherCalls
  <2>7. CASE Teardown
    <3>1. UNCHANGED <<codecs, lookup>>
      BY Zenon, <2>7 DEF Teardown, CancelCall, cancelFunc, CancelReturn, ShutdownReturn,
                  ShutdownTimeout, Aside, registry
    <3> QED BY Zenon, <1>0, <2>1, <2>7, <3>1, TeardownTypes, DispatcherCalls
  <2>8. CASE UNCHANGED vars
    <3> USE DEF vars, goroutines, registry, mailboxes, teardown
    <3>1. TypeOK' BY Zenon, <1>0, <2>8 DEF TypeOK
    <3>2. CallsOK'
      <4>1. UNCHANGED <<main, loop, dispatcher, todo, codecs>> BY Zenon, <2>8
      <4>2. \A g \in Goroutine : CallForm(g)' BY Zenon, <1>0, <4>1, CallFormKept DEF CallsOK
      <4>3. \A g : Busy(g)' <=> Busy(g) BY Zenon, <4>1 DEF Busy
      <4> QED BY Zenon, <1>0, <4>1, <4>2, <4>3 DEF CallsOK
    <3> QED BY Zenon, <2>1, <2>8, <3>1, <3>2
  <2> QED BY Zenon, <2>2, <2>3, <2>4, <2>5, <2>6, <2>7, <2>8, StepCases DEF OtherStep
<1>2. Launched' /\ Counted' BY Zenon, <1>0, LaunchedStep, CountedStep
<1>3. Registering' BY Zenon, <1>0, RegisteringStep
<1>4. StrictWrites' /\ StrictReads' BY Zenon, <1>0, StrictWritesStep, StrictReadsStep
<1>5. CancelSeen' /\ QuietAfterCancel' BY Zenon, <1>0, CancelSeenStep, QuietStep
<1> QED BY Zenon, <1>1, <1>2, <1>3, <1>4, <1>5 DEF IInv

\* So it is an invariant of the runtime's life.
THEOREM LifecycleInvariant == Spec => []IInv
BY InvInit, InvStep, PTL DEF Spec

\* Type correctness: among others, no mailbox holds more than its capacity and
\* the counter of the WaitGroup never falls below zero.
THEOREM TypeCorrect == Spec => []TypeOK
<1>1. IInv => TypeOK BY Zenon DEF IInv
<1> QED BY <1>1, LifecycleInvariant, PTL

\* Once a Cancel has returned nothing runs, unless it came while start ran.
THEOREM CancelQuiesces == Spec => []QuietAfterCancel
<1>1. IInv => QuietAfterCancel BY Zenon DEF IInv
<1> QED BY <1>1, LifecycleInvariant, PTL

\* The protocol an id is routed to has the codec.
THEOREM RoutingSound == Spec => []RoutedHasCodec
<1>1. IInv => RoutedHasCodec BY Zenon DEF IInv
<1> QED BY <1>1, LifecycleInvariant, PTL

\* With any number of protocols, strict mode keeps the maps without a lock
\* free of races: the one that writes is a Start, and no event loop that runs
\* beside it reads the maps of the protocol that starts.
THEOREM StrictRaceFree == Spec => []NoMapRace
<1>1. IInv => NoMapRace
  <2>1. SUFFICES ASSUME IInv, strict, ~early, NEW g \in Goroutine, NEW h \in Goroutine,
                        g # h, Doing(g, "write"),
                        \/ Accesses(h, "write", Head(todo[g]))
                        \/ Accesses(h, "read", Head(todo[g]))
                 PROVE  FALSE
    BY Zenon DEF NoMapRace
  <2>2. /\ TypeOK /\ CallsOK /\ Launched /\ StrictWrites /\ StrictReads
    BY Zenon, <2>1 DEF IInv
  <2>3. g = Main /\ main.at = "inStart" /\ Head(todo[g]).proto = Current
    BY Zenon, <2>1, <2>2 DEF StrictWrites
  <2>4. h # Main /\ todo[h] # <<>> /\ Head(todo[h]).proto = Current
    BY Zenon, <2>1, <2>3 DEF Accesses, Doing
  <2>5. PICK i \in Id : todo[h] = <<Read("handlers", h, i)>>
    BY Zenon, <2>1, <2>2, <2>3, <2>4 DEF StrictReads, AtMostLooksUp
  <2>6. h = Current
    <3>1. Head(todo[h]) = Read("handlers", h, i) BY Zenon, <2>5, ShortSequences
    <3> QED BY <2>4, <3>1, AccessFields
  <2>7. loop[Current] = "none" /\ Current \in Proto
    <3>1. main.n \in DOMAIN Protocols /\ Current \in Proto
      <4>1. main \in [at : Stage, n : 1..Len(Protocols)] BY Zenon, <2>2 DEF TypeOK
      <4> QED BY Zenon, <4>1, ProtoFacts DEF Current
    <3>2. \A m \in DOMAIN Protocols : m >= main.n => loop[Protocols[m]] = "none"
      BY Zenon, <2>2, <2>3 DEF Launched
    <3> QED BY <3>1, <3>2, ProtoFacts DEF Current
  <2>8. Busy(h) BY Zenon, <2>2, <2>4 DEF CallsOK
  <2> QED BY Zenon, <2>6, <2>7, <2>8, Distinct DEF Busy
<1> QED BY <1>1, LifecycleInvariant, PTL

=============================================================================
