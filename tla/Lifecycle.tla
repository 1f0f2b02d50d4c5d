------------------------------ MODULE Lifecycle ------------------------------
(***************************************************************************)
(* The life of a runtime (pkg/protorun: start, Run, Cancel, Shutdown, the  *)
(* protocols' Start, Init and event loops, strict mode) and the shared     *)
(* tables that user code fills and reads while it runs: the codec          *)
(* registry, the protocols' own codec and handler maps, and the            *)
(* notification subscriptions.                                             *)
(*                                                                         *)
(* Goroutines: Main (in Run), the event loops, the session-event pump, the *)
(* dispatcher of inbound messages, and the callers of Cancel.  User code   *)
(* (Start, Init, the handlers) makes any calls, in any order, any number   *)
(* of times.  What a call has yet to do is queued in `todo', one step per  *)
(* access to a map without a lock and per channel send.  The calls on the  *)
(* session layer and the timer and retry tables have modules of their own. *)
(***************************************************************************)
EXTENDS Naturals, Sequences

CONSTANTS
    Protocols,    \* r.protocols, a sequence
    Main,         \* the goroutine that called Run
    Dispatcher,   \* the goroutine of Runtime.eventHandler
    User, Signal, \* the callers of Cancel: any goroutine, the signal handler
    Id,           \* wire ids of messages
    Nil,
    MailboxBuf,   \* capacity of messageChannel and of notificationEvents
    StrictModes   \* values of WithStrict

VARIABLES
    strict,              \* Runtime.strict
    main,                \* where Main is: stage and index of the protocol
    phase,               \* [Proto -> protoPhase]
    loop,                \* [Proto -> event loop]
    pump, dispatcher,    \* the two goroutines start launches last
    wg,                  \* the WaitGroup's counter
    todo,                \* [goroutine -> what its call has yet to do]
    codecs,              \* [Proto -> wire ids in its own map]
    handlers,            \* [Proto -> wire ids in its own map]
    lookup,              \* codecRegistry.lookup; an absent key is Nil
    subs,                \* subscribers of the notification type
    messageChannel,      \* [Proto -> number of envelopes waiting]
    notificationEvents,  \* [Proto -> number of envelopes waiting]
    cancelled,           \* the runtime context
    canceller,           \* [User, Signal -> how far its Cancel has got]
    shutdown,            \* the User's Shutdown, if Cancel is called through it
    early                \* history: Cancel was called while start was running

registry == <<codecs, handlers, lookup, subs>>
mailboxes == <<messageChannel, notificationEvents>>
goroutines == <<loop, pump, dispatcher, wg>>
teardown == <<cancelled, canceller, shutdown, early>>
vars == <<strict, main, phase, goroutines, todo, registry, mailboxes, teardown>>

Proto == {Protocols[n] : n \in DOMAIN Protocols}
Goroutine == Proto \cup {Main, Dispatcher}
Callers == {User, Signal}

ASSUME LifecycleAssumption ==
    /\ Protocols \in Seq(Proto) /\ Protocols # <<>>
    /\ \A m, n \in DOMAIN Protocols : Protocols[m] = Protocols[n] => m = n
    /\ Main \notin Proto /\ Dispatcher \notin Proto \cup {Main} /\ Nil \notin Proto
    /\ User # Signal /\ MailboxBuf \in Nat \ {0} /\ StrictModes \subseteq BOOLEAN

Phase == {"unstarted", "registering", "registered", "initializing", "running", "cancelled"}
Stage == {"entry", "start", "inStart", "init", "inInit", "pump", "dispatch", "run",
          "returned", "refused", "panicked"}
Over == {"run", "returned", "refused", "panicked"}

At(st, n) == [at |-> st, n |-> n]

\* An access to the map m of protocol p, or a step on a shared structure.
OpOf(o, m, p, i) == [op |-> o, map |-> m, proto |-> p, id |-> i]
Fanout(S) == [op |-> "fanout", to |-> S]
Op == [op : {"write", "read"}, map : {"codecs", "handlers"}, proto : Proto, id : Id]
      \cup [op : {"set", "deliver"}, map : {"codecs"}, proto : Proto, id : Id]
      \cup [op : {"fanout"}, to : SUBSET Proto]

TypeOK ==
    /\ strict \in BOOLEAN
    /\ main \in [at : Stage, n : 1..Len(Protocols)]
    /\ phase \in [Proto -> Phase]
    /\ loop \in [Proto -> {"none", "select", "handler", "stuck", "done"}]
    /\ pump \in {"none", "on", "done"} /\ dispatcher \in {"none", "on", "done"}
    /\ wg \in Nat
    /\ todo \in [Goroutine -> Seq(Op)]
    /\ codecs \in [Proto -> SUBSET Id] /\ handlers \in [Proto -> SUBSET Id]
    /\ lookup \in [Id -> Proto \cup {Nil}] /\ subs \subseteq Proto
    /\ messageChannel \in [Proto -> 0..MailboxBuf]
    /\ notificationEvents \in [Proto -> 0..MailboxBuf]
    /\ cancelled \in BOOLEAN /\ early \in BOOLEAN
    /\ canceller \in [Callers -> {"no", "marking", "waiting", "returned"}]
    /\ shutdown \in {"no", "waiting", "nil", "timeout"}

Init ==
    /\ strict \in StrictModes
    /\ main = At("entry", 1)
    /\ phase = [p \in Proto |-> "unstarted"]
    /\ loop = [p \in Proto |-> "none"]
    /\ pump = "none" /\ dispatcher = "none" /\ wg = 0
    /\ todo = [g \in Goroutine |-> <<>>]
    /\ codecs = [p \in Proto |-> {}] /\ handlers = [p \in Proto |-> {}]
    /\ lookup = [i \in Id |-> Nil] /\ subs = {}
    /\ messageChannel = [p \in Proto |-> 0]
    /\ notificationEvents = [p \in Proto |-> 0]
    /\ cancelled = FALSE /\ early = FALSE
    /\ canceller = [c \in Callers |-> "no"] /\ shutdown = "no"

-----------------------------------------------------------------------------
(* Run and start, on Main.                                                 *)

Current == Protocols[main.n]
Last == main.n = Len(Protocols)
Beside == UNCHANGED <<strict, todo, registry, mailboxes, teardown>>

\* start: the context is looked at once.
start ==
    /\ main.at = "entry"
    /\ main' = At(IF cancelled THEN "refused" ELSE "start", 1)
    /\ UNCHANGED <<phase, goroutines>> /\ Beside

StartEnter ==
    /\ main.at = "start"
    /\ main' = At("inStart", main.n)
    /\ phase' = [phase EXCEPT ![Current] = "registering"]
    /\ UNCHANGED goroutines /\ Beside

\* The user's Start has returned: the event loop runs before Init.
StartReturn ==
    /\ main.at = "inStart" /\ todo[Main] = <<>>
    /\ main' = IF Last THEN At("init", 1) ELSE At("start", main.n + 1)
    /\ phase' = [phase EXCEPT ![Current] = "registered"]
    /\ wg' = wg + 1
    /\ loop' = [loop EXCEPT ![Current] = "select"]
    /\ UNCHANGED <<pump, dispatcher>> /\ Beside

InitEnter ==
    /\ main.at = "init"
    /\ main' = At("inInit", main.n)
    /\ phase' = [phase EXCEPT ![Current] = "initializing"]
    /\ UNCHANGED goroutines /\ Beside

InitReturn ==
    /\ main.at = "inInit" /\ todo[Main] = <<>>
    /\ main' = IF Last THEN At("pump", 1) ELSE At("init", main.n + 1)
    /\ phase' = [phase EXCEPT ![Current] = "running"]
    /\ UNCHANGED goroutines /\ Beside

startSessionEvents ==
    /\ main.at = "pump"
    /\ main' = At("dispatch", 1)
    /\ pump' = "on" /\ wg' = wg + 1
    /\ UNCHANGED <<phase, loop, dispatcher>> /\ Beside

startDispatcher ==
    /\ main.at = "dispatch"
    /\ main' = At("run", 1)
    /\ dispatcher' = "on" /\ wg' = wg + 1
    /\ UNCHANGED <<phase, loop, pump>> /\ Beside

\* Run returns when the context is done, not when Cancel has returned.
RunReturn ==
    /\ main.at = "run" /\ cancelled
    /\ main' = At("returned", 1)
    /\ UNCHANGED <<phase, goroutines>> /\ Beside

MainStep ==
    \/ start \/ StartEnter \/ StartReturn \/ InitEnter \/ InitReturn
    \/ startSessionEvents \/ startDispatcher \/ RunReturn

-----------------------------------------------------------------------------
(* Calls user code makes as protocol p, on goroutine g.                    *)

InUserCode(g, p) ==
    /\ todo[g] = <<>>
    /\ \/ g = p /\ loop[p] = "handler"
       \/ g = Main /\ main.at \in {"inStart", "inInit"} /\ Current = p

\* Mistake: registration is allowed in every phase.
requireNoPhase(p) == TRUE

requireRegisterPhase(p) == strict => phase[p] = "registering"

requireActivePhase(p) == strict => phase[p] \in {"initializing", "running", "cancelled"}

\* safeCall recovers a panic on an event loop; one on Main leaves start.
Panic(g) ==
    /\ \/ g = Main /\ main' = At("panicked", 1) /\ UNCHANGED loop
       \/ g # Main /\ loop' = [loop EXCEPT ![g] = "select"] /\ UNCHANGED main
    /\ UNCHANGED <<strict, phase, pump, dispatcher, wg, todo, registry, mailboxes, teardown>>

Queue(g, ops) ==
    /\ todo' = [todo EXCEPT ![g] = ops]
    /\ UNCHANGED <<strict, main, phase, goroutines, registry, mailboxes, teardown>>

\* Mistake: the protocol is made the routing target before it has the codec.
registerCodecSetFirst(g, p, i) ==
    /\ InUserCode(g, p)
    /\ \/ /\ requireRegisterPhase(p) /\ ~(strict /\ lookup[i] # Nil)
          /\ Queue(g, <<OpOf("set", "codecs", p, i), OpOf("write", "codecs", p, i)>>)
       \/ ~(requireRegisterPhase(p) /\ ~(strict /\ lookup[i] # Nil)) /\ Panic(g)

registerCodec(g, p, i) ==
    /\ InUserCode(g, p)
    /\ \/ /\ requireRegisterPhase(p) /\ ~(strict /\ lookup[i] # Nil)
          /\ Queue(g, <<OpOf("write", "codecs", p, i), OpOf("set", "codecs", p, i)>>)
       \/ ~(requireRegisterPhase(p) /\ ~(strict /\ lookup[i] # Nil)) /\ Panic(g)

registerHandler(g, p, i) ==
    /\ InUserCode(g, p)
    /\ \/ /\ requireRegisterPhase(p) /\ ~(strict /\ i \in handlers[p])
          /\ Queue(g, <<OpOf("write", "handlers", p, i)>>)
       \/ ~(requireRegisterPhase(p) /\ ~(strict /\ i \in handlers[p])) /\ Panic(g)

\* sendMessage: the codec comes from the map of the protocol that owns the id.
Send(g, p, i) ==
    /\ InUserCode(g, p)
    /\ \/ /\ requireActivePhase(p) /\ lookup[i] # Nil
          /\ Queue(g, <<OpOf("read", "codecs", lookup[i], i)>>)
       \/ ~requireActivePhase(p) /\ Panic(g)

subscribeNotification(g, p) ==
    /\ InUserCode(g, p)
    /\ \/ /\ requireRegisterPhase(p)
          /\ subs' = subs \cup {p}
          /\ UNCHANGED <<strict, main, phase, goroutines, todo, codecs, handlers, lookup,
                         mailboxes, teardown>>
       \/ ~requireRegisterPhase(p) /\ Panic(g)

unsubscribeNotification(g, p) ==
    /\ InUserCode(g, p)
    /\ subs' = subs \ {p}
    /\ UNCHANGED <<strict, main, phase, goroutines, todo, codecs, handlers, lookup,
                   mailboxes, teardown>>

\* The subscribers are those of one moment; they are served in any order.
publishNotification(g, p) ==
    /\ InUserCode(g, p)
    /\ \/ requireActivePhase(p) /\ subs # {} /\ Queue(g, <<Fanout(subs)>>)
       \/ ~requireActivePhase(p) /\ Panic(g)

UserPanic(g, p) == InUserCode(g, p) /\ Panic(g)

UserCall(g, p) ==
    \/ \E i \in Id : registerCodec(g, p, i) \/ registerHandler(g, p, i) \/ Send(g, p, i)
    \/ subscribeNotification(g, p) \/ unsubscribeNotification(g, p)
    \/ publishNotification(g, p)
    \/ UserPanic(g, p)

-----------------------------------------------------------------------------
(* What a call has yet to do.                                              *)

Doing(g, op) == todo[g] # <<>> /\ Head(todo[g]).op = op
Done(g) == todo' = [todo EXCEPT ![g] = Tail(@)]
OpUnchanged == UNCHANGED <<strict, main, phase, goroutines, teardown>>

WriteMap(g) ==
    LET o == Head(todo[g]) IN
    /\ Doing(g, "write") /\ Done(g)
    /\ \/ /\ o.map = "codecs"
          /\ codecs' = [codecs EXCEPT ![o.proto] = @ \cup {o.id}]
          /\ UNCHANGED handlers
       \/ /\ o.map = "handlers"
          /\ handlers' = [handlers EXCEPT ![o.proto] = @ \cup {o.id}]
          /\ UNCHANGED codecs
    /\ UNCHANGED <<lookup, subs, mailboxes>> /\ OpUnchanged

\* codecRegistry.Set
SetLookup(g) ==
    LET o == Head(todo[g]) IN
    /\ Doing(g, "set") /\ Done(g)
    /\ lookup' = [lookup EXCEPT ![o.id] = o.proto]
    /\ UNCHANGED <<codecs, handlers, subs, mailboxes>> /\ OpUnchanged

\* The rest of the call goes on when the key is there (for the dispatcher:
\* and when the payload decodes).
ReadMap(g) ==
    LET o == Head(todo[g]) IN
    /\ Doing(g, "read")
    /\ \/ o.map = "codecs" /\ o.id \in codecs[o.proto] /\ Done(g)
       \/ o.map = "handlers" /\ Done(g)
       \/ o.map = "codecs" /\ todo' = [todo EXCEPT ![g] = <<>>]
    /\ UNCHANGED <<registry, mailboxes>> /\ OpUnchanged

\* The send at the end of processMessage.
DeliverMessage(g) ==
    LET q == Head(todo[g]).proto IN
    /\ Doing(g, "deliver") /\ Done(g)
    /\ messageChannel[q] < MailboxBuf
    /\ messageChannel' = [messageChannel EXCEPT ![q] = @ + 1]
    /\ UNCHANGED <<registry, notificationEvents>> /\ OpUnchanged

Notify(g) ==
    /\ Doing(g, "fanout")
    /\ \E q \in Head(todo[g]).to :
         LET rest == Head(todo[g]).to \ {q} IN
         /\ notificationEvents[q] < MailboxBuf
         /\ notificationEvents' = [notificationEvents EXCEPT ![q] = @ + 1]
         /\ todo' = [todo EXCEPT ![g] = IF rest = {} THEN <<>> ELSE <<Fanout(rest)>>]
    /\ UNCHANGED <<registry, messageChannel>> /\ OpUnchanged

\* Mistake: only the dispatcher's send selects on the context.
GiveUpDelivery(g) ==
    /\ Doing(g, "deliver") /\ cancelled
    /\ todo' = [todo EXCEPT ![g] = <<>>]
    /\ UNCHANGED <<registry, mailboxes>> /\ OpUnchanged

GiveUp(g) ==
    /\ Doing(g, "deliver") \/ Doing(g, "fanout")
    /\ cancelled
    /\ todo' = [todo EXCEPT ![g] = <<>>]
    /\ UNCHANGED <<registry, mailboxes>> /\ OpUnchanged

CallStep(g) ==
    \/ WriteMap(g) \/ SetLookup(g) \/ ReadMap(g)
    \/ DeliverMessage(g) \/ Notify(g) \/ GiveUp(g)

-----------------------------------------------------------------------------
(* Event loops, dispatcher and pump.                                       *)

LoopUnchanged == UNCHANGED <<strict, main, phase, pump, dispatcher, registry, teardown>>

\* A message, whose handler is looked up first; a notification; or any other
\* event (timer, session event, request, reply).
TakeEvent(p) ==
    /\ loop[p] = "select"
    /\ loop' = [loop EXCEPT ![p] = "handler"]
    /\ \/ /\ messageChannel[p] > 0
          /\ messageChannel' = [messageChannel EXCEPT ![p] = @ - 1]
          /\ \E i \in Id : todo' = [todo EXCEPT ![p] = <<OpOf("read", "handlers", p, i)>>]
          /\ UNCHANGED notificationEvents
       \/ /\ notificationEvents[p] > 0
          /\ notificationEvents' = [notificationEvents EXCEPT ![p] = @ - 1]
          /\ UNCHANGED <<todo, messageChannel>>
       \/ UNCHANGED <<todo, mailboxes>>
    /\ UNCHANGED wg /\ LoopUnchanged

HandlerReturn(p) ==
    /\ loop[p] = "handler" /\ todo[p] = <<>>
    /\ loop' = [loop EXCEPT ![p] = "select"]
    /\ UNCHANGED <<wg, todo, mailboxes>> /\ LoopUnchanged

\* A handler may never return.
HandlerHangs(p) ==
    /\ loop[p] = "handler" /\ todo[p] = <<>>
    /\ loop' = [loop EXCEPT ![p] = "stuck"]
    /\ UNCHANGED <<wg, todo, mailboxes>> /\ LoopUnchanged

LoopReturn(p) ==
    /\ loop[p] = "select" /\ cancelled
    /\ loop' = [loop EXCEPT ![p] = "done"]
    /\ wg' = wg - 1
    /\ UNCHANGED <<todo, mailboxes>> /\ LoopUnchanged

\* processMessage: a message with an unknown id is dropped.
processMessage(i) ==
    /\ dispatcher = "on" /\ todo[Dispatcher] = <<>>
    /\ lookup[i] # Nil
    /\ Queue(Dispatcher, <<OpOf("read", "codecs", lookup[i], i),
                           OpOf("deliver", "codecs", lookup[i], i)>>)

DispatcherReturn ==
    /\ dispatcher = "on" /\ todo[Dispatcher] = <<>> /\ cancelled
    /\ dispatcher' = "done" /\ wg' = wg - 1
    /\ UNCHANGED <<strict, main, phase, loop, pump, todo, registry, mailboxes, teardown>>

PumpReturn ==
    /\ pump = "on" /\ cancelled
    /\ pump' = "done" /\ wg' = wg - 1
    /\ UNCHANGED <<strict, main, phase, loop, dispatcher, todo, registry, mailboxes, teardown>>

-----------------------------------------------------------------------------
(* Cancel and Shutdown.                                                    *)

Aside == UNCHANGED <<strict, main, goroutines, todo, registry, mailboxes>>
Starting == main.at \notin Over \cup {"entry"}

\* Any goroutine may call Cancel or Shutdown at any time; the signal handler
\* is installed when start has returned.
CancelCall(c) ==
    /\ canceller[c] = "no"
    /\ c = Signal => main.at \in {"run", "returned"}
    /\ canceller' = [canceller EXCEPT ![c] = "marking"]
    /\ phase' = [p \in Proto |-> "cancelled"]
    /\ \/ UNCHANGED shutdown
       \/ c = User /\ shutdown' = "waiting"
    /\ early' = (early \/ Starting)
    /\ UNCHANGED cancelled /\ Aside

cancelFunc(c) ==
    /\ canceller[c] = "marking"
    /\ canceller' = [canceller EXCEPT ![c] = "waiting"]
    /\ cancelled' = TRUE
    /\ early' = (early \/ Starting)
    /\ UNCHANGED <<phase, shutdown>> /\ Aside

\* Mistake: Cancel does not wait.
CancelReturnAtOnce(c) ==
    /\ canceller[c] = "waiting"
    /\ canceller' = [canceller EXCEPT ![c] = "returned"]
    /\ UNCHANGED <<phase, cancelled, shutdown, early>> /\ Aside

\* wg.Wait; Shutdown's select then sees `done' closed.
CancelReturn(c) ==
    /\ canceller[c] = "waiting" /\ wg = 0
    /\ canceller' = [canceller EXCEPT ![c] = "returned"]
    /\ UNCHANGED <<phase, cancelled, shutdown, early>> /\ Aside

ShutdownReturn ==
    /\ shutdown = "waiting" /\ canceller[User] = "returned"
    /\ shutdown' = "nil"
    /\ UNCHANGED <<phase, cancelled, canceller, early>> /\ Aside

\* Mistake: Shutdown waits for the teardown however long it takes.
ShutdownNoTimeout == FALSE /\ UNCHANGED vars

ShutdownTimeout ==
    /\ shutdown = "waiting"
    /\ shutdown' = "timeout"
    /\ UNCHANGED <<phase, cancelled, canceller, early>> /\ Aside

-----------------------------------------------------------------------------
Next ==
    \/ MainStep
    \/ \E g \in Goroutine : (\E p \in Proto : UserCall(g, p)) \/ CallStep(g)
    \/ \E p \in Proto : TakeEvent(p) \/ HandlerReturn(p) \/ HandlerHangs(p) \/ LoopReturn(p)
    \/ \E i \in Id : processMessage(i)
    \/ DispatcherReturn \/ PumpReturn
    \/ \E c \in Callers : CancelCall(c) \/ cancelFunc(c) \/ CancelReturn(c)
    \/ ShutdownReturn \/ ShutdownTimeout

Spec == Init /\ [][Next]_vars

\* Goroutines run, and a select that is reached again and again with
\* ctx.Done() ready takes it at some point.  A handler returns or hangs; Main
\* may stop anywhere, so that Start and Init need not return.  The last two conjuncts are about steps each of
\* which happens once, so that fairness to any of them is fairness to all.
Fairness ==
    /\ \A g \in Proto \cup {Dispatcher} : WF_vars(CallStep(g))
    /\ \A p \in Proto : SF_vars(HandlerReturn(p))
    /\ SF_vars(DispatcherReturn \/ \E p \in Proto : LoopReturn(p))
    /\ WF_vars(\/ PumpReturn \/ ShutdownReturn \/ ShutdownTimeout
               \/ \E c \in Callers : cancelFunc(c) \/ CancelReturn(c))

FairSpec == Spec /\ Fairness

=============================================================================
