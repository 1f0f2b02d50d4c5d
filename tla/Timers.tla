------------------------------- MODULE Timers -------------------------------
(***************************************************************************)
(* The timer tables of the runtime (pkg/protorun: timer.go, the Timing     *)
(* part of ProtocolContext, and what Runtime.Cancel does about timers).    *)
(*                                                                         *)
(* Goroutines: the protocols' event loops, Main (which runs the Init       *)
(* methods while the loops already handle events), one goroutine per       *)
(* one-shot timer that has fired, one per periodic timer, and the one that *)
(* calls Cancel.  A critical section of timerMutex is one step.            *)
(*                                                                         *)
(* A slot stands for a timer object or a ticker goroutine; it is used      *)
(* again only when no table entry points to it.                            *)
(***************************************************************************)
EXTENDS Naturals, Sequences

CONSTANTS
    Proto,      \* protocols
    Main,       \* the goroutine that called Run
    Id,         \* values of TimerID()
    OneShot,    \* slots for the objects time.AfterFunc returns
    Periodic,   \* slots for the goroutines of periodic timers
    TimerBuf,   \* capacity of a protocol's timerChannel
    Nil

VARIABLES
    oneShot,                \* [OneShot -> state, id and owner]
    periodic,               \* [Periodic -> state, id, owner, own context live]
    ongoingTimers,          \* map[int]*time.Timer; an absent key is Nil
    ongoingPeriodicTimers,  \* map[int]context.CancelFunc; an absent key is Nil
    caller,                 \* [goroutine -> the set-up it is in the middle of]
    timerChannel,           \* [Proto -> chan Timer]
    loops,                  \* protocols whose event loop runs
    initialising,           \* Main is still running Init methods
    cancelled,              \* the runtime context
    teardown,               \* how far Cancel has got
    early,                  \* history: Cancel was called during an Init method
    orphans                 \* history: armed timers whose entry was deleted by the
                            \* callback of an earlier timer with the same id

tables == <<ongoingTimers, ongoingPeriodicTimers>>
timers == <<oneShot, periodic, tables, orphans>>
lifetime == <<loops, initialising, cancelled, teardown, early>>
vars == <<timers, caller, timerChannel, lifetime>>

Goroutine == Proto \cup {Main}

ASSUME TimersAssumption ==
    /\ Nil \notin Proto \cup Id \cup OneShot \cup Periodic /\ Main \notin Proto
    /\ OneShot \cap Periodic = {} /\ TimerBuf \in Nat \ {0}

NoTimer == [st |-> "done", id |-> Nil, owner |-> Nil]
TimerOf(st, i, p) == [st |-> st, id |-> i, owner |-> p]
NoTicker == [st |-> "off", id |-> Nil, owner |-> Nil, live |-> FALSE]
NoCall == [slot |-> Nil, id |-> Nil]
CallOf(s, i) == [slot |-> s, id |-> i]

TimerObject ==
    {NoTimer} \cup [st : {"armed", "fired", "sending"}, id : Id, owner : Proto]
TickerObject ==
    {NoTicker} \cup [st : {"starting", "waiting", "sending"}, id : Id, owner : Proto,
                     live : BOOLEAN]
SetUp == {NoCall} \cup [slot : OneShot \cup Periodic, id : Id]

TypeOK ==
    /\ oneShot \in [OneShot -> TimerObject]
    /\ periodic \in [Periodic -> TickerObject]
    /\ ongoingTimers \in [Id -> OneShot \cup {Nil}]
    /\ ongoingPeriodicTimers \in [Id -> Periodic \cup {Nil}]
    /\ caller \in [Goroutine -> SetUp]
    /\ timerChannel \in [Proto -> Seq(Id)]
    /\ \A p \in Proto : Len(timerChannel[p]) <= TimerBuf
    /\ loops \subseteq Proto
    /\ initialising \in BOOLEAN /\ cancelled \in BOOLEAN /\ early \in BOOLEAN
    /\ teardown \in {"no", "sweep", "wait", "returned"}
    /\ orphans \subseteq OneShot

Init ==
    /\ oneShot = [t \in OneShot |-> NoTimer]
    /\ periodic = [k \in Periodic |-> NoTicker]
    /\ ongoingTimers = [i \in Id |-> Nil]
    /\ ongoingPeriodicTimers = [i \in Id |-> Nil]
    /\ caller = [g \in Goroutine |-> NoCall]
    /\ timerChannel = [p \in Proto |-> <<>>]
    /\ loops = Proto
    /\ initialising = TRUE
    /\ cancelled = FALSE /\ teardown = "no"
    /\ early = FALSE /\ orphans = {}

-----------------------------------------------------------------------------
(* Who may call: a protocol from its event loop, any from its Init method. *)

Calls(g, p) ==
    /\ caller[g] = NoCall
    /\ \/ g = p /\ p \in loops
       \/ g = Main /\ initialising

Unreferenced(s) ==
    /\ \A i \in Id : ongoingTimers[i] # s /\ ongoingPeriodicTimers[i] # s
    /\ \A g \in Goroutine : caller[g].slot # s

\* time.Timer.Stop: no effect on a timer that has fired.
Stop(tab, S) ==
    [t \in OneShot |-> IF t \in S /\ tab[t].st = "armed" THEN NoTimer ELSE tab[t]]

\* A context.CancelFunc; its goroutine notices later.
CancelTickers(tab, S) ==
    [k \in Periodic |-> IF k \in S /\ tab[k].live THEN [tab[k] EXCEPT !.live = FALSE]
                                                 ELSE tab[k]]

-----------------------------------------------------------------------------
(* setupTimer: the timer runs before it is in the table.                   *)

setupTimer(g, p, i) ==
    /\ Calls(g, p)
    /\ \E t \in OneShot :
         /\ oneShot[t] = NoTimer /\ Unreferenced(t)
         /\ oneShot' = [oneShot EXCEPT ![t] = TimerOf("armed", i, p)]
         /\ caller' = [caller EXCEPT ![g] = CallOf(t, i)]
    /\ UNCHANGED <<periodic, tables, orphans, timerChannel, lifetime>>

\* Mistake: the timer that is replaced keeps running.
installOver(g) ==
    LET c == caller[g] IN
    /\ c.slot \in OneShot
    /\ ongoingTimers' = [ongoingTimers EXCEPT ![c.id] = c.slot]
    /\ caller' = [caller EXCEPT ![g] = NoCall]
    /\ UNCHANGED <<oneShot, periodic, ongoingPeriodicTimers, orphans, timerChannel, lifetime>>

installTimer(g) ==
    LET c == caller[g] IN
    /\ c.slot \in OneShot
    /\ oneShot' = Stop(oneShot, {ongoingTimers[c.id]})
    /\ orphans' = orphans \ {ongoingTimers[c.id]}
    /\ ongoingTimers' = [ongoingTimers EXCEPT ![c.id] = c.slot]
    /\ caller' = [caller EXCEPT ![g] = NoCall]
    /\ UNCHANGED <<periodic, ongoingPeriodicTimers, timerChannel, lifetime>>

Fire(t) ==
    /\ oneShot[t].st = "armed"
    /\ oneShot' = [oneShot EXCEPT ![t].st = "fired"]
    /\ orphans' = orphans \ {t}
    /\ UNCHANGED <<periodic, tables, caller, timerChannel, lifetime>>

\* The entry of the id is deleted whichever timer it points to.
callbackDeletes(t) ==
    LET i == oneShot[t].id IN
    /\ oneShot[t].st = "fired"
    /\ oneShot' = [oneShot EXCEPT ![t].st = "sending"]
    /\ ongoingTimers' = [ongoingTimers EXCEPT ![i] = Nil]
    /\ orphans' = orphans \cup {u \in OneShot : ongoingTimers[i] = u /\ oneShot[u].st = "armed"}
    /\ UNCHANGED <<periodic, ongoingPeriodicTimers, caller, timerChannel, lifetime>>

callbackSends(t) ==
    LET p == oneShot[t].owner IN
    /\ oneShot[t].st = "sending"
    /\ Len(timerChannel[p]) < TimerBuf
    /\ timerChannel' = [timerChannel EXCEPT ![p] = Append(@, oneShot[t].id)]
    /\ oneShot' = [oneShot EXCEPT ![t] = NoTimer]
    /\ UNCHANGED <<periodic, tables, orphans, caller, lifetime>>

\* Mistake: the send does not select on the context.
callbackNeverGivesUp(t) == FALSE /\ UNCHANGED vars

callbackGivesUp(t) ==
    /\ oneShot[t].st = "sending" /\ cancelled
    /\ oneShot' = [oneShot EXCEPT ![t] = NoTimer]
    /\ UNCHANGED <<periodic, tables, orphans, caller, timerChannel, lifetime>>

-----------------------------------------------------------------------------
(* setupPeriodicTimer: in the table first, then its goroutine.             *)

\* Mistake: the ticker that is replaced is not cancelled.
setupPeriodicOver(g, p, i) ==
    /\ Calls(g, p)
    /\ \E k \in Periodic :
         /\ periodic[k] = NoTicker /\ Unreferenced(k)
         /\ periodic' = [periodic EXCEPT
               ![k] = [st |-> "starting", id |-> i, owner |-> p, live |-> TRUE]]
         /\ ongoingPeriodicTimers' = [ongoingPeriodicTimers EXCEPT ![i] = k]
         /\ caller' = [caller EXCEPT ![g] = CallOf(k, i)]
    /\ UNCHANGED <<oneShot, ongoingTimers, orphans, timerChannel, lifetime>>

setupPeriodicTimer(g, p, i) ==
    /\ Calls(g, p)
    /\ \E k \in Periodic :
         /\ periodic[k] = NoTicker /\ Unreferenced(k)
         /\ periodic' = [CancelTickers(periodic, {ongoingPeriodicTimers[i]}) EXCEPT
               ![k] = [st |-> "starting", id |-> i, owner |-> p, live |-> TRUE]]
         /\ ongoingPeriodicTimers' = [ongoingPeriodicTimers EXCEPT ![i] = k]
         /\ caller' = [caller EXCEPT ![g] = CallOf(k, i)]
    /\ UNCHANGED <<oneShot, ongoingTimers, orphans, timerChannel, lifetime>>

\* r.wg.Go
startTicker(g) ==
    /\ caller[g].slot \in Periodic
    /\ periodic' = [periodic EXCEPT ![caller[g].slot].st = "waiting"]
    /\ caller' = [caller EXCEPT ![g] = NoCall]
    /\ UNCHANGED <<oneShot, tables, orphans, timerChannel, lifetime>>

Tick(k) ==
    /\ periodic[k].st = "waiting"
    /\ periodic' = [periodic EXCEPT ![k].st = "sending"]
    /\ UNCHANGED <<oneShot, tables, orphans, caller, timerChannel, lifetime>>

tickerSends(k) ==
    LET p == periodic[k].owner IN
    /\ periodic[k].st = "sending"
    /\ Len(timerChannel[p]) < TimerBuf
    /\ timerChannel' = [timerChannel EXCEPT ![p] = Append(@, periodic[k].id)]
    /\ periodic' = [periodic EXCEPT ![k].st = "waiting"]
    /\ UNCHANGED <<oneShot, tables, orphans, caller, lifetime>>

\* Mistake: the inner send does not select on the context.
tickerReturnsOuter(k) ==
    /\ periodic[k].st = "waiting"
    /\ ~periodic[k].live \/ cancelled
    /\ periodic' = [periodic EXCEPT ![k] = NoTicker]
    /\ UNCHANGED <<oneShot, tables, orphans, caller, timerChannel, lifetime>>

tickerReturns(k) ==
    /\ periodic[k].st \in {"waiting", "sending"}
    /\ ~periodic[k].live \/ cancelled
    /\ periodic' = [periodic EXCEPT ![k] = NoTicker]
    /\ UNCHANGED <<oneShot, tables, orphans, caller, timerChannel, lifetime>>

-----------------------------------------------------------------------------
cancelTimer(g, p, i) ==
    /\ Calls(g, p)
    /\ oneShot' = Stop(oneShot, {ongoingTimers[i]})
    /\ orphans' = orphans \ {ongoingTimers[i]}
    /\ periodic' = CancelTickers(periodic, {ongoingPeriodicTimers[i]})
    /\ ongoingTimers' = [ongoingTimers EXCEPT ![i] = Nil]
    /\ ongoingPeriodicTimers' = [ongoingPeriodicTimers EXCEPT ![i] = Nil]
    /\ UNCHANGED <<caller, timerChannel, lifetime>>

\* The event loop takes a tick; its handler's calls are steps of their own.
handleTimer(p) ==
    /\ p \in loops /\ caller[p] = NoCall
    /\ timerChannel[p] # <<>>
    /\ timerChannel' = [timerChannel EXCEPT ![p] = Tail(@)]
    /\ UNCHANGED <<timers, caller, lifetime>>

LoopReturns(p) ==
    /\ p \in loops /\ caller[p] = NoCall /\ cancelled
    /\ loops' = loops \ {p}
    /\ UNCHANGED <<timers, caller, timerChannel, initialising, cancelled, teardown, early>>

InitReturns ==
    /\ initialising /\ caller[Main] = NoCall
    /\ initialising' = FALSE
    /\ UNCHANGED <<timers, caller, timerChannel, loops, cancelled, teardown, early>>

-----------------------------------------------------------------------------
(* Runtime.Cancel.                                                         *)

cancelFunc ==
    /\ teardown = "no"
    /\ cancelled' = TRUE /\ teardown' = "sweep"
    /\ early' = initialising
    /\ UNCHANGED <<timers, caller, timerChannel, loops, initialising>>

clearTimers ==
    /\ teardown = "sweep"
    /\ teardown' = "wait"
    /\ oneShot' = Stop(oneShot, {ongoingTimers[i] : i \in Id})
    /\ orphans' = orphans \ {ongoingTimers[i] : i \in Id}
    /\ periodic' = CancelTickers(periodic, {ongoingPeriodicTimers[i] : i \in Id})
    /\ ongoingTimers' = [i \in Id |-> Nil]
    /\ ongoingPeriodicTimers' = [i \in Id |-> Nil]
    /\ UNCHANGED <<caller, timerChannel, loops, initialising, cancelled, early>>

\* Mistake: a ticker goroutine is started with `go', outside the WaitGroup.
OnlyLoops == loops

\* What the WaitGroup counts: event loops and ticker goroutines, but not the
\* callbacks of one-shot timers.
wg == loops \cup {k \in Periodic : periodic[k].st \in {"waiting", "sending"}}

Wait ==
    /\ teardown = "wait" /\ wg = {}
    /\ teardown' = "returned"
    /\ UNCHANGED <<timers, caller, timerChannel, loops, initialising, cancelled, early>>

-----------------------------------------------------------------------------
Call(g) ==
    \/ \E p \in Proto, i \in Id :
         setupTimer(g, p, i) \/ setupPeriodicTimer(g, p, i) \/ cancelTimer(g, p, i)
    \/ installTimer(g) \/ startTicker(g)

Callback(t) == Fire(t) \/ callbackDeletes(t) \/ callbackSends(t) \/ callbackGivesUp(t)

Ticker(k) == Tick(k) \/ tickerSends(k) \/ tickerReturns(k)

Teardown == cancelFunc \/ clearTimers \/ Wait

Next ==
    \/ \E g \in Goroutine : Call(g)
    \/ \E t \in OneShot : Callback(t)
    \/ \E k \in Periodic : Ticker(k)
    \/ \E p \in Proto : handleTimer(p) \/ LoopReturns(p)
    \/ InitReturns \/ Teardown

Spec == Init /\ [][Next]_vars

\* Time passes and goroutines run, and a select that is reached again and
\* again takes each branch that is ready at some point; InitReturns and
\* LoopReturns happen once each, so that fairness to any of them is fairness
\* to all.  Handlers and Init methods return.  Protocols need not set any
\* timer; a set-up that has begun goes on.  Nobody need read a tick.  Cancel
\* may never be called; once it is it goes on.
Fairness ==
    /\ \A t \in OneShot : WF_vars(Callback(t))
    /\ WF_vars(\E k \in Periodic : tickerReturns(k))
    /\ SF_vars(InitReturns \/ \E p \in Proto : LoopReturns(p))
    /\ WF_vars(\E g \in Goroutine : installTimer(g) \/ startTicker(g))
    /\ WF_vars(clearTimers \/ Wait)

FairSpec == Spec /\ Fairness

=============================================================================
