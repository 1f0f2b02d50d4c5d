---------------------------- MODULE TimersProofs ----------------------------
(***************************************************************************)
(* The timer tables, for any number of protocols, ids and timers.          *)
(***************************************************************************)
EXTENDS TimersProps, TLAPS

\* A tick that finds room in the channel leaves it within its capacity.
LEMMA TickTypes ==
    ASSUME TypeOK, NEW p \in Proto, NEW i \in Id, Len(timerChannel[p]) < TimerBuf,
           timerChannel' = [timerChannel EXCEPT ![p] = Append(@, i)]
    PROVE  /\ timerChannel' \in [Proto -> Seq(Id)]
           /\ \A q \in Proto : Len(timerChannel'[q]) <= TimerBuf
<1>1. timerChannel \in [Proto -> Seq(Id)] BY Zenon DEF TypeOK
<1>2. Append(timerChannel[p], i) \in Seq(Id)
  BY <1>1
<1>3. Len(Append(timerChannel[p], i)) = Len(timerChannel[p]) + 1
  BY <1>1
<1>4. Len(timerChannel[p]) \in Nat BY <1>1
<1>5. timerChannel' \in [Proto -> Seq(Id)] BY Zenon, <1>1, <1>2
<1>6. ASSUME NEW q \in Proto PROVE Len(timerChannel'[q]) <= TimerBuf
  BY <1>1, <1>3, <1>4, TimersAssumption DEF TypeOK
<1> QED BY Zenon, <1>5, <1>6

\* A timer or a ticker that is in use keeps its type when its state changes.
LEMMA StateTypes ==
    /\ \A t \in TimerObject, s \in {"armed", "fired", "sending"} :
         t.st # "done" => [t EXCEPT !.st = s] \in TimerObject
    /\ \A k \in TickerObject, s \in {"starting", "waiting", "sending"} :
         k.st # "off" => [k EXCEPT !.st = s] \in TickerObject
    /\ \A k \in TickerObject : k.live => [k EXCEPT !.live = FALSE] \in TickerObject
<1>1. ASSUME NEW t \in TimerObject, NEW s \in {"armed", "fired", "sending"}, t.st # "done"
      PROVE  [t EXCEPT !.st = s] \in TimerObject
  <2>1. t \in [st : {"armed", "fired", "sending"}, id : Id, owner : Proto]
    BY <1>1 DEF TimerObject, NoTimer
  <2> QED BY Zenon, <2>1 DEF TimerObject
<1>2. ASSUME NEW k \in TickerObject, NEW s \in {"starting", "waiting", "sending"},
             k.st # "off"
      PROVE  [k EXCEPT !.st = s] \in TickerObject
  <2>1. k \in [st : {"starting", "waiting", "sending"}, id : Id, owner : Proto,
               live : BOOLEAN]
    BY <1>2 DEF TickerObject, NoTicker
  <2> QED BY Zenon, <2>1 DEF TickerObject
<1>3. ASSUME NEW k \in TickerObject, k.live
      PROVE  [k EXCEPT !.live = FALSE] \in TickerObject
  <2>1. k \in [st : {"starting", "waiting", "sending"}, id : Id, owner : Proto,
               live : BOOLEAN]
    BY <1>3 DEF TickerObject, NoTicker
  <2> QED BY Zenon, <2>1 DEF TickerObject
<1> QED BY Zenon, <1>1, <1>2, <1>3

\* The steps of one-shot timers keep the types (setupTimer and its callback).
LEMMA CallbackTypes ==
    ASSUME TypeOK, NEW t \in OneShot, Callback(t)
    PROVE  TypeOK'
<1>1. CASE Fire(t)
  <2>1. [oneShot[t] EXCEPT !.st = "fired"] \in TimerObject
    BY Zenon, <1>1, StateTypes DEF Fire, TypeOK
  <2> QED BY Zenon, <1>1, <2>1 DEF Fire, TypeOK, tables, lifetime
<1>2. CASE callbackDeletes(t)
  <2>1. [oneShot[t] EXCEPT !.st = "sending"] \in TimerObject
    BY Zenon, <1>2, StateTypes DEF callbackDeletes, TypeOK
  <2> QED BY Zenon, <1>2, <2>1 DEF callbackDeletes, TypeOK, lifetime
<1>3. CASE callbackSends(t)
  <2>1. oneShot[t] \in [st : {"armed", "fired", "sending"}, id : Id, owner : Proto]
    BY <1>3 DEF callbackSends, TypeOK, TimerObject, NoTimer
  <2>2. /\ timerChannel' \in [Proto -> Seq(Id)]
        /\ \A q \in Proto : Len(timerChannel'[q]) <= TimerBuf
    BY Zenon, <1>3, <2>1, TickTypes DEF callbackSends
  <2> QED BY Zenon, <1>3, <2>2 DEF callbackSends, TypeOK, TimerObject, tables, lifetime
<1>4. CASE callbackGivesUp(t)
  BY Zenon, <1>4 DEF callbackGivesUp, TypeOK, TimerObject, tables, lifetime
<1> QED BY Zenon, <1>1, <1>2, <1>3, <1>4 DEF Callback

\* So do those of periodic ones.
LEMMA TickerTypes ==
    ASSUME TypeOK, NEW k \in Periodic, Ticker(k)
    PROVE  TypeOK'
<1>1. CASE Tick(k)
  <2>1. [periodic[k] EXCEPT !.st = "sending"] \in TickerObject
    BY Zenon, <1>1, StateTypes DEF Tick, TypeOK
  <2> QED BY Zenon, <1>1, <2>1 DEF Tick, TypeOK, tables, lifetime
<1>2. CASE tickerSends(k)
  <2>1. periodic[k] \in [st : {"starting", "waiting", "sending"}, id : Id, owner : Proto,
                         live : BOOLEAN]
    BY <1>2 DEF tickerSends, TypeOK, TickerObject, NoTicker
  <2>2. /\ timerChannel' \in [Proto -> Seq(Id)]
        /\ \A q \in Proto : Len(timerChannel'[q]) <= TimerBuf
    BY Zenon, <1>2, <2>1, TickTypes DEF tickerSends
  <2> QED BY Zenon, <1>2, <2>1, <2>2 DEF tickerSends, TypeOK, TickerObject, tables, lifetime
<1>3. CASE tickerReturns(k)
  BY Zenon, <1>3 DEF tickerReturns, TypeOK, TickerObject, tables, lifetime
<1> QED BY Zenon, <1>1, <1>2, <1>3 DEF Ticker

\* Stopping timers and cancelling tickers keep the tables of objects typed
\* (time.Timer.Stop, context.CancelFunc).
LEMMA StopTypes ==
    ASSUME TypeOK, NEW S, NEW K
    PROVE  /\ Stop(oneShot, S) \in [OneShot -> TimerObject]
           /\ CancelTickers(periodic, K) \in [Periodic -> TickerObject]
<1>1. Stop(oneShot, S) \in [OneShot -> TimerObject]
  BY Zenon DEF Stop, TypeOK, TimerObject
<1>2. CancelTickers(periodic, K) \in [Periodic -> TickerObject]
  BY Zenon, StateTypes DEF CancelTickers, TypeOK
<1> QED BY Zenon, <1>1, <1>2

\* A goroutine that sets up, installs, starts or cancels a timer keeps the types.
LEMMA CallTypes ==
    ASSUME TypeOK, CallerStarts, NEW g \in Goroutine, Call(g)
    PROVE  TypeOK'
<1>0. caller[g] \in SetUp BY Zenon DEF TypeOK
<1>1. ASSUME NEW p \in Proto, NEW i \in Id, setupTimer(g, p, i) PROVE TypeOK'
  <2>1. PICK t \in OneShot :
          /\ oneShot' = [oneShot EXCEPT ![t] = TimerOf("armed", i, p)]
          /\ caller' = [caller EXCEPT ![g] = CallOf(t, i)]
    BY Zenon, <1>1 DEF setupTimer
  <2>2. TimerOf("armed", i, p) \in TimerObject /\ CallOf(t, i) \in SetUp
    BY Zenon DEF TimerOf, TimerObject, CallOf, SetUp
  <2> QED BY Zenon, <1>1, <2>1, <2>2 DEF setupTimer, TypeOK, tables, lifetime
<1>2. ASSUME NEW p \in Proto, NEW i \in Id, setupPeriodicTimer(g, p, i) PROVE TypeOK'
  <2> DEFINE new == [st |-> "starting", id |-> i, owner |-> p, live |-> TRUE]
             old == CancelTickers(periodic, {ongoingPeriodicTimers[i]})
  <2>1. PICK k \in Periodic :
          /\ periodic' = [old EXCEPT ![k] = new]
          /\ ongoingPeriodicTimers' = [ongoingPeriodicTimers EXCEPT ![i] = k]
          /\ caller' = [caller EXCEPT ![g] = CallOf(k, i)]
    BY Zenon, <1>2 DEF setupPeriodicTimer
  <2>2. new \in TickerObject /\ CallOf(k, i) \in SetUp
    BY Zenon DEF TickerObject, CallOf, SetUp
  <2>3. old \in [Periodic -> TickerObject] BY Zenon, StopTypes
  <2> HIDE DEF new, old
  <2>4. periodic' \in [Periodic -> TickerObject] BY Zenon, <2>1, <2>2, <2>3
  <2> QED BY Zenon, <1>2, <2>1, <2>2, <2>4 DEF setupPeriodicTimer, TypeOK, lifetime
<1>3. ASSUME NEW p \in Proto, NEW i \in Id, cancelTimer(g, p, i) PROVE TypeOK'
  <2>1. /\ oneShot' \in [OneShot -> TimerObject]
        /\ periodic' \in [Periodic -> TickerObject]
    BY Zenon, <1>3, StopTypes DEF cancelTimer
  <2> QED BY Zenon, <1>3, <2>1 DEF cancelTimer, TypeOK, lifetime
<1>4. CASE installTimer(g)
  <2>1. oneShot' \in [OneShot -> TimerObject] BY Zenon, <1>4, StopTypes DEF installTimer
  <2>2. caller[g].slot \in OneShot /\ caller[g].id \in Id
    BY <1>0, <1>4, TimersAssumption DEF installTimer, SetUp, NoCall
  <2>3. NoCall \in SetUp BY Zenon DEF SetUp
  <2> QED BY Zenon, <1>4, <2>1, <2>2, <2>3 DEF installTimer, TypeOK, lifetime
<1>5. CASE startTicker(g)
  <2>1. PICK k \in Periodic : caller[g].slot = k BY Zenon, <1>5 DEF startTicker
  <2>2. NoCall \in SetUp BY Zenon DEF SetUp
  <2>3. periodic[k] \in TickerObject /\ periodic[k].st = "starting"
    BY Zenon, <2>1 DEF TypeOK, CallerStarts
  <2>4. [periodic[k] EXCEPT !.st = "waiting"] \in TickerObject BY Zenon, <2>3, StateTypes
  <2> QED BY Zenon, <1>5, <2>1, <2>2, <2>4 DEF startTicker, TypeOK, tables, lifetime
<1> QED BY Zenon, <1>1, <1>2, <1>3, <1>4, <1>5 DEF Call

\* Every step keeps the types.
LEMMA TypesStep ==
    ASSUME TypeOK, CallerStarts, [Next]_vars
    PROVE  TypeOK'
<1>1. ASSUME NEW p \in Proto, handleTimer(p) PROVE TypeOK'
  <2>1. timerChannel \in [Proto -> Seq(Id)] BY Zenon DEF TypeOK
  <2>2. /\ Tail(timerChannel[p]) \in Seq(Id)
        /\ Len(Tail(timerChannel[p])) <= Len(timerChannel[p])
        /\ Len(Tail(timerChannel[p])) \in Nat /\ Len(timerChannel[p]) \in Nat
    BY <1>1, <2>1 DEF handleTimer
  <2>3. timerChannel' \in [Proto -> Seq(Id)] BY Zenon, <1>1, <2>1, <2>2 DEF handleTimer
  <2>4. ASSUME NEW q \in Proto PROVE Len(timerChannel'[q]) <= TimerBuf
    <3>1. CASE q = p
      BY <1>1, <2>1, <2>2, <3>1, TimersAssumption DEF handleTimer, TypeOK
    <3>2. CASE q # p BY Zenon, <1>1, <2>1, <3>2 DEF handleTimer, TypeOK
    <3> QED BY Zenon, <3>1, <3>2
  <2> QED BY Zenon, <1>1, <2>3, <2>4 DEF handleTimer, TypeOK, timers, tables, lifetime
<1>2. ASSUME NEW p \in Proto, LoopReturns(p) PROVE TypeOK'
  BY Zenon, <1>2 DEF LoopReturns, TypeOK, timers, tables
<1>3. CASE InitReturns BY Zenon, <1>3 DEF InitReturns, TypeOK, timers, tables
<1>4. CASE cancelFunc BY Zenon, <1>4 DEF cancelFunc, TypeOK, timers, tables
<1>5. CASE clearTimers
  <2>1. /\ oneShot' \in [OneShot -> TimerObject]
        /\ periodic' \in [Periodic -> TickerObject]
    BY Zenon, <1>5, StopTypes DEF clearTimers
  <2> QED BY Zenon, <1>5, <2>1 DEF clearTimers, TypeOK
<1>6. CASE Wait BY Zenon, <1>6 DEF Wait, TypeOK, timers, tables
<1>7. CASE UNCHANGED vars BY Zenon, <1>7 DEF TypeOK, vars, timers, tables, lifetime
<1> QED
  BY Zenon, <1>1, <1>2, <1>3, <1>4, <1>5, <1>6, <1>7, CallTypes, CallbackTypes, TickerTypes
  DEF Next, Teardown

\* The initial states have the types.
LEMMA TypesInit == Init => TypeOK
<1> SUFFICES ASSUME Init PROVE TypeOK BY Zenon
<1>1. Len(<<>>) = 0 /\ <<>> \in Seq(Id) OBVIOUS
<1>2. timerChannel \in [Proto -> Seq(Id)] BY Zenon, <1>1 DEF Init
<1>3. \A p \in Proto : timerChannel[p] = <<>> BY Zenon DEF Init
<1>4. 0 <= TimerBuf BY TimersAssumption
<1>5. \A p \in Proto : Len(timerChannel[p]) <= TimerBuf BY Zenon, <1>1, <1>3, <1>4
<1> QED BY Zenon, <1>2, <1>5 DEF Init, TypeOK, TimerObject, TickerObject, SetUp

-----------------------------------------------------------------------------
(* One-shot timers.                                                        *)

\* A step that leaves these four alone cannot lose track of a timer.
LEMMA OneShotFrame ==
    ASSUME ArmedIsTracked, CallerNames, UNCHANGED <<oneShot, ongoingTimers, caller, orphans>>
    PROVE  ArmedIsTracked' /\ CallerNames'
BY Zenon DEF ArmedIsTracked, CallerNames

\* setupTimer: the new timer is in the hands of its caller.
LEMMA SetupTracks ==
    ASSUME TypeOK, ArmedIsTracked, CallerNames, NEW g \in Goroutine,
           NEW p \in Proto, NEW i \in Id, setupTimer(g, p, i)
    PROVE  ArmedIsTracked' /\ CallerNames'
<1>1. PICK t \in OneShot :
        /\ oneShot[t] = NoTimer /\ Unreferenced(t)
        /\ oneShot' = [oneShot EXCEPT ![t] = TimerOf("armed", i, p)]
        /\ caller' = [caller EXCEPT ![g] = CallOf(t, i)]
  BY Zenon DEF setupTimer
<1>2. ongoingTimers' = ongoingTimers /\ orphans' = orphans BY Zenon DEF setupTimer, tables
<1>3. caller[g] = NoCall BY Zenon DEF setupTimer, Calls
<1>4. caller' \in [Goroutine -> SetUp] /\ oneShot' \in [OneShot -> TimerObject]
  BY Zenon, <1>1 DEF TypeOK, TimerOf, CallOf, SetUp, TimerObject
<1>5. ASSUME NEW u \in OneShot, oneShot'[u].st = "armed"
      PROVE  \/ ongoingTimers'[oneShot'[u].id] = u
             \/ \E h \in Goroutine : caller'[h] = CallOf(u, oneShot'[u].id)
             \/ u \in orphans'
  <2>1. CASE u = t
    <3>1. caller'[g] = CallOf(t, i) /\ oneShot'[t].id = i
      BY Zenon, <1>1 DEF TypeOK, TimerOf
    <3> QED BY Zenon, <2>1, <3>1
  <2>2. CASE u # t
    <3>1. oneShot'[u] = oneShot[u] BY Zenon, <1>1, <2>2 DEF TypeOK
    <3>2. ASSUME NEW h \in Goroutine, caller[h] = CallOf(u, oneShot[u].id)
          PROVE  caller'[h] = caller[h]
      <4>1. caller[h].slot # Nil BY <3>2, TimersAssumption DEF CallOf
      <4>2. h # g BY <1>3, <4>1 DEF NoCall
      <4> QED BY Zenon, <1>1, <4>2 DEF TypeOK
    <3> QED BY Zenon, <1>2, <1>5, <3>1, <3>2 DEF ArmedIsTracked
  <2> QED BY Zenon, <2>1, <2>2
<1>6. ASSUME NEW h \in Goroutine, caller'[h].slot \in OneShot
      PROVE  LET u == caller'[h].slot IN
             oneShot'[u] = NoTimer \/ oneShot'[u].id = caller'[h].id
  <2>1. CASE h = g BY Zenon, <1>1, <2>1 DEF TypeOK, CallOf, TimerOf
  <2>2. CASE h # g
    <3>1. caller'[h] = caller[h] /\ caller[h].slot # t
      BY Zenon, <1>1, <2>2 DEF TypeOK, Unreferenced
    <3>2. oneShot'[caller[h].slot] = oneShot[caller[h].slot]
      BY Zenon, <1>1, <1>6, <3>1 DEF TypeOK
    <3> QED BY Zenon, <1>6, <3>1, <3>2 DEF CallerNames
  <2> QED BY Zenon, <2>1, <2>2
<1> QED BY Zenon, <1>5, <1>6 DEF ArmedIsTracked, CallerNames

\* Stopping some timers and taking their entries out of the table
\* (cancelTimer, Cancel).
LEMMA StopTracks ==
    ASSUME TypeOK, ArmedIsTracked, CallerNames, NEW I \in SUBSET Id,
           oneShot' = Stop(oneShot, {ongoingTimers[i] : i \in I}),
           orphans' = orphans \ {ongoingTimers[i] : i \in I},
           ongoingTimers' = [i \in Id |-> IF i \in I THEN Nil ELSE ongoingTimers[i]],
           caller' = caller
    PROVE  ArmedIsTracked' /\ CallerNames'
<1>1. ASSUME NEW u \in OneShot, oneShot'[u].st = "armed"
      PROVE  /\ oneShot'[u] = oneShot[u] /\ oneShot[u].st = "armed"
             /\ u \notin {ongoingTimers[i] : i \in I}
             /\ oneShot[u].id \in Id
  <2>1. oneShot[u] \in TimerObject BY Zenon DEF TypeOK
  <2>2. ~(u \in {ongoingTimers[i] : i \in I} /\ oneShot[u].st = "armed")
    BY Zenon, <1>1 DEF Stop, NoTimer
  <2>3. oneShot'[u] = oneShot[u] BY Zenon, <2>2 DEF Stop
  <2> QED BY <1>1, <2>1, <2>2, <2>3 DEF TimerObject, NoTimer
<1>2. ASSUME NEW u \in OneShot, oneShot'[u].st = "armed"
      PROVE  \/ ongoingTimers'[oneShot'[u].id] = u
             \/ \E h \in Goroutine : caller'[h] = CallOf(u, oneShot'[u].id)
             \/ u \in orphans'
  <2>1. CASE ongoingTimers[oneShot[u].id] = u
    <3>1. oneShot[u].id \notin I BY <1>1, <1>2, <2>1
    <3> QED BY Zenon, <1>1, <1>2, <2>1, <3>1
  <2>2. CASE u \in orphans BY Zenon, <1>1, <1>2, <2>2
  <2>3. CASE \E h \in Goroutine : caller[h] = CallOf(u, oneShot[u].id)
    BY Zenon, <1>1, <1>2, <2>3
  <2> QED BY Zenon, <1>1, <1>2, <2>1, <2>2, <2>3 DEF ArmedIsTracked
<1>3. \A u \in OneShot : oneShot'[u] = NoTimer \/ oneShot'[u] = oneShot[u] BY Zenon DEF Stop
<1>4. CallerNames' BY Zenon, <1>3 DEF CallerNames
<1> QED BY Zenon, <1>2, <1>4 DEF ArmedIsTracked

\* installTimer: the entry it overwrites belongs to a timer it stops.
LEMMA InstallTracks ==
    ASSUME TypeOK, ArmedIsTracked, CallerNames, NEW g \in Goroutine, installTimer(g)
    PROVE  ArmedIsTracked' /\ CallerNames'
<1> DEFINE s == caller[g].slot
           i == caller[g].id
<1>1. s \in OneShot /\ i \in Id
  BY TimersAssumption DEF installTimer, TypeOK, SetUp, NoCall
<1>2. /\ oneShot' = Stop(oneShot, {ongoingTimers[i]})
      /\ orphans' = orphans \ {ongoingTimers[i]}
      /\ ongoingTimers' = [ongoingTimers EXCEPT ![i] = s]
      /\ caller' = [caller EXCEPT ![g] = NoCall]
  BY Zenon DEF installTimer
<1>3. \A h \in Goroutine : caller'[h] = IF h = g THEN NoCall ELSE caller[h]
  BY Zenon, <1>2 DEF TypeOK
<1>4. ASSUME NEW u \in OneShot, oneShot'[u].st = "armed"
      PROVE  \/ ongoingTimers'[oneShot'[u].id] = u
             \/ \E h \in Goroutine : caller'[h] = CallOf(u, oneShot'[u].id)
             \/ u \in orphans'
  <2>1. ~(u = ongoingTimers[i] /\ oneShot[u].st = "armed") BY Zenon, <1>2, <1>4 DEF Stop, NoTimer
  <2>2. oneShot'[u] = oneShot[u] /\ u # ongoingTimers[i] BY Zenon, <1>2, <1>4, <2>1 DEF Stop
  <2>3. oneShot[u].id \in Id BY <1>4, <2>2 DEF TypeOK, TimerObject, NoTimer
  <2>4. CASE ongoingTimers[oneShot[u].id] = u
    BY Zenon, <1>1, <1>2, <2>2, <2>3, <2>4 DEF TypeOK
  <2>5. CASE u \in orphans BY Zenon, <1>2, <2>2, <2>5
  <2>6. ASSUME NEW h \in Goroutine, caller[h] = CallOf(u, oneShot[u].id)
        PROVE  ongoingTimers'[oneShot[u].id] = u \/ caller'[h] = CallOf(u, oneShot[u].id)
    <3>1. CASE h = g
      BY <1>1, <1>2, <2>3, <2>6, <3>1 DEF TypeOK, CallOf
    <3>2. CASE h # g BY Zenon, <1>3, <2>6, <3>2
    <3> QED BY Zenon, <3>1, <3>2
  <2> QED BY Zenon, <1>4, <2>2, <2>4, <2>5, <2>6 DEF ArmedIsTracked
<1>5. \A u \in OneShot : oneShot'[u] = NoTimer \/ oneShot'[u] = oneShot[u]
  BY Zenon, <1>2 DEF Stop
<1>6. NoCall.slot \notin OneShot BY Zenon, TimersAssumption DEF NoCall
<1>7. CallerNames' BY Zenon, <1>3, <1>5, <1>6 DEF CallerNames
<1> QED BY Zenon, <1>4, <1>7 DEF ArmedIsTracked

\* A callback that fires, deletes the entry of its id, sends or gives up.
LEMMA CallbackTracks ==
    ASSUME TypeOK, ArmedIsTracked, CallerNames, NEW t \in OneShot, Callback(t)
    PROVE  ArmedIsTracked' /\ CallerNames'
<1>1. caller' = caller BY Zenon DEF Callback, Fire, callbackDeletes, callbackSends, callbackGivesUp
<1>2. CASE Fire(t)
  <2>1. /\ oneShot' = [oneShot EXCEPT ![t].st = "fired"] /\ orphans' = orphans \ {t}
        /\ ongoingTimers' = ongoingTimers
    BY Zenon, <1>2 DEF Fire, tables
  <2>2. \A u \in OneShot : u # t => oneShot'[u] = oneShot[u] BY Zenon, <2>1 DEF TypeOK
  <2>3. oneShot'[t].st = "fired" /\ oneShot'[t].id = oneShot[t].id
    BY <1>2, <2>1 DEF TypeOK, TimerObject, NoTimer
  <2>4. oneShot[t] # NoTimer BY <1>2 DEF Fire, NoTimer
  <2>5. ArmedIsTracked' BY Zenon, <1>1, <2>1, <2>2, <2>3 DEF ArmedIsTracked
  <2>6. CallerNames' BY Zenon, <1>1, <2>2, <2>3, <2>4 DEF CallerNames
  <2> QED BY Zenon, <2>5, <2>6
<1>3. CASE callbackDeletes(t)
  <2> DEFINE i == oneShot[t].id
  <2>1. /\ oneShot' = [oneShot EXCEPT ![t].st = "sending"]
        /\ orphans' = orphans \cup {u \in OneShot : ongoingTimers[i] = u
                                                   /\ oneShot[u].st = "armed"}
        /\ ongoingTimers' = [ongoingTimers EXCEPT ![i] = Nil]
    BY Zenon, <1>3 DEF callbackDeletes
  <2>2. \A u \in OneShot : u # t => oneShot'[u] = oneShot[u] BY Zenon, <2>1 DEF TypeOK
  <2>3. oneShot[t] \in [st : {"armed", "fired", "sending"}, id : Id, owner : Proto]
    BY <1>3 DEF callbackDeletes, TypeOK, TimerObject, NoTimer
  <2>4. oneShot'[t].st = "sending" /\ oneShot'[t].id = oneShot[t].id
    BY Zenon, <2>1, <2>3 DEF TypeOK
  <2>5. oneShot[t] # NoTimer BY <1>3 DEF callbackDeletes, NoTimer
  <2>6. ASSUME NEW u \in OneShot, oneShot'[u].st = "armed"
        PROVE  \/ ongoingTimers'[oneShot'[u].id] = u
               \/ \E h \in Goroutine : caller'[h] = CallOf(u, oneShot'[u].id)
               \/ u \in orphans'
    <3>1. u # t /\ oneShot'[u] = oneShot[u] BY Zenon, <2>2, <2>4, <2>6
    <3>2. CASE ongoingTimers[oneShot[u].id] = u
      <4>1. CASE oneShot[u].id = i BY Zenon, <2>1, <2>6, <3>1, <3>2, <4>1
      <4>2. CASE oneShot[u].id # i
        BY <2>1, <2>6, <3>1, <3>2, <4>2 DEF TypeOK, TimerObject, NoTimer
      <4> QED BY Zenon, <4>1, <4>2
    <3>3. CASE u \in orphans BY Zenon, <2>1, <3>3
    <3>4. CASE \E h \in Goroutine : caller[h] = CallOf(u, oneShot[u].id)
      BY Zenon, <1>1, <3>1, <3>4
    <3> QED BY Zenon, <2>6, <3>1, <3>2, <3>3, <3>4 DEF ArmedIsTracked
  <2>7. CallerNames' BY Zenon, <1>1, <2>2, <2>4, <2>5 DEF CallerNames
  <2> QED BY Zenon, <2>6, <2>7 DEF ArmedIsTracked
<1>4. CASE callbackSends(t) \/ callbackGivesUp(t)
  <2>1. /\ oneShot' = [oneShot EXCEPT ![t] = NoTimer] /\ orphans' = orphans
        /\ ongoingTimers' = ongoingTimers
    BY Zenon, <1>4 DEF callbackSends, callbackGivesUp, tables
  <2>2. \A u \in OneShot : oneShot'[u] = IF u = t THEN NoTimer ELSE oneShot[u]
    BY Zenon, <2>1 DEF TypeOK
  <2>3. ArmedIsTracked' BY <1>1, <2>1, <2>2 DEF ArmedIsTracked, NoTimer
  <2>4. CallerNames' BY Zenon, <1>1, <2>2 DEF CallerNames
  <2> QED BY Zenon, <2>3, <2>4
<1> QED BY Zenon, <1>2, <1>3, <1>4 DEF Callback

\* Every step keeps track of the one-shot timers.
LEMMA OneShotStep ==
    ASSUME TypeOK, ArmedIsTracked, CallerNames, CallerStarts, [Next]_vars
    PROVE  ArmedIsTracked' /\ CallerNames'
<1>1. ASSUME NEW g \in Goroutine, NEW p \in Proto, NEW i \in Id, cancelTimer(g, p, i)
      PROVE  ArmedIsTracked' /\ CallerNames'
  <2>1. {ongoingTimers[j] : j \in {i}} = {ongoingTimers[i]} BY Zenon
  <2>2. ongoingTimers' = [j \in Id |-> IF j \in {i} THEN Nil ELSE ongoingTimers[j]]
    BY Zenon, <1>1 DEF cancelTimer, TypeOK
  <2> QED BY Zenon, <1>1, <2>1, <2>2, StopTracks DEF cancelTimer
<1>2. CASE clearTimers
  <2>1. ongoingTimers' = [j \in Id |-> IF j \in Id THEN Nil ELSE ongoingTimers[j]]
    BY Zenon, <1>2 DEF clearTimers
  <2> QED BY Zenon, <1>2, <2>1, StopTracks DEF clearTimers
<1>3. ASSUME NEW g \in Goroutine,
             startTicker(g) \/ \E p \in Proto, i \in Id : setupPeriodicTimer(g, p, i)
      PROVE  ArmedIsTracked' /\ CallerNames'
  <2>1. oneShot' = oneShot /\ ongoingTimers' = ongoingTimers /\ orphans' = orphans
    BY Zenon, <1>3 DEF startTicker, setupPeriodicTimer, tables
  <2>2. \A h \in Goroutine : h # g => caller'[h] = caller[h]
    BY Zenon, <1>3 DEF startTicker, setupPeriodicTimer, TypeOK
  <2>3. caller[g].slot \notin OneShot /\ caller'[g].slot \notin OneShot
    <3>1. NoCall.slot \notin OneShot BY Zenon, TimersAssumption DEF NoCall
    <3>2. CASE startTicker(g)
      BY Zenon, <3>1, <3>2, TimersAssumption DEF startTicker, TypeOK
    <3>3. ASSUME NEW p \in Proto, NEW i \in Id, setupPeriodicTimer(g, p, i)
          PROVE  caller[g].slot \notin OneShot /\ caller'[g].slot \notin OneShot
      <4>1. PICK k \in Periodic : caller' = [caller EXCEPT ![g] = CallOf(k, i)]
        BY Zenon, <3>3 DEF setupPeriodicTimer
      <4>2. caller'[g].slot = k BY Zenon, <4>1 DEF TypeOK, CallOf
      <4> QED BY Zenon, <3>1, <3>3, <4>2, TimersAssumption DEF setupPeriodicTimer, Calls
    <3> QED BY Zenon, <1>3, <3>2, <3>3
  <2>4. ArmedIsTracked' BY <2>1, <2>2, <2>3 DEF ArmedIsTracked, CallOf
  <2>5. CallerNames' BY Zenon, <2>1, <2>2, <2>3 DEF CallerNames
  <2> QED BY Zenon, <2>4, <2>5
<1>4. ASSUME NEW g \in Goroutine, Call(g) PROVE ArmedIsTracked' /\ CallerNames'
  BY Zenon, <1>1, <1>3, <1>4, SetupTracks, InstallTracks DEF Call
<1>5. ASSUME NEW k \in Periodic, Ticker(k) PROVE ArmedIsTracked' /\ CallerNames'
  BY Zenon, <1>5, OneShotFrame DEF Ticker, Tick, tickerSends, tickerReturns, tables
<1>6. ASSUME NEW p \in Proto, handleTimer(p) \/ LoopReturns(p)
      PROVE  ArmedIsTracked' /\ CallerNames'
  BY Zenon, <1>6, OneShotFrame DEF handleTimer, LoopReturns, timers, tables
<1>7. CASE InitReturns \/ cancelFunc \/ Wait
  BY Zenon, <1>7, OneShotFrame DEF InitReturns, cancelFunc, Wait, timers, tables
<1>8. CASE UNCHANGED vars BY Zenon, <1>8, OneShotFrame DEF vars, timers, tables
<1> QED BY Zenon, <1>2, <1>4, <1>5, <1>6, <1>7, <1>8, CallbackTracks DEF Next, Teardown

-----------------------------------------------------------------------------
(* Periodic timers.                                                        *)

\* A step that leaves these three alone cannot lose track of a ticker.
LEMMA TickerFrame ==
    ASSUME TickerIsTracked, CallerStarts, UNCHANGED <<periodic, ongoingPeriodicTimers, caller>>
    PROVE  TickerIsTracked' /\ CallerStarts'
BY Zenon DEF TickerIsTracked, CallerStarts

\* setupPeriodicTimer: the ticker it replaces is cancelled, the new one is in
\* the table and in the hands of its caller.
LEMMA SetupPeriodicTracks ==
    ASSUME TypeOK, TickerIsTracked, CallerStarts, NEW g \in Goroutine,
           NEW p \in Proto, NEW i \in Id, setupPeriodicTimer(g, p, i)
    PROVE  TickerIsTracked' /\ CallerStarts'
<1> DEFINE new == [st |-> "starting", id |-> i, owner |-> p, live |-> TRUE]
           old == CancelTickers(periodic, {ongoingPeriodicTimers[i]})
<1>1. PICK k \in Periodic :
        /\ periodic[k] = NoTicker /\ Unreferenced(k)
        /\ periodic' = [old EXCEPT ![k] = new]
        /\ ongoingPeriodicTimers' = [ongoingPeriodicTimers EXCEPT ![i] = k]
        /\ caller' = [caller EXCEPT ![g] = CallOf(k, i)]
  BY Zenon DEF setupPeriodicTimer
<1>2. \A h \in Goroutine : caller'[h] = IF h = g THEN CallOf(k, i) ELSE caller[h]
  BY Zenon, <1>1 DEF TypeOK
<1>3. periodic'[k] = new /\ \A l \in Periodic : l # k => periodic'[l] = old[l]
  BY Zenon, <1>1 DEF CancelTickers
<1>4. ASSUME NEW l \in Periodic
      PROVE  /\ old[l].st = periodic[l].st
             /\ old[l].live => old[l] = periodic[l] /\ l # ongoingPeriodicTimers[i]
  <2>1. periodic[l] \in TickerObject BY Zenon DEF TypeOK
  <2>2. CASE periodic[l].live /\ l = ongoingPeriodicTimers[i]
    BY Zenon, <2>1, <2>2 DEF CancelTickers, TickerObject, NoTicker
  <2>3. CASE ~(periodic[l].live /\ l = ongoingPeriodicTimers[i])
    BY Zenon, <2>3 DEF CancelTickers
  <2> QED BY Zenon, <2>2, <2>3
<1>5. caller[g].slot \notin Periodic
  BY TimersAssumption DEF setupPeriodicTimer, Calls, NoCall
<1>6. ASSUME NEW l \in Periodic, periodic'[l].live
      PROVE  ongoingPeriodicTimers'[periodic'[l].id] = l
  <2>1. CASE l = k BY <1>1, <1>3, <2>1 DEF TypeOK
  <2>2. CASE l # k
    <3>1. periodic'[l] = periodic[l] /\ l # ongoingPeriodicTimers[i] /\ periodic[l].live
      BY Zenon, <1>3, <1>4, <1>6, <2>2
    <3>2. ongoingPeriodicTimers[periodic[l].id] = l BY Zenon, <3>1 DEF TickerIsTracked
    <3>3. periodic[l].id \in Id BY <3>1 DEF TypeOK, TickerObject, NoTicker
    <3> QED BY Zenon, <1>1, <3>1, <3>2, <3>3 DEF TypeOK
  <2> QED BY Zenon, <2>1, <2>2
<1> HIDE DEF old
<1>7. ASSUME NEW h \in Goroutine, caller'[h].slot \in Periodic
      PROVE  periodic'[caller'[h].slot].st = "starting"
  <2>1. CASE h = g BY <1>2, <1>3, <2>1 DEF CallOf
  <2>2. CASE h # g
    <3>1. caller'[h] = caller[h] /\ caller[h].slot # k BY Zenon, <1>1, <1>2, <2>2 DEF Unreferenced
    <3> QED BY <1>3, <1>4, <1>7, <3>1 DEF CallerStarts
  <2> QED BY Zenon, <2>1, <2>2
<1>8. ASSUME NEW h1 \in Goroutine, NEW h2 \in Goroutine,
             caller'[h1].slot \in Periodic, caller'[h1].slot = caller'[h2].slot
      PROVE  h1 = h2
  BY <1>1, <1>2, <1>8 DEF Unreferenced, CallOf, CallerStarts
<1>9. ASSUME NEW l \in Periodic, periodic'[l].st = "starting"
      PROVE  \E h \in Goroutine : caller'[h].slot = l
  <2>1. CASE l = k BY <1>2, <2>1 DEF CallOf
  <2>2. CASE l # k
    <3>1. PICK h \in Goroutine : caller[h].slot = l
      BY <1>3, <1>4, <1>9, <2>2 DEF CallerStarts
    <3> QED BY Zenon, <1>2, <1>5, <3>1
  <2> QED BY Zenon, <2>1, <2>2
<1> QED BY Zenon, <1>6, <1>7, <1>8, <1>9 DEF TickerIsTracked, CallerStarts

\* Cancelling some tickers and taking their entries out of the table.
LEMMA CancelTracks ==
    ASSUME TypeOK, TickerIsTracked, CallerStarts, NEW I \in SUBSET Id,
           periodic' = CancelTickers(periodic, {ongoingPeriodicTimers[i] : i \in I}),
           ongoingPeriodicTimers' =
             [i \in Id |-> IF i \in I THEN Nil ELSE ongoingPeriodicTimers[i]],
           caller' = caller
    PROVE  TickerIsTracked' /\ CallerStarts'
<1> DEFINE K == {ongoingPeriodicTimers[i] : i \in I}
<1>1. ASSUME NEW l \in Periodic
      PROVE  /\ periodic'[l].st = periodic[l].st
             /\ periodic'[l].live => periodic'[l] = periodic[l] /\ l \notin K
  <2>1. periodic[l] \in TickerObject BY Zenon DEF TypeOK
  <2>2. CASE periodic[l].live /\ l \in K
    BY Zenon, <2>1, <2>2 DEF CancelTickers, TickerObject, NoTicker
  <2>3. CASE ~(periodic[l].live /\ l \in K) BY Zenon, <2>3 DEF CancelTickers
  <2> QED BY Zenon, <2>2, <2>3
<1>2. ASSUME NEW l \in Periodic, periodic'[l].live
      PROVE  ongoingPeriodicTimers'[periodic'[l].id] = l
  <2>1. periodic'[l] = periodic[l] /\ l \notin K BY Zenon, <1>1, <1>2
  <2>2. ongoingPeriodicTimers[periodic[l].id] = l BY Zenon, <1>2, <2>1 DEF TickerIsTracked
  <2>3. periodic[l].id \in Id BY <1>2, <2>1 DEF TypeOK, TickerObject, NoTicker
  <2>4. periodic[l].id \notin I BY Zenon, <2>1, <2>2
  <2> QED BY Zenon, <2>1, <2>2, <2>3, <2>4
<1>3. CallerStarts' BY Zenon, <1>1 DEF CallerStarts
<1> QED BY Zenon, <1>2, <1>3 DEF TickerIsTracked

\* A set-up that is finished starts its ticker; a ticker that ticks, sends or
\* returns is one that was started.
LEMMA TickerTracks ==
    ASSUME TypeOK, TickerIsTracked, CallerStarts,
           \/ \E g \in Goroutine : startTicker(g)
           \/ \E k \in Periodic : Ticker(k)
    PROVE  TickerIsTracked' /\ CallerStarts'
<1>1. ASSUME NEW g \in Goroutine, startTicker(g) PROVE TickerIsTracked' /\ CallerStarts'
  <2>1. PICK k \in Periodic :
          /\ caller[g].slot = k /\ periodic' = [periodic EXCEPT ![k].st = "waiting"]
          /\ caller' = [caller EXCEPT ![g] = NoCall]
          /\ ongoingPeriodicTimers' = ongoingPeriodicTimers
    BY Zenon, <1>1 DEF startTicker, tables
  <2>2. \A l \in Periodic : l # k => periodic'[l] = periodic[l] BY Zenon, <2>1 DEF TypeOK
  <2>3. periodic[k].st = "starting" BY Zenon, <2>1 DEF CallerStarts
  <2>4. /\ periodic'[k].st = "waiting" /\ periodic'[k].id = periodic[k].id
        /\ periodic'[k].live = periodic[k].live
    BY <2>1, <2>3 DEF TypeOK, TickerObject, NoTicker
  <2>5. \A h \in Goroutine : caller'[h] = IF h = g THEN NoCall ELSE caller[h]
    BY Zenon, <2>1 DEF TypeOK
  <2>6. NoCall.slot \notin Periodic BY Zenon, TimersAssumption DEF NoCall
  <2>7. TickerIsTracked' BY <2>1, <2>2, <2>4 DEF TickerIsTracked
  <2>8. CallerStarts' BY <2>1, <2>2, <2>4, <2>5, <2>6 DEF CallerStarts
  <2> QED BY Zenon, <2>7, <2>8
<1>2. ASSUME NEW k \in Periodic, Ticker(k) PROVE TickerIsTracked' /\ CallerStarts'
  <2>1. caller' = caller /\ ongoingPeriodicTimers' = ongoingPeriodicTimers
    BY Zenon, <1>2 DEF Ticker, Tick, tickerSends, tickerReturns, tables
  <2>2. \A l \in Periodic : l # k => periodic'[l] = periodic[l]
    BY Zenon, <1>2 DEF Ticker, Tick, tickerSends, tickerReturns, TypeOK
  <2>3. /\ periodic[k].st \in {"waiting", "sending"} /\ periodic'[k].st # "starting"
        /\ periodic'[k].live => periodic'[k].id = periodic[k].id /\ periodic[k].live
    <3>1. periodic \in [Periodic -> TickerObject] BY Zenon DEF TypeOK
    <3>2. /\ periodic[k].st \in {"waiting", "sending"}
          /\ \/ periodic' = [periodic EXCEPT ![k].st = "sending"]
             \/ periodic' = [periodic EXCEPT ![k].st = "waiting"]
             \/ periodic' = [periodic EXCEPT ![k] = NoTicker]
      BY Zenon, <1>2 DEF Ticker, Tick, tickerSends, tickerReturns
    <3> QED BY <3>1, <3>2 DEF TickerObject, NoTicker
  <2>4. periodic'[k].live => periodic'[k].id = periodic[k].id /\ periodic[k].live
    BY Zenon, <2>3
  <2>5. TickerIsTracked' BY <2>1, <2>2, <2>4 DEF TickerIsTracked
  <2>6. CallerStarts' BY Zenon, <2>1, <2>2, <2>3 DEF CallerStarts
  <2> QED BY Zenon, <2>5, <2>6
<1> QED BY Zenon, <1>1, <1>2

\* Every step keeps track of the tickers.
LEMMA TickerStep ==
    ASSUME TypeOK, TickerIsTracked, CallerStarts, [Next]_vars
    PROVE  TickerIsTracked' /\ CallerStarts'
<1>1. ASSUME NEW g \in Goroutine, NEW p \in Proto, NEW i \in Id, cancelTimer(g, p, i)
      PROVE  TickerIsTracked' /\ CallerStarts'
  <2>1. {ongoingPeriodicTimers[j] : j \in {i}} = {ongoingPeriodicTimers[i]} BY Zenon
  <2>2. ongoingPeriodicTimers' =
          [j \in Id |-> IF j \in {i} THEN Nil ELSE ongoingPeriodicTimers[j]]
    BY Zenon, <1>1 DEF cancelTimer, TypeOK
  <2> QED BY Zenon, <1>1, <2>1, <2>2, CancelTracks DEF cancelTimer
<1>2. CASE clearTimers
  <2>1. ongoingPeriodicTimers' =
          [j \in Id |-> IF j \in Id THEN Nil ELSE ongoingPeriodicTimers[j]]
    BY Zenon, <1>2 DEF clearTimers
  <2> QED BY Zenon, <1>2, <2>1, CancelTracks DEF clearTimers
<1>3. ASSUME NEW g \in Goroutine,
             installTimer(g) \/ \E p \in Proto, i \in Id : setupTimer(g, p, i)
      PROVE  TickerIsTracked' /\ CallerStarts'
  <2>1. periodic' = periodic /\ ongoingPeriodicTimers' = ongoingPeriodicTimers
    BY Zenon, <1>3 DEF installTimer, setupTimer, tables
  <2>2. \A h \in Goroutine : h # g => caller'[h] = caller[h]
    BY Zenon, <1>3 DEF installTimer, setupTimer, TypeOK
  <2>3. caller[g].slot \notin Periodic /\ caller'[g].slot \notin Periodic
    <3>1. NoCall.slot \notin Periodic BY Zenon, TimersAssumption DEF NoCall
    <3>2. CASE installTimer(g)
      BY Zenon, <3>1, <3>2, TimersAssumption DEF installTimer, TypeOK
    <3>3. ASSUME NEW p \in Proto, NEW i \in Id, setupTimer(g, p, i)
          PROVE  caller[g].slot \notin Periodic /\ caller'[g].slot \notin Periodic
      <4>1. PICK t \in OneShot : caller' = [caller EXCEPT ![g] = CallOf(t, i)]
        BY Zenon, <3>3 DEF setupTimer
      <4>2. caller'[g].slot = t BY Zenon, <4>1 DEF TypeOK, CallOf
      <4> QED BY Zenon, <3>1, <3>3, <4>2, TimersAssumption DEF setupTimer, Calls
    <3> QED BY Zenon, <1>3, <3>2, <3>3
  <2>4. TickerIsTracked' BY Zenon, <2>1 DEF TickerIsTracked
  <2>5. CallerStarts' BY <2>1, <2>2, <2>3 DEF CallerStarts
  <2> QED BY Zenon, <2>4, <2>5
<1>4. ASSUME NEW g \in Goroutine, Call(g) PROVE TickerIsTracked' /\ CallerStarts'
  BY Zenon, <1>1, <1>3, <1>4, SetupPeriodicTracks, TickerTracks DEF Call
<1>5. ASSUME NEW t \in OneShot, Callback(t) PROVE TickerIsTracked' /\ CallerStarts'
  BY Zenon, <1>5, TickerFrame
  DEF Callback, Fire, callbackDeletes, callbackSends, callbackGivesUp, tables
<1>6. ASSUME NEW p \in Proto, handleTimer(p) \/ LoopReturns(p)
      PROVE  TickerIsTracked' /\ CallerStarts'
  BY Zenon, <1>6, TickerFrame DEF handleTimer, LoopReturns, timers, tables
<1>7. CASE InitReturns \/ cancelFunc \/ Wait
  BY Zenon, <1>7, TickerFrame DEF InitReturns, cancelFunc, Wait, timers, tables
<1>8. CASE UNCHANGED vars BY Zenon, <1>8, TickerFrame DEF vars, timers, tables
<1> QED BY Zenon, <1>2, <1>4, <1>5, <1>6, <1>7, <1>8, TickerTracks DEF Next, Teardown

-----------------------------------------------------------------------------
(* Shutdown.                                                               *)

\* Only goroutines that run are in the middle of a set-up.
LEMMA CallerStep ==
    ASSUME TypeOK, CallerRuns, [Next]_vars
    PROVE  CallerRuns'
<1>1. ASSUME NEW g \in Goroutine, Call(g) PROVE CallerRuns'
  <2>1. UNCHANGED lifetime
    BY Zenon, <1>1 DEF Call, setupTimer, setupPeriodicTimer, cancelTimer, installTimer, startTicker
  <2>2. ASSUME NEW h \in Goroutine, caller'[h] # NoCall
        PROVE  h \in loops \/ (h = Main /\ initialising)
    <3>1. CASE caller'[h] = caller[h] BY Zenon, <2>2, <3>1 DEF CallerRuns
    <3>2. CASE caller'[h] # caller[h]
      <4>1. h = g
        BY Zenon, <1>1, <3>2
        DEF Call, setupTimer, setupPeriodicTimer, cancelTimer, installTimer, startTicker, TypeOK
      <4>2. \E p \in Proto : Calls(g, p)
        BY Zenon, <1>1, <2>2, <3>2, <4>1
        DEF Call, setupTimer, setupPeriodicTimer, cancelTimer, installTimer, startTicker, TypeOK
      <4> QED BY Zenon, <4>1, <4>2 DEF Calls
    <3> QED BY Zenon, <3>1, <3>2
  <2> QED BY Zenon, <2>1, <2>2 DEF CallerRuns, lifetime
<1>2. ASSUME NEW t \in OneShot, Callback(t) PROVE CallerRuns'
  BY <1>2 DEF Callback, Fire, callbackDeletes, callbackSends, callbackGivesUp, lifetime, CallerRuns
<1>3. ASSUME NEW k \in Periodic, Ticker(k) PROVE CallerRuns'
  BY <1>3 DEF Ticker, Tick, tickerSends, tickerReturns, lifetime, CallerRuns
<1>4. ASSUME NEW p \in Proto, handleTimer(p) \/ LoopReturns(p) PROVE CallerRuns'
  BY <1>4 DEF handleTimer, LoopReturns, lifetime, CallerRuns
<1>5. CASE InitReturns BY Zenon, <1>5 DEF InitReturns, CallerRuns
<1>6. CASE Teardown
  BY <1>6 DEF Teardown, cancelFunc, clearTimers, Wait, CallerRuns
<1>7. CASE UNCHANGED vars BY Zenon, <1>7 DEF vars, lifetime, CallerRuns
<1> QED BY Zenon, <1>1, <1>2, <1>3, <1>4, <1>5, <1>6, <1>7 DEF Next

\* When Cancel returns nothing runs, and nothing can start any more.
LEMMA QuietStep ==
    ASSUME TypeOK, CallerStarts, CallerRuns, QuietAfterCancel, [Next]_vars
    PROVE  QuietAfterCancel'
<1> SUFFICES ASSUME teardown' = "returned", ~early'
             PROVE  loops' = {} /\ \A k \in Periodic : periodic'[k].st = "off"
  BY Zenon DEF QuietAfterCancel
<1>1. CASE Wait
  <2>1. loops = {} /\ ~early /\ teardown # "no"
        /\ \A k \in Periodic : periodic[k].st \notin {"waiting", "sending"}
    BY Zenon, <1>1 DEF Wait, wg
  <2>2. \A g \in Goroutine : caller[g] = NoCall BY Zenon, <2>1 DEF CallerRuns
  <2>3. \A k \in Periodic : periodic[k].st # "starting"
    BY <2>2, TimersAssumption DEF CallerStarts, NoCall
  <2>4. \A k \in Periodic : periodic[k].st = "off"
    BY <2>1, <2>3 DEF TypeOK, TickerObject, NoTicker
  <2> QED BY Zenon, <1>1, <2>1, <2>4 DEF Wait, timers
<1>2. CASE ~Wait
  <2>1. teardown = "returned" /\ ~early
    <3>1. ASSUME NEW g \in Goroutine, Call(g) PROVE teardown = "returned" /\ ~early
      <4>1. UNCHANGED lifetime
        BY Zenon, <3>1
        DEF Call, setupTimer, setupPeriodicTimer, cancelTimer, installTimer, startTicker
      <4> QED BY Zenon, <4>1 DEF lifetime
    <3>2. CASE \E t \in OneShot : Callback(t)
      BY <3>2 DEF Callback, Fire, callbackDeletes, callbackSends, callbackGivesUp, lifetime
    <3>3. CASE \E k \in Periodic : Ticker(k)
      BY <3>3 DEF Ticker, Tick, tickerSends, tickerReturns, lifetime
    <3>4. CASE \E p \in Proto : handleTimer(p) \/ LoopReturns(p)
      BY <3>4 DEF handleTimer, LoopReturns, lifetime
    <3>5. CASE InitReturns \/ Teardown
      BY <1>2, <3>5 DEF InitReturns, Teardown, cancelFunc, clearTimers
    <3>6. CASE UNCHANGED vars BY Zenon, <3>6 DEF vars, lifetime
    <3> QED BY Zenon, <3>1, <3>2, <3>3, <3>4, <3>5, <3>6 DEF Next
  <2>2. loops = {} /\ \A k \in Periodic : periodic[k].st = "off"
    BY Zenon, <2>1 DEF QuietAfterCancel
  <2>3. ~initialising /\ \A g \in Goroutine : caller[g] = NoCall
    BY Zenon, <2>1, <2>2 DEF CallerRuns
  <2>4. ~ \E g \in Goroutine : Call(g)
    <3>1. \A g \in Goroutine, p \in Proto : ~Calls(g, p) BY Zenon, <2>2, <2>3 DEF Calls
    <3>2. \A g \in Goroutine : caller[g].slot \notin OneShot \cup Periodic
      BY <2>3, TimersAssumption DEF NoCall
    <3> QED
      BY ZenonT(40), <3>1, <3>2
      DEF Call, setupTimer, setupPeriodicTimer, cancelTimer, installTimer, startTicker
  <2>5. ~ \E k \in Periodic : Ticker(k)
    BY Zenon, <2>2 DEF Ticker, Tick, tickerSends, tickerReturns
  <2>6. CASE \E t \in OneShot : Callback(t)
    BY Zenon, <2>2, <2>6
    DEF Callback, Fire, callbackDeletes, callbackSends, callbackGivesUp, lifetime
  <2>7. CASE \E p \in Proto : handleTimer(p) \/ LoopReturns(p)
    BY Zenon, <2>2, <2>7 DEF handleTimer, LoopReturns
  <2>8. CASE InitReturns BY Zenon, <2>3, <2>8 DEF InitReturns
  <2>9. CASE Teardown BY Zenon, <1>2, <2>1, <2>9 DEF Teardown, cancelFunc, clearTimers
  <2>10. CASE UNCHANGED vars BY Zenon, <2>2, <2>10 DEF vars, timers, lifetime
  <2> QED BY Zenon, <2>4, <2>5, <2>6, <2>7, <2>8, <2>9, <2>10 DEF Next
<1> QED BY Zenon, <1>1, <1>2

-----------------------------------------------------------------------------
\* The invariant holds when the event loops start.
LEMMA InvInit == Init => IInv
<1> SUFFICES ASSUME Init PROVE IInv BY Zenon
<1>1. \A t \in OneShot : oneShot[t].st = "done" BY Zenon DEF Init, NoTimer
<1>2. \A k \in Periodic : periodic[k].st = "off" /\ ~periodic[k].live BY Zenon DEF Init, NoTicker
<1>3. \A g \in Goroutine : /\ caller[g] = NoCall
                           /\ caller[g].slot \notin OneShot \cup Periodic
  BY Zenon, TimersAssumption DEF Init, NoCall
<1>4. ArmedIsTracked /\ CallerNames BY Zenon, <1>1, <1>3 DEF ArmedIsTracked, CallerNames
<1>5. TickerIsTracked /\ CallerStarts BY Zenon, <1>2, <1>3 DEF TickerIsTracked, CallerStarts
<1>6. QuietAfterCancel /\ CallerRuns BY Zenon, <1>3 DEF Init, QuietAfterCancel, CallerRuns
<1> QED BY Zenon, <1>4, <1>5, <1>6, TypesInit DEF IInv

\* It is inductive: every step of timers, tickers, callers and Cancel keeps it.
THEOREM TimersInvariant == Spec => []IInv
<1>1. IInv /\ [Next]_vars => IInv'
  BY Zenon, TypesStep, OneShotStep, TickerStep, CallerStep, QuietStep DEF IInv
<1> QED BY <1>1, InvInit, PTL DEF Spec

\* For any protocols, ids and numbers of timers, a timer that can still fire
\* is found by SetupTimer, CancelTimer and Cancel through its id, except for
\* one whose entry an earlier callback deleted.
THEOREM ArmedTracked == Spec => []ArmedIsTracked
<1>1. IInv => ArmedIsTracked BY Zenon DEF IInv
<1> QED BY <1>1, TimersInvariant, PTL

\* A ticker whose context is live is its id's table entry, always.
THEOREM TickerTracked == Spec => []TickerIsTracked
<1>1. IInv => TickerIsTracked BY Zenon DEF IInv
<1> QED BY <1>1, TimersInvariant, PTL

\* Once Cancel has returned no event loop and no ticker runs or starts, unless
\* it was called while an Init method ran.
THEOREM CancelQuiesces == Spec => []QuietAfterCancel
<1>1. IInv => QuietAfterCancel BY Zenon DEF IInv
<1> QED BY <1>1, TimersInvariant, PTL

=============================================================================
