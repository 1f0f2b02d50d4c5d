----------------------------- MODULE TimersProps -----------------------------
(***************************************************************************)
(* What SetupTimer, SetupPeriodicTimer, CancelTimer and Cancel promise.    *)
(***************************************************************************)
EXTENDS Timers

\* A one-shot timer that can still fire is the one its id's table entry points
\* to, or is about to be installed by the goroutine that set it up: so
\* SetupTimer on the same id, CancelTimer and Cancel find the timer they have
\* to stop (timer.go 43-48, 52-56).  The exception the code allows: the
\* callback of an earlier timer deletes the entry by id (timer.go 36), which
\* leaves a timer that was set up in the meantime running and unreachable.
ArmedIsTracked ==
    \A t \in OneShot : oneShot[t].st = "armed" =>
        \/ ongoingTimers[oneShot[t].id] = t
        \/ \E g \in Goroutine : caller[g] = CallOf(t, oneShot[t].id)
        \/ t \in orphans

\* A ticker goroutine whose own context is live is its id's table entry, so
\* every id ticks at most once per period and can always be cancelled
\* (timer.go 57-60, 70-75).
TickerIsTracked ==
    \A k \in Periodic : periodic[k].live =>
        ongoingPeriodicTimers[periodic[k].id] = k

\* When Cancel has returned, no event loop and no ticker goroutine runs and
\* none starts any more, unless an Init method was still running when Cancel
\* was called (timer.go 77, runtime.go 376).
QuietAfterCancel ==
    teardown = "returned" /\ ~early =>
        /\ loops = {}
        /\ \A k \in Periodic : periodic[k].st = "off"

-----------------------------------------------------------------------------
(* Why these hold: what a goroutine in the middle of a set-up has in hand. *)

\* The timer it is about to install carries the id it will be installed under.
CallerNames ==
    \A g \in Goroutine : LET t == caller[g].slot IN
        t \in OneShot => oneShot[t] = NoTimer \/ oneShot[t].id = caller[g].id

\* The ticker it is about to start has not been started, by it or another.
CallerStarts ==
    /\ \A g \in Goroutine : caller[g].slot \in Periodic =>
         periodic[caller[g].slot].st = "starting"
    /\ \A g, h \in Goroutine :
         caller[g].slot \in Periodic /\ caller[g].slot = caller[h].slot => g = h
    /\ \A k \in Periodic : periodic[k].st = "starting" =>
         \E g \in Goroutine : caller[g].slot = k

\* It is an event loop the WaitGroup counts or the goroutine that runs the
\* Init methods, and these are over once Cancel is called, unless early.
CallerRuns ==
    /\ \A g \in Goroutine : caller[g] # NoCall => g \in loops \/ (g = Main /\ initialising)
    /\ teardown # "no" /\ ~early => ~initialising

\* The inductive invariant behind the three properties above.
IInv ==
    /\ TypeOK /\ ArmedIsTracked /\ TickerIsTracked /\ QuietAfterCancel
    /\ CallerNames /\ CallerStarts /\ CallerRuns

-----------------------------------------------------------------------------
\* A one-shot timer that is set up is stopped, delivered or given up, unless
\* its callback finds the channel full; after a Cancel not even a channel that
\* nobody reads any more holds it (timer.go 38-41).
TimerResolves ==
    \A t \in OneShot : (oneShot[t].st # "done") ~>
        \/ oneShot[t].st = "done"
        \/ ~cancelled /\ oneShot[t].st = "sending"
           /\ Len(timerChannel[oneShot[t].owner]) = TimerBuf

\* Cancel returns: ticker goroutines leave whichever select they are in, even
\* when the event loop that would read their tick has gone (timer.go 82-90).
CancelReturns == (teardown # "no") ~> (teardown = "returned")

=============================================================================
