\* A protocol that uses one id from its event loop and from Init; two timers
\* of each sort, so that every replacement happens.  Cancel stops the runtime.
CONSTANTS
    Nil = Nil
    Main = Main
    Proto = {p}
    Id = {i}
    OneShot = {s1, s2}
    Periodic = {k1, k2}
    TimerBuf = 1
SPECIFICATION FairSpec
INVARIANTS
    ArmedIsTracked
    TickerIsTracked
    QuietAfterCancel
PROPERTIES
    TimerResolves
    CancelReturns
CHECK_DEADLOCK FALSE
