\* A protocol that registers, subscribes, publishes to itself and sends, in
\* strict mode and without it; Cancel and Shutdown at any time.
\* Once it is cancelled the runtime stops for good.
CONSTANTS
    Nil = Nil
    Main = Main
    Dispatcher = Dispatcher
    User = User
    Signal = Signal
    p = p
    Protocols <- OneProtocol
    Id = {i}
    MailboxBuf = 1
    StrictModes = {TRUE, FALSE}
SPECIFICATION FairSpec
INVARIANTS
    QuietAfterCancel
    RoutedHasCodec
    NoMapRace
PROPERTIES
    CancelReturns
    
CHECK_DEADLOCK FALSE
