\* One peer, dialled at start, that the protocol may disconnect; one loss, two
\* attempts, channels of one element.  A cancelled runtime stops for good.
CONSTANTS
    Nil = Nil
    Main = Main
    p = p
    Protocols <- OneProtocol
    Host = {h}
    Contacts = {h}
    Dial = {}
    Track = {}
    Hang = {h}
    MaxAttempts = 2
    MaxTimers = 1
    MaxCallbacks = 1
    EventsBuf = 1
    ProtoBuf = 1
    Cancels = TRUE
    Self = h
    OutBuf = 1
    MaxLost = 1
SPECIFICATION FairStack
INVARIANTS
    RetryUnderWay
PROPERTIES
    RetryResolves
    
    
CHECK_DEADLOCK FALSE
