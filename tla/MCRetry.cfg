\* Two peers, one of them a contact, over a session layer that reports anything.
CONSTANTS
    Nil = Nil
    Main = Main
    p = p
    Protocols <- OneProtocol
    Host = {h, k}
    Contacts = {k}
    Dial = {h}
    Track = {h}
    Hang = {h, k}
    MaxAttempts = 2
    MaxTimers = 2
    MaxCallbacks = 2
    EventsBuf = 1
    ProtoBuf = 1
    Cancels = TRUE
SPECIFICATION Spec
INVARIANTS
    TimersOwned
    TrackedIsWanted
CHECK_DEADLOCK FALSE
