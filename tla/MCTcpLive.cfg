\* One peer, dialled and dialling; the layer may be cancelled, and then stops.
CONSTANTS
    Nil = Nil
    Host = {b}
    Conn = {c1, c2}
    Inbound = {b}
    Kinds = {}
    Calls = {"connect"}
    MaxBatch = 1
    OutBuf = 1
    CancelsTcp = TRUE
SPECIFICATION FairSpec
PROPERTIES
    DeadConnectionDropped
    
CHECK_DEADLOCK FALSE
