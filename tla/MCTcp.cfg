\* One listening peer and one inbound address; channels of one element.
CONSTANTS
    Nil = Nil
    Host = {b, e}
    Conn = {c1, c2}
    Inbound = {e}
    Kinds = {"app"}
    Calls = {"connect", "disconnect", "send"}
    MaxBatch = 1
    OutBuf = 1
    CancelsTcp = FALSE
SPECIFICATION Spec
SYMMETRY Symmetry
PROPERTIES
    ImplementsTransport
INVARIANTS
    ActiveUsable
    ActiveIsRead
