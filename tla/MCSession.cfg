\* One address that is dialled and one inbound connection, any transport.
CONSTANTS
    Nil = Nil
    Host = {b, e}
    Dial = {b}
    Hang = {b}
    Self = b
    Kinds = {"app", "hello", "version", "ack", "malformed", "unknown"}
    HelloOutcome = {"ok", "error"}
    OutBuf = 1
    EventsBuf = 1
    MsgsBuf = 1
    Cancels = TRUE
SPECIFICATION Spec
CONSTRAINT OneReport
INVARIANTS
    MapsAgree
    MappedIsUp
    
