\* A peer that dials again after a loss; one broadcast.
CONSTANTS
    a = a
    b = b
    c = c
    Nil = Nil
    Node = {a, b}
    Session <- Redialled
    Id = {i1}
    NotifyBuf = 1
    Loses = TRUE
SPECIFICATION Spec
INVARIANTS
    DeliveredOnce
    
    DiallerExcludesSender
PROPERTIES
    CacheKept
CHECK_DEADLOCK FALSE
