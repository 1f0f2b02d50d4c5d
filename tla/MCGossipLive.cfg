\* A line of three nodes, no losses; one broadcast.
CONSTANTS
    a = a
    b = b
    c = c
    Nil = Nil
    Node = {a, b, c}
    Session <- Line
    Id = {i1}
    NotifyBuf = 1
    Loses = FALSE
SPECIFICATION FairSpec
PROPERTIES
    EveryoneDelivers
CHECK_DEADLOCK FALSE
