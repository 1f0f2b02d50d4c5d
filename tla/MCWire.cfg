\* Digits of base 4: frames of at most 9 of the 15 bytes a prefix can announce.
CONSTANTS
    Base = 4
    LenWidth = 2
    IdWidth = 2
    CountWidth = 2
    FieldWidth = 1
    MaxFrame = 9
    ReadMax = 6
    Struct = {"cut", "grown"}
    SendWidth <- Sizes1
    RecvWidth <- Sizes2
    WireID <- Ids
    MaxItems = 3
    Items <- AllItems
SPECIFICATION FairSpec
INVARIANTS
    TypeOK
    PrefixDelivered
    BytesAccounted
    OversizeOnly
PROPERTIES
    AllDelivered
CHECK_DEADLOCK FALSE
