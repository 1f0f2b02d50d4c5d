------------------------------- MODULE MCWire -------------------------------
EXTENDS WireProps

\* One struct has lost a field in the receiver's build, one has got one.
Sizes1 == [cut |-> 2, grown |-> 1]
Sizes2 == [cut |-> 1, grown |-> 2]
Ids == [cut |-> 1, grown |-> 4, gossip |-> 5, foreign |-> 2]

Msg(ty, n, b) == App([type |-> ty, id |-> n, payload |-> b])
Raw(b, why) == [kind |-> "raw", bytes |-> b, why |-> why]

\* Every codec, a port and an id that overflow, payloads of exactly
\* maxFrameSize, beyond it and beyond the length prefix.
WellFormed ==
    {Msg("cut", 6, <<>>), Msg("grown", 1, <<>>), Msg("gossip", 5, <<3, 0>>), Msg("foreign", 0, <<1>>),
     Hello([ip |-> <<3>>, port |-> 1]), Hello([ip |-> <<>>, port |-> 5]),
     Hello([ip |-> <<1, 1, 1, 1>>, port |-> 1]), Ack,
     Msg("gossip", 1, <<1, 1, 1, 1>>),
     Msg("gossip", 1, <<1, 1, 1, 1, 1, 1, 1, 1, 1, 1>>)}

\* What a peer of another build may send.
OtherBuild ==
    {Raw(<<>>, "header"), Raw(<<3>>, "layer"), Raw(<<1>>, "empty"), Raw(<<1, 3>>, "unknown handshake"),
     Raw(<<1, 1, 2, 0>>, "version"), Raw(<<1, 1, 1, 2, 3>>, "malformed")}

AllItems == WellFormed \cup OtherBuild

=============================================================================
