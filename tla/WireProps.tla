------------------------------ MODULE WireProps ------------------------------
(***************************************************************************)
(* What crosses the wire, against what was sent, message by message.       *)
(***************************************************************************)
EXTENDS Wire

Bytes == Seq(Byte)

\* The reader never hands up more than was sent.
TypeOK ==
    /\ sent \in Seq(Items) /\ Len(sent) <= MaxItems
    /\ writer \in {"open", "closed"} /\ reader \in {"reading", "failed"}
    /\ stream \in Bytes /\ recvBuf \in Bytes /\ frames \in Seq(Bytes)
    /\ Len(received) + Len(frames) <= Len(sent)

\* What the receiver is to make of item i.  Of integers it keeps what fits
\* the field; a fixed-size message of a build in which it is shorter cannot
\* be decoded, and of one in which it is longer the low bytes are.
Meaning(i) ==
    CASE i.kind = "ack"   -> Ack
      [] i.kind = "raw"   -> Dropped(i.why)
      [] i.kind = "hello" -> Hello([i.msg EXCEPT !.port = Uint(@, FieldWidth)])
      [] i.kind = "app" /\ i.msg.type = "foreign" -> Dropped("unknown id")
      [] i.kind = "app" /\ i.msg.type = "gossip" ->
           App([i.msg EXCEPT !.id = Uint(@, IdWidth)])
      [] i.kind = "app" /\ i.msg.type \in Struct ->
           IF SendWidth[i.msg.type] < RecvWidth[i.msg.type] THEN Dropped("decode")
           ELSE App([i.msg EXCEPT !.id = Uint(@, RecvWidth[i.msg.type])])

\* The payloads of another build are given with the reason to drop them.
ASSUME RawAssumption ==
    \A i \in Items : i.kind = "raw" => dispatch(i.bytes) = Dropped(i.why)

Meanings(s) == [k \in DOMAIN s |-> Meaning(s[k])]

\* However the stream is cut into reads, what the receiver has got, or will
\* have got once it has dispatched the frames it holds, is the beginning of
\* what was sent, every item with its meaning (tcp.go 53-97, session.go
\* 384-441, 685-712, host.go 32-66, message.go 40-76, runtime.go 484-542).
PrefixDelivered ==
    \E n \in 0..Len(sent) :
        received \o [k \in DOMAIN frames |-> dispatch(frames[k])] = SubSeq(Meanings(sent), 1, n)

\* The sequences of seqs, one after the other.
Joined(seqs) ==
    LET join[n \in 0..Len(seqs)] == IF n = 0 THEN <<>> ELSE join[n - 1] \o seqs[n]
    IN join[Len(seqs)]

\* As long as the reader has not failed, the bytes it has yet to decode are
\* the frames of the items not yet handed up, and nothing else: no byte is
\* lost, consumed twice or taken for another frame's.
BytesAccounted ==
    reader = "reading" =>
        LET handed == Len(received) + Len(frames)
            rest == [k \in 1..(Len(sent) - handed) |-> encodeFrame(Payload(sent[handed + k]))]
        IN recvBuf \o stream = Joined(rest)

\* The reader fails only on a frame that really is longer than maxFrameSize,
\* which encodeFrame lets the sender write (tcp.go 53-57, 78-80).
OversizeOnly ==
    reader = "failed" => \E k \in DOMAIN sent : Len(Payload(sent[k])) > MaxFrame

\* Everything sent is dispatched in the end, unless the reader fails: no
\* complete frame waits in the buffer for the next read.
AllDelivered ==
    \A k \in 1..MaxItems : (Len(sent) >= k) ~> (Len(received) >= k \/ reader = "failed")

=============================================================================
