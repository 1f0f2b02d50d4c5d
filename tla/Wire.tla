--------------------------------- MODULE Wire ---------------------------------
(***************************************************************************)
(* What a message becomes on its way from one node to another: the codec   *)
(* and the wire id (message.go, codec.go), the handshake payloads and the  *)
(* layer byte (session.go, host.go), the length-prefixed frame (tcp.go),   *)
(* the byte stream, cut into reads anywhere, and all of it undone in turn. *)
(*                                                                         *)
(* A byte is a digit of Base, and the widths of the integer fields are     *)
(* parameters, so that every field can overflow on a small instance.       *)
(***************************************************************************)
EXTENDS Naturals, Sequences

CONSTANTS
    Base,       \* 256
    LenWidth,   \* bytes of a frame's length prefix: 4
    IdWidth,    \* bytes of a wire id: 8
    CountWidth, \* bytes of the length that wire.WriteBytes writes: 4
    FieldWidth, \* bytes of a host's length and of its port: 2
    MaxFrame,   \* maxFrameSize
    ReadMax,    \* size of the reader's buffer: 4096
    Struct,     \* message types that BinaryCodec encodes
    SendWidth,  \* [Struct -> size in the sender's build] ...
    RecvWidth,  \* ... and in the receiver's
    WireID,     \* [type -> wireIDOf a message of the type]
    Items,      \* what the sender may send
    MaxItems    \* bound on how much of it

VARIABLES
    sent,       \* what was written to the connection, in order
    writer,     \* the sender's end of the connection: "open", "closed"
    stream,     \* bytes written and not yet read
    recvBuf,    \* bytes read and not yet consumed by decodeFrames
    frames,     \* payloads handed up and not yet dispatched
    reader,     \* the receiver's connectionHandler: "reading", "failed"
    received    \* what the receiver made of them, in order

vars == <<sent, writer, stream, recvBuf, frames, reader, received>>

Byte == 0 .. (Base - 1)

Power[n \in Nat] == IF n = 0 THEN 1 ELSE Base * Power[n - 1]

ASSUME WireAssumption ==
    /\ {Base, LenWidth, IdWidth, CountWidth, FieldWidth, ReadMax} \subseteq Nat \ {0}
    /\ Base > 2 /\ LenWidth <= CountWidth /\ MaxFrame \in 1 .. (Power[LenWidth] - 1)
    /\ SendWidth \in [Struct -> Nat] /\ RecvWidth \in [Struct -> Nat] /\ MaxItems \in Nat
    /\ Struct \cap {"gossip", "foreign"} = {}
    /\ WireID \in [Struct \cup {"gossip", "foreign"} -> 0 .. (Power[IdWidth] - 1)]
    /\ \A s, t \in DOMAIN WireID : WireID[s] = WireID[t] => s = t

-----------------------------------------------------------------------------
(* Integers and byte strings.                                              *)

\* Conversion to an unsigned integer of w bytes keeps the low bytes.
Uint(v, w) == v % Power[w]

\* Mistake: a byte of the integer is not masked.
LittleEndianUnmasked(v, w) == [i \in 1..w |-> Uint(v, w) \div Power[i - 1]]
LittleEndian(v, w) == [i \in 1..w |-> (Uint(v, w) \div Power[i - 1]) % Base]
BigEndian(v, w) == [i \in 1..w |-> (Uint(v, w) \div Power[w - i]) % Base]

\* The integers that bytes s stand for.
FromLittle(s) ==
    LET sum[i \in 0..Len(s)] == IF i = 0 THEN 0 ELSE sum[i - 1] + s[i] * Power[i - 1]
    IN sum[Len(s)]
FromBig(s) ==
    LET sum[i \in 0..Len(s)] == IF i = 0 THEN 0 ELSE sum[i - 1] * Base + s[i]
    IN sum[Len(s)]

\* buf.Next(n) returns what there is of n bytes.
First(s, n) == SubSeq(s, 1, IF n <= Len(s) THEN n ELSE Len(s))
After(s, n) == SubSeq(s, n + 1, Len(s))

\* Reading n bytes of s fails if there are fewer (io.ReadFull, binary.Read).
Fits(s, n) == n <= Len(s)

WriteBytes(b) == LittleEndian(Len(b), CountWidth) \o b
ReadBytesLen(s) == FromLittle(First(s, CountWidth))
ReadBytesOK(s) == Fits(s, CountWidth) /\ Fits(After(s, CountWidth), ReadBytesLen(s))
ReadBytes(s) == First(After(s, CountWidth), ReadBytesLen(s))

WriteHostOK(h) == Len(h.ip) < Power[FieldWidth]
WriteHost(h) == LittleEndian(Len(h.ip), FieldWidth) \o h.ip \o LittleEndian(h.port, FieldWidth)
HostLen(s) == FromLittle(First(s, FieldWidth))
ReadHostOK(s) == Fits(s, FieldWidth) /\ Fits(After(s, FieldWidth), HostLen(s) + FieldWidth)
ReadHost(s) ==
    [ip |-> First(After(s, FieldWidth), HostLen(s)),
     port |-> FromLittle(First(After(s, FieldWidth + HostLen(s)), FieldWidth))]

-----------------------------------------------------------------------------
(* Messages.  A type of Struct is encoded field by field by BinaryCodec,   *)
(* "gossip" is the gossip program's Message with a codec of its own, and   *)
(* the receiver has no codec for "foreign".  wireIDOf is a hash of the     *)
(* type's name; the types are assumed to have different hashes.            *)

Registered == Struct \cup {"gossip"}
TypeOf(id) == {ty \in Registered : WireID[ty] = id}

\* Both codecs leave what follows the last field unread.
BinaryMarshal(m) == LittleEndian(m.id, SendWidth[m.type])
BinaryUnmarshal(ty, s) ==
    [type |-> ty, id |-> FromLittle(First(s, RecvWidth[ty])), payload |-> <<>>]

GossipMarshal(m) == LittleEndian(m.id, IdWidth) \o WriteBytes(m.payload)
GossipUnmarshal(s) ==
    [type |-> "gossip", id |-> FromLittle(First(s, IdWidth)),
     payload |-> ReadBytes(After(s, IdWidth))]

marshal(m) ==
    CASE m.type \in Struct -> BinaryMarshal(m)
      [] m.type = "gossip" -> GossipMarshal(m)
      [] m.type = "foreign" -> m.payload

unmarshalOK(ty, s) ==
    CASE ty \in Struct -> Fits(s, RecvWidth[ty])
      [] ty = "gossip" -> Fits(s, IdWidth) /\ ReadBytesOK(After(s, IdWidth))

unmarshal(ty, s) == IF ty = "gossip" THEN GossipUnmarshal(s) ELSE BinaryUnmarshal(ty, s)

\* What is sent, and what becomes of it.
App(m) == [kind |-> "app", msg |-> m]
Hello(h) == [kind |-> "hello", msg |-> h]
Ack == [kind |-> "ack", msg |-> "none"]
Dropped(why) == [kind |-> "dropped", msg |-> why]

\* A message of Struct is one integer.  "raw" is the payload of a peer of
\* another build.
ASSUME ItemsAssumption ==
    \A i \in Items :
        \/ /\ i.kind = "app"
           /\ i \in [kind : {"app"}, msg : [type : DOMAIN WireID, id : Nat, payload : Seq(Byte)]]
           /\ i.msg.type \in Struct => i.msg.payload = <<>>
        \/ i.kind = "hello" /\ i \in [kind : {"hello"}, msg : [ip : Seq(Byte), port : Nat]]
        \/ i.kind = "ack" /\ i = Ack
        \/ i.kind = "raw" /\ i.bytes \in Seq(Byte)

-----------------------------------------------------------------------------
(* The session layer's payloads.                                           *)

Application == 0
SessionLayer == 1
HandshakeHello == 1
HandshakeAck == 2
ProtocolVersion == 1

encodeHello(h) == <<HandshakeHello, ProtocolVersion>> \o WriteHost(h)
encodeAck == <<HandshakeAck>>
serializeMessage(layer, body) == <<layer>> \o body

\* sendMessage, handleConnected and handleServerHello, up to transport.Send.
Payload(i) ==
    CASE i.kind = "app"   -> serializeMessage(Application,
                                 LittleEndian(WireID[i.msg.type], IdWidth) \o marshal(i.msg))
      [] i.kind = "hello" -> serializeMessage(SessionLayer, encodeHello(i.msg))
      [] i.kind = "ack"   -> serializeMessage(SessionLayer, encodeAck)
      [] i.kind = "raw"   -> i.bytes

parseHandshakePayload(s) ==
    CASE s = <<>> -> Dropped("empty")
      [] s # <<>> /\ Head(s) = HandshakeAck -> Ack
      [] s # <<>> /\ Head(s) = HandshakeHello ->
           (IF Len(s) < 2 THEN Dropped("malformed")
            ELSE IF s[2] # ProtocolVersion THEN Dropped("version")
            ELSE IF ~ReadHostOK(After(s, 2)) THEN Dropped("malformed")
            ELSE Hello(ReadHost(After(s, 2))))
      [] OTHER -> Dropped("unknown handshake")

processMessage(s) ==
    LET id == FromLittle(First(s, IdWidth))
        body == After(s, IdWidth)
    IN IF ~Fits(s, IdWidth) THEN Dropped("header")
       ELSE IF TypeOf(id) = {} THEN Dropped("unknown id")
       ELSE LET ty == CHOOSE t \in TypeOf(id) : TRUE
            IN IF unmarshalOK(ty, body) THEN App(unmarshal(ty, body)) ELSE Dropped("decode")

\* deserializeMessage and transportMessageHandler: an empty payload counts
\* as an application message.
dispatch(s) ==
    CASE s = <<>> -> processMessage(s)
      [] s # <<>> /\ Head(s) = Application -> processMessage(Tail(s))
      [] s # <<>> /\ Head(s) = SessionLayer -> parseHandshakePayload(Tail(s))
      [] OTHER -> Dropped("layer")

-----------------------------------------------------------------------------
(* Frames.                                                                 *)

encodeFrameOK(payload) == Len(payload) < Power[LenWidth]
encodeFrame(payload) == BigEndian(Len(payload), LenWidth) \o payload

FrameLen(buf) == FromBig(First(buf, LenWidth))

\* Mistake: a frame of exactly maxFrameSize is refused.
OversizedAtLimit(buf) == Fits(buf, LenWidth) /\ FrameLen(buf) >= MaxFrame
Oversized(buf) == Fits(buf, LenWidth) /\ FrameLen(buf) > MaxFrame

\* Mistake: the frame's end is compared without the length prefix.
CompleteEarly(buf) == Fits(buf, LenWidth) /\ Fits(buf, FrameLen(buf))
Complete(buf) == Fits(buf, LenWidth) /\ Fits(buf, LenWidth + FrameLen(buf))

Decoded(fs, rest, err) == [frames |-> fs, rest |-> rest, err |-> err]
FirstFrame(buf) == First(After(buf, LenWidth), FrameLen(buf))
AfterFrame(buf) == After(buf, LenWidth + FrameLen(buf))

\* Mistake: one frame is decoded per read.
decodeOneFrame(buf) ==
    IF Oversized(buf) THEN Decoded(<<>>, buf, TRUE)
    ELSE IF Complete(buf) THEN Decoded(<<FirstFrame(buf)>>, AfterFrame(buf), FALSE)
    ELSE Decoded(<<>>, buf, FALSE)

\* Mistake: the frames are not taken out of the buffer.
decodeFramesInPlace(buf) ==
    IF Oversized(buf) THEN Decoded(<<>>, buf, TRUE)
    ELSE Decoded(IF Complete(buf) THEN <<FirstFrame(buf)>> ELSE <<>>, buf, FALSE)

\* All complete frames, unless one of them is too long: then none.  decode[m]
\* is what the loop makes of the last m bytes.
decodeFrames(buf) ==
    LET decode[m \in 0..Len(buf)] ==
          LET b == After(buf, Len(buf) - m) IN
          IF Oversized(b) THEN Decoded(<<>>, b, TRUE)
          ELSE IF ~Complete(b) THEN Decoded(<<>>, b, FALSE)
          ELSE LET d == decode[Len(AfterFrame(b))]
               IN [d EXCEPT !.frames = IF d.err THEN <<>> ELSE <<FirstFrame(b)>> \o @]
    IN decode[Len(buf)]

-----------------------------------------------------------------------------
(* The connection.                                                         *)

\* The bytes of a hello that cannot be encoded are never sent.
Encodes(i) == i.kind = "hello" => WriteHostOK(i.msg)

Init ==
    /\ sent = <<>> /\ writer = "open"
    /\ stream = <<>> /\ recvBuf = <<>> /\ frames = <<>>
    /\ reader = "reading" /\ received = <<>>

\* TCPLayer.send; a payload too long for the prefix closes the connection.
send(i) ==
    /\ writer = "open" /\ Len(sent) < MaxItems /\ Encodes(i)
    /\ \/ /\ encodeFrameOK(Payload(i))
          /\ stream' = stream \o encodeFrame(Payload(i))
          /\ sent' = Append(sent, i)
          /\ UNCHANGED writer
       \/ /\ ~encodeFrameOK(Payload(i))
          /\ writer' = "closed"
          /\ UNCHANGED <<stream, sent>>
    /\ UNCHANGED <<recvBuf, frames, reader, received>>

\* One conn.Read returns any number of the bytes that have arrived; a
\* decoding error ends the reader.
readFrames(n) ==
    /\ reader = "reading" /\ n <= Len(stream)
    /\ stream' = After(stream, n)
    /\ \E d \in {decodeFrames(recvBuf \o First(stream, n))} :
         /\ recvBuf' = d.rest
         /\ frames' = frames \o d.frames
         /\ reader' = IF d.err THEN "failed" ELSE reader
    /\ UNCHANGED <<sent, writer, received>>

\* The session layer and the runtime take the next payload.
deliver ==
    /\ frames # <<>>
    /\ received' = Append(received, dispatch(Head(frames)))
    /\ frames' = Tail(frames)
    /\ UNCHANGED <<sent, writer, stream, recvBuf, reader>>

Next ==
    \/ \E i \in Items : send(i)
    \/ \E n \in 1..ReadMax : readFrames(n)
    \/ deliver

Spec == Init /\ [][Next]_vars

\* Bytes that have arrived are read, and payloads taken.
FairSpec ==
    Spec /\ WF_vars(\E n \in 1..ReadMax : readFrames(n)) /\ WF_vars(deliver)

=============================================================================
