-------------------------------- MODULE Layer --------------------------------
(***************************************************************************)
(* The transport Layer interface of pkg/transport/layer.go: the two        *)
(* channels a transport feeds (OutEvents, OutChannel) and the calls        *)
(* (Connect, Disconnect, Send) the session layer makes on it.              *)
(*                                                                         *)
(* A call is a rendezvous on an unbuffered channel with the transport's    *)
(* handler goroutine.  `request' is the call that goroutine is serving;    *)
(* while it is not Nil the next caller waits.                              *)
(*                                                                         *)
(* Payloads are abstracted to what the session layer tells apart: an       *)
(* application payload, a Hello of this version naming a host, a Hello of  *)
(* another version, an Ack, a handshake that does not parse, and a layer   *)
(* byte that is neither Application nor Session.                           *)
(***************************************************************************)
EXTENDS Naturals, Sequences

CONSTANTS
    Host,      \* addresses: of listening nodes and of inbound connections
    Nil,       \* "no host" / "no request"; also the zero Host{}
    OutBuf     \* capacity of the transport's two out channels

VARIABLES
    outEvents,      \* chan Event, read by the session layer
    outChannel,     \* chan Message, read by the session layer
    request,        \* the call the transport handler is serving, or Nil
    transportDone   \* the transport's context is cancelled

layerVars == <<outEvents, outChannel, request, transportDone>>

ASSUME LayerAssumption == Nil \notin Host /\ OutBuf \in Nat \ {0}

Kind == {"app", "hello", "version", "ack", "malformed", "unknown"}

EventOf(ty, h) == [type |-> ty, host |-> h]
Event == [type : {"Connected", "Disconnected", "Failed"}, host : Host]

\* A message as it crosses the interface: `host' is the transport host it
\* arrived from, `from' the logical host a Hello announces.
MessageOf(h, k, l) == [host |-> h, kind |-> k, from |-> l]
Message == [host : Host, kind : Kind, from : Host \cup {Nil}]

RequestOf(o, h, k, l) == [op |-> o, host |-> h, kind |-> k, from |-> l]
Request == [op : {"connect", "disconnect", "send"}, host : Host,
            kind : Kind, from : Host \cup {Nil}]

LayerTypeOK ==
    /\ outEvents \in Seq(Event) /\ Len(outEvents) <= OutBuf
    /\ outChannel \in Seq(Message) /\ Len(outChannel) <= OutBuf
    /\ request \in Request \cup {Nil}
    /\ transportDone \in BOOLEAN

LayerInit ==
    /\ outEvents = <<>>
    /\ outChannel = <<>>
    /\ request = Nil
    /\ transportDone = FALSE

=============================================================================
