------------------------------ MODULE Transport ------------------------------
(***************************************************************************)
(* What a transport promises to the layer above it, whatever its           *)
(* connections and goroutines are: it serves one call at a time, and every *)
(* Connect it takes is answered by a Connected or a Failed for the host    *)
(* before the next call is taken.  It reports Connected of its own accord  *)
(* only for inbound connections, and Disconnected and Failed at any time.  *)
(* TCPLayer implements it (TcpProps); Stack is built on it.                *)
(***************************************************************************)
EXTENDS Layer

CONSTANT Inbound    \* remote addresses of inbound connections

VARIABLE owed       \* the call being served is a Connect not yet answered

transportVars == <<layerVars, owed>>

Init == LayerInit /\ owed = FALSE

Report(e) ==
    /\ Len(outEvents) < OutBuf
    /\ outEvents' = Append(outEvents, e)
    /\ UNCHANGED <<outChannel, request, transportDone>>

\* The end of net.Dial.
Answer ==
    /\ owed /\ owed' = FALSE
    /\ \E ty \in {"Connected", "Failed"} : Report(EventOf(ty, request.host))

Serve ==
    /\ request # Nil /\ ~owed
    /\ request' = Nil
    /\ UNCHANGED <<outEvents, outChannel, transportDone, owed>>

\* What the readers, the listener and a failed write report.
Notice ==
    /\ \E e \in Event : (e.type = "Connected" => e.host \in Inbound) /\ Report(e)
    /\ UNCHANGED owed

Receive ==
    /\ Len(outChannel) < OutBuf
    /\ \E m \in Message : outChannel' = Append(outChannel, m)
    /\ UNCHANGED <<outEvents, request, transportDone, owed>>

\* The transport's context is cancelled.
Stop ==
    /\ ~transportDone /\ transportDone' = TRUE
    /\ UNCHANGED <<outEvents, outChannel, request, owed>>

\* The layer above calls and reads.
Take ==
    /\ request = Nil /\ request' \in Request
    /\ owed' = (request'.op = "connect")
    /\ UNCHANGED <<outEvents, outChannel, transportDone>>

Read ==
    /\ \/ outEvents # <<>> /\ outEvents' = Tail(outEvents) /\ UNCHANGED outChannel
       \/ outChannel # <<>> /\ outChannel' = Tail(outChannel) /\ UNCHANGED outEvents
    /\ UNCHANGED <<request, transportDone, owed>>

Next == Answer \/ Serve \/ Notice \/ Receive \/ Stop \/ Take \/ Read

Spec == Init /\ [][Next]_transportVars

=============================================================================
