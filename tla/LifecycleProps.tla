--------------------------- MODULE LifecycleProps ---------------------------
(***************************************************************************)
(* What start, Cancel, Shutdown and strict mode promise.                   *)
(***************************************************************************)
EXTENDS Lifecycle

Running(p) == loop[p] \in {"select", "handler", "stuck"}

\* When a Cancel has returned, no goroutine the runtime launched runs and none
\* is launched any more, unless start was still running when Cancel marked the
\* protocols or cancelled the context (runtime.go 342-378, "5. Wait for all
\* goroutines to finish").
QuietAfterCancel ==
    (\E c \in Callers : canceller[c] = "returned") /\ ~early =>
        /\ \A p \in Proto : ~Running(p)
        /\ pump # "on" /\ dispatcher # "on"

\* The routing table names a protocol only once that protocol has the codec,
\* so the "codec lookup raced" branches of sendMessage and processMessage are
\* never taken (protocol.go 299-304, message.go 48-51, runtime.go 508-516).
RoutedHasCodec == \A i \in Id : lookup[i] # Nil => i \in codecs[lookup[i]]

Accesses(g, op, o) ==
    Doing(g, op) /\ Head(todo[g]).map = o.map /\ Head(todo[g]).proto = o.proto

\* In strict mode no goroutine is about to access a protocol's own codec or
\* handler map, neither of which has a lock, while another is about to write
\* it (protocol.go 299, 314, 408; message.go 48; runtime.go 508), unless start
\* was still running when Cancel was called: marking a protocol cancelled lets
\* its handlers send while another one registers.
NoMapRace ==
    strict /\ ~early =>
        \A g, h \in Goroutine : g # h /\ Doing(g, "write") =>
            LET o == Head(todo[g]) IN
            ~Accesses(h, "write", o) /\ ~Accesses(h, "read", o)

Cancelling(c) == canceller[c] \in {"marking", "waiting"}

\* Every Cancel returns unless a handler never does: no goroutine of the
\* runtime stays blocked on a mailbox, and the WaitGroup counts no goroutine
\* that was never launched, not even when a Start or an Init has panicked
\* (protocol.go 213-216, runtime.go 376).
CancelReturns ==
    (\E c \in Callers : Cancelling(c))
        ~> ((\A c \in Callers : ~Cancelling(c)) \/ \E p \in Proto : loop[p] = "stuck")

\* Shutdown returns even when a handler never does (shutdown.go 20-23).
ShutdownReturns == (shutdown = "waiting") ~> (shutdown \in {"nil", "timeout"})

=============================================================================
