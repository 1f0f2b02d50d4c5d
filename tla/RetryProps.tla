----------------------------- MODULE RetryProps -----------------------------
(***************************************************************************)
(* What ConnectWithRetry, Disconnect and the backoff timers promise.       *)
(***************************************************************************)
EXTENDS Retry

\* A backoff timer that can still fire is the timer of a table entry, so each
\* peer has at most one, and Disconnect, success, giving up and Cancel all
\* find the timer they have to stop (retry.go 110-113, 134-137, 174-178).
TimersOwned ==
    \A a \in armed : connectionRetries[a[1]].tracked /\ connectionRetries[a[1]].timer = a[2]

\* A peer is in the retry table only while a protocol wants it: neither a
\* Disconnect nor giving up leaves an entry for a fired timer to find
\* (retry.go 152-158, 169-180).
TrackedIsWanted == \A h \in Host : connectionRetries[h].tracked => h \in wanted

=============================================================================
