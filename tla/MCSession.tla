------------------------------ MODULE MCSession ------------------------------
EXTENDS SessionProps

\* The transport may report anything at any time, so letting at most one
\* report wait at a time loses no order in which the handler sees them; nor
\* are reports that come after a cancellation needed for the maps.
OneReport ==
    /\ Len(outEvents) + Len(outChannel) <= 1
    /\ sessionDone \/ transportDone => outEvents = <<>> /\ outChannel = <<>>

=============================================================================
