------------------------------ MODULE MCTimers ------------------------------
EXTENDS TimersProps

=============================================================================
