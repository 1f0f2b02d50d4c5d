------------------------------ MODULE MCGossip ------------------------------
(***************************************************************************)
(* Instances of the gossip program for TLC.                                *)
(***************************************************************************)
EXTENDS GossipProps

CONSTANTS a, b, c

\* A line of three; a dials b again after a loss.
Line == {<<a, b, 1>>, <<c, b, 1>>}
Redialled == {<<a, b, 1>>, <<a, b, 2>>}

=============================================================================
