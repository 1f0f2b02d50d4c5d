-------------------------------- MODULE MCTcp --------------------------------
EXTENDS TcpProps, TLC

\* Connections differ in nothing but their identity.
Symmetry == Permutations(Conn)

=============================================================================
