------------------------------- MODULE MCStack -------------------------------
EXTENDS StackProps

CONSTANT p
OneProtocol == <<p>>

=============================================================================
