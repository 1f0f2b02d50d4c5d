---------------------------- MODULE MCLifecycle ----------------------------
EXTENDS LifecycleProps

CONSTANT p
OneProtocol == <<p>>

=============================================================================
