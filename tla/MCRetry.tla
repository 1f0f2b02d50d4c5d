------------------------------ MODULE MCRetry ------------------------------
EXTENDS RetryProps

CONSTANT p
OneProtocol == <<p>>

=============================================================================
