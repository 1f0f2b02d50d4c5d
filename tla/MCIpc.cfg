\* Two protocols that both issue a request, which one of them may own; every
\* mailbox holds one envelope, so that every send may block.  With mailboxes
\* this small two protocols can block each other for good.
CONSTANTS
    Nil = Nil
    Main = Main
    Proto = {p, q}
    Type = {ty}
    MailboxBuf = 1
    MaxRequests = 1
    Requester = {p, q}
    Initialiser = {p}
    Cancels = FALSE
SPECIFICATION Spec
INVARIANTS
    PanicReportedFirst
    CompletionOnTheWay
PROPERTIES
    Implements
CHECK_DEADLOCK FALSE
