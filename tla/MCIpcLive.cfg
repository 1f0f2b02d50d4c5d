\* One request, with room for its reply and its timeout, and cancellation,
\* after which the runtime stops for good.
CONSTANTS
    Nil = Nil
    Main = Main
    Proto = {p, q}
    Type = {ty}
    MailboxBuf = 2
    MaxRequests = 1
    Requester = {p}
    Initialiser = {p}
    Cancels = TRUE
SPECIFICATION FairSpec
PROPERTIES
    RequestCompletes
CHECK_DEADLOCK FALSE
