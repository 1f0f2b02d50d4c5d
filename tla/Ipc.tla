--------------------------------- MODULE Ipc ---------------------------------
(***************************************************************************)
(* Requests and replies between the protocols of one runtime               *)
(* (pkg/protorun: ipc.go, ipc_router.go, the IPC part of runtime.go and    *)
(* the event loop of protocol.go).                                         *)
(*                                                                         *)
(* Every protocol has an event loop; the goroutine that called Run also    *)
(* runs user code, the Init methods, while the loops are already live.  A  *)
(* call these goroutines block in is in `blocked'.  Goroutines that only   *)
(* deliver a reply (an armed timeout, a captured responder used off the    *)
(* event loops) are in `detached' until they have delivered it.            *)
(***************************************************************************)
EXTENDS Naturals, Sequences

CONSTANTS
    Proto,        \* the registered protocols
    Type,         \* request types (wire ids)
    Main,         \* the goroutine that runs the Init methods
    Nil,
    MailboxBuf,   \* capacity of a protocol's channels
    MaxRequests,  \* bound on the requests a protocol issues
    Requester,    \* the protocols that issue requests
    Initialiser,  \* the protocols whose Init uses the context
    Cancels       \* whether the runtime may be cancelled

VARIABLES
    route,          \* requestRoutes: [Type -> Proto or Nil]
    nextRequestID,  \* [Proto -> Nat]
    pending,        \* the pending maps, as a set of tokens
    requestEvents,  \* [Proto -> chan inboundRequest]
    replyEvents,    \* [Proto -> chan inboundReply]
    phase,          \* what an event loop executes
    serving,        \* the token of the request being handled, or Nil
    open,           \* tokens whose responder has not been used (done = false)
    blocked,        \* [goroutine -> the channel send it is in]
    detached,       \* replies other goroutines have yet to deliver
    initOf,         \* the protocol whose Init is running, or Nil
    toInit,         \* protocols whose Init has not run
    cancelled,      \* the runtime context
    stopped,        \* event loops that have returned
    answer, reported, result,  \* see RequestReply: answers, OnPanic calls, callbacks
    routed          \* history: requests for which a handler was found

tables == <<route, nextRequestID, pending, routed>>
channels == <<requestEvents, replyEvents>>
loops == <<phase, serving, stopped>>
promises == <<answer, reported, result>>
inits == <<initOf, toInit>>
vars == <<tables, channels, loops, promises, inits, open, blocked, detached, cancelled>>

Result == {"reply", "failed", "panicked", "timeout", "noHandler"}

ASSUME IpcAssumption ==
    /\ Main \notin Proto /\ Nil \notin Proto \cup {Main} \cup Result
    /\ MailboxBuf \in Nat \ {0} /\ MaxRequests \in Nat
    /\ Requester \subseteq Proto /\ Initialiser \subseteq Proto /\ Cancels \in BOOLEAN

Goroutine == Proto \cup {Main}

\* replyToken
TokenOf(p, n) == [requester |-> p, requestID |-> n]
Token == [requester : Proto, requestID : 1..MaxRequests]
ReplyOf(tok, x) == [token |-> tok, result |-> x]
InboundReply == [token : Token, result : Result]

\* The channel send a goroutine is in.
NoSend == [kind |-> "none", to |-> Nil, token |-> Nil, result |-> Nil]
RequestTo(p, tok) == [kind |-> "request", to |-> p, token |-> tok, result |-> Nil]
ReplyWith(tok, x) == [kind |-> "reply", to |-> Nil, token |-> tok, result |-> x]
ChannelSend ==
    [kind : {"none"}, to : {Nil}, token : {Nil}, result : {Nil}]
    \cup [kind : {"request"}, to : Proto, token : Token, result : {Nil}]
    \cup [kind : {"reply"}, to : {Nil}, token : Token, result : Result]

TypeOK ==
    /\ route \in [Type -> Proto \cup {Nil}]
    /\ nextRequestID \in [Proto -> 0..MaxRequests]
    /\ pending \subseteq Token /\ routed \subseteq Token
    /\ requestEvents \in [Proto -> Seq(Token)]
    /\ replyEvents \in [Proto -> Seq(InboundReply)]
    /\ \A p \in Proto : Len(requestEvents[p]) <= MailboxBuf /\ Len(replyEvents[p]) <= MailboxBuf
    /\ phase \in [Proto -> {"select", "request", "callback", "fail"}]
    /\ serving \in [Proto -> Token \cup {Nil}]
    /\ open \subseteq Token
    /\ blocked \in [Goroutine -> ChannelSend]
    /\ detached \subseteq InboundReply
    /\ initOf \in Proto \cup {Nil} /\ toInit \subseteq Proto
    /\ cancelled \in BOOLEAN /\ stopped \subseteq Proto
    /\ answer \in [Token -> Result \cup {Nil}]
    /\ reported \subseteq Token
    /\ result \in [Token -> Result \cup {Nil}]

\* The state startProtocols leaves: handlers registered, event loops live.
Init ==
    /\ route \in [Type -> Proto \cup {Nil}]
    /\ nextRequestID = [p \in Proto |-> 0]
    /\ pending = {} /\ routed = {}
    /\ requestEvents = [p \in Proto |-> <<>>]
    /\ replyEvents = [p \in Proto |-> <<>>]
    /\ phase = [p \in Proto |-> "select"]
    /\ serving = [p \in Proto |-> Nil]
    /\ open = {}
    /\ blocked = [g \in Goroutine |-> NoSend]
    /\ detached = {}
    /\ initOf = Nil /\ toInit = Initialiser
    /\ cancelled = FALSE /\ stopped = {}
    /\ answer = [t \in Token |-> Nil]
    /\ reported = {}
    /\ result = [t \in Token |-> Nil]

-----------------------------------------------------------------------------
(* User code: handlers and callbacks on the event loops, Init on Main.     *)

InUserCode(g, p) ==
    /\ blocked[g] = NoSend
    /\ \/ g = p /\ phase[p] \in {"request", "callback"}
       \/ g = Main /\ initOf = p

\* The last registration wins; envelopes already sent keep their handler.
registerRequestHandler(g, p, ty) ==
    /\ InUserCode(g, p)
    /\ route' = [route EXCEPT ![ty] = p]
    /\ UNCHANGED <<nextRequestID, pending, routed, channels, loops, promises, inits,
                   open, blocked, detached, cancelled>>

\* Mistake: no timeout is armed.
sendRequestNoTimeout(g, p, ty) ==
    /\ InUserCode(g, p)
    /\ p \in Requester /\ nextRequestID[p] < MaxRequests /\ route[ty] # Nil
    /\ nextRequestID' = [nextRequestID EXCEPT ![p] = @ + 1]
    /\ LET tok == TokenOf(p, nextRequestID[p] + 1) IN
         /\ pending' = pending \cup {tok}
         /\ routed' = routed \cup {tok}
         /\ blocked' = [blocked EXCEPT ![g] = RequestTo(route[ty], tok)]
    /\ UNCHANGED <<route, channels, loops, promises, inits, open, detached, cancelled>>

\* The pending entry comes first, then the route is looked up and either the
\* error is delivered or the timeout armed and the request sent.
sendRequest(g, p, ty) ==
    /\ InUserCode(g, p)
    /\ p \in Requester /\ nextRequestID[p] < MaxRequests
    /\ nextRequestID' = [nextRequestID EXCEPT ![p] = @ + 1]
    /\ LET tok == TokenOf(p, nextRequestID[p] + 1) IN
         /\ pending' = pending \cup {tok}
         /\ \/ /\ route[ty] = Nil
               /\ blocked' = [blocked EXCEPT ![g] = ReplyWith(tok, "noHandler")]
               /\ UNCHANGED <<routed, detached>>
            \/ /\ route[ty] # Nil
               /\ routed' = routed \cup {tok}
               /\ detached' = detached \cup {ReplyOf(tok, "timeout")}
               /\ blocked' = [blocked EXCEPT ![g] = RequestTo(route[ty], tok)]
    /\ UNCHANGED <<route, channels, loops, promises, inits, open, cancelled>>

\* Reply and Fail: the compare-and-swap on done.
Claim(tok, a) ==
    /\ tok \in open
    /\ open' = open \ {tok}
    /\ answer' = [answer EXCEPT ![tok] = a]
    /\ UNCHANGED <<reported, result>>

\* A responder used by user code, inline or long after its handler returned.
Respond(g, p, tok, a) ==
    /\ InUserCode(g, p)
    /\ Claim(tok, a)
    /\ blocked' = [blocked EXCEPT ![g] = ReplyWith(tok, a)]
    /\ UNCHANGED <<tables, channels, loops, inits, detached, cancelled>>

\* A responder used by a goroutine the protocol started.
RespondElsewhere(tok, a) ==
    /\ Claim(tok, a)
    /\ detached' = detached \cup {ReplyOf(tok, a)}
    /\ UNCHANGED <<tables, channels, loops, inits, blocked, cancelled>>

BeginInit(p) ==
    /\ initOf = Nil /\ p \in toInit
    /\ initOf' = p /\ toInit' = toInit \ {p}
    /\ UNCHANGED <<tables, channels, loops, promises, open, blocked, detached, cancelled>>

EndInit ==
    /\ initOf # Nil /\ blocked[Main] = NoSend
    /\ initOf' = Nil
    /\ UNCHANGED <<tables, channels, loops, promises, toInit, open, blocked, detached, cancelled>>

-----------------------------------------------------------------------------
(* The event loop of protocol p.                                           *)

Ready(p) == p \notin stopped /\ phase[p] = "select" /\ blocked[p] = NoSend

handleRequest(p) ==
    /\ Ready(p) /\ requestEvents[p] # <<>>
    /\ requestEvents' = [requestEvents EXCEPT ![p] = Tail(@)]
    /\ phase' = [phase EXCEPT ![p] = "request"]
    /\ serving' = [serving EXCEPT ![p] = Head(requestEvents[p])]
    /\ open' = open \cup {Head(requestEvents[p])}
    /\ UNCHANGED <<tables, replyEvents, stopped, promises, inits, blocked, detached, cancelled>>

\* Mistake: the pending entry outlives the callback.
deliverReplyKeepsEntry(p) ==
    /\ Ready(p) /\ replyEvents[p] # <<>>
    /\ replyEvents' = [replyEvents EXCEPT ![p] = Tail(@)]
    /\ LET r == Head(replyEvents[p]) IN
         \/ /\ r.token \in pending
            /\ result' = [result EXCEPT ![r.token] = r.result]
            /\ phase' = [phase EXCEPT ![p] = "callback"]
         \/ r.token \notin pending /\ UNCHANGED <<phase, result>>
    /\ UNCHANGED <<tables, requestEvents, serving, stopped,
                   answer, reported, inits, open, blocked, detached, cancelled>>

\* The first arrival runs the callback, a later one is dropped.
deliverReply(p) ==
    /\ Ready(p) /\ replyEvents[p] # <<>>
    /\ replyEvents' = [replyEvents EXCEPT ![p] = Tail(@)]
    /\ LET r == Head(replyEvents[p]) IN
         \/ /\ r.token \in pending
            /\ pending' = pending \ {r.token}
            /\ result' = [result EXCEPT ![r.token] = r.result]
            /\ phase' = [phase EXCEPT ![p] = "callback"]
         \/ r.token \notin pending /\ UNCHANGED <<pending, phase, result>>
    /\ UNCHANGED <<route, nextRequestID, routed, requestEvents, serving, stopped,
                   answer, reported, inits, open, blocked, detached, cancelled>>

\* A message, timer, session event or notification handler.
handleOther(p) ==
    /\ Ready(p)
    /\ phase' = [phase EXCEPT ![p] = "callback"]
    /\ UNCHANGED <<tables, channels, serving, stopped, promises, inits, open, blocked,
                   detached, cancelled>>

\* A handler returns, or panics with nothing to clean up but the report.
Return(p) ==
    /\ InUserCode(p, p)
    /\ phase' = [phase EXCEPT ![p] = "select"]
    /\ serving' = [serving EXCEPT ![p] = Nil]
    /\ UNCHANGED <<tables, channels, stopped, promises, inits, open, blocked, detached, cancelled>>

\* Mistake: the responder is failed before the panic is reported.
PanicUnreported(p) ==
    /\ blocked[p] = NoSend /\ phase[p] = "request"
    /\ phase' = [phase EXCEPT ![p] = "fail"]
    /\ UNCHANGED <<tables, channels, serving, stopped, promises, inits, open,
                   blocked, detached, cancelled>>

\* A request handler panics: reportPanic first ...
Panic(p) ==
    /\ blocked[p] = NoSend /\ phase[p] = "request"
    /\ reported' = reported \cup {serving[p]}
    /\ phase' = [phase EXCEPT ![p] = "fail"]
    /\ UNCHANGED <<tables, channels, serving, stopped, answer, result, inits, open,
                   blocked, detached, cancelled>>

\* ... then Fail with ErrHandlerPanicked, unless the handler had answered.
FailPanicked(p) ==
    /\ phase[p] = "fail"
    /\ phase' = [phase EXCEPT ![p] = "select"]
    /\ serving' = [serving EXCEPT ![p] = Nil]
    /\ \/ /\ Claim(serving[p], "panicked")
          /\ blocked' = [blocked EXCEPT ![p] = ReplyWith(serving[p], "panicked")]
       \/ serving[p] \notin open /\ UNCHANGED <<open, promises, blocked>>
    /\ UNCHANGED <<tables, channels, stopped, inits, detached, cancelled>>

LoopReturns(p) ==
    /\ Ready(p) /\ cancelled
    /\ stopped' = stopped \cup {p}
    /\ UNCHANGED <<tables, channels, phase, serving, promises, inits, open, blocked,
                   detached, cancelled>>

-----------------------------------------------------------------------------
(* Channel sends, each a select with the runtime context.                  *)

enqueueRequest(g) ==
    /\ blocked[g].kind = "request"
    /\ Len(requestEvents[blocked[g].to]) < MailboxBuf
    /\ requestEvents' =
         [requestEvents EXCEPT ![blocked[g].to] = Append(@, blocked[g].token)]
    /\ blocked' = [blocked EXCEPT ![g] = NoSend]
    /\ UNCHANGED <<tables, replyEvents, loops, promises, inits, open, detached, cancelled>>

enqueueReply(r) ==
    /\ Len(replyEvents[r.token.requester]) < MailboxBuf
    /\ replyEvents' = [replyEvents EXCEPT ![r.token.requester] = Append(@, r)]
    /\ UNCHANGED <<tables, requestEvents, loops, promises, inits, open, cancelled>>

enqueueReplyFrom(g) ==
    /\ blocked[g].kind = "reply"
    /\ enqueueReply(ReplyOf(blocked[g].token, blocked[g].result))
    /\ blocked' = [blocked EXCEPT ![g] = NoSend]
    /\ detached' = detached

deliverDetached(r) ==
    /\ enqueueReply(r)
    /\ detached' = detached \ {r}
    /\ blocked' = blocked

GiveUp(g) ==
    /\ cancelled /\ blocked[g] # NoSend
    /\ blocked' = [blocked EXCEPT ![g] = NoSend]
    /\ UNCHANGED <<tables, channels, loops, promises, inits, open, detached, cancelled>>

GiveUpDetached(r) ==
    /\ cancelled
    /\ detached' = detached \ {r}
    /\ UNCHANGED <<tables, channels, loops, promises, inits, open, blocked, cancelled>>

Cancel ==
    /\ Cancels /\ ~cancelled
    /\ cancelled' = TRUE
    /\ UNCHANGED <<tables, channels, loops, promises, inits, open, blocked, detached>>

-----------------------------------------------------------------------------
UserStep(g, p) ==
    \/ \E ty \in Type : registerRequestHandler(g, p, ty) \/ sendRequest(g, p, ty)
    \/ \E tok \in open, a \in {"reply", "failed"} : Respond(g, p, tok, a)

LoopStep(p) ==
    \/ handleRequest(p) \/ deliverReply(p) \/ handleOther(p)
    \/ Return(p) \/ Panic(p) \/ FailPanicked(p) \/ LoopReturns(p)

SendStep(g) == enqueueRequest(g) \/ enqueueReplyFrom(g) \/ GiveUp(g)
DetachedStep(r) == deliverDetached(r) \/ GiveUpDetached(r)

Next ==
    \/ \E g \in Goroutine, p \in Proto : UserStep(g, p)
    \/ \E tok \in open, a \in {"reply", "failed"} : RespondElsewhere(tok, a)
    \/ \E p \in Proto : LoopStep(p) \/ BeginInit(p)
    \/ \E g \in Goroutine : SendStep(g)
    \/ \E r \in detached : DetachedStep(r)
    \/ EndInit \/ Cancel

Spec == Init /\ [][Next]_vars

=============================================================================
