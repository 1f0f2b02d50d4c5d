------------------------------ MODULE IpcProps ------------------------------
(***************************************************************************)
(* What requests and replies between protocols promise.                    *)
(***************************************************************************)
EXTENDS Ipc

Issued(tok) == tok.requestID <= nextRequestID[tok.requester]

\* Where a request stands, as RequestReply sees it.
Status ==
    [tok \in Token |->
        IF ~Issued(tok) THEN "new"
        ELSE IF tok \notin pending THEN "done"
        ELSE IF tok \in routed THEN "pending" ELSE "unrouted"]

Abstract == INSTANCE RequestReply WITH status <- Status

\* The request machinery implements RequestReply: a callback runs at most
\* once, with the first arrival of timeout and answer, whatever the order in
\* which replies, timeouts, panics and late responders happen
\* (protocol.go 473-505 deliverReply, ipc.go 154-176 the done flag).
Implements == Abstract!Promise

\* If the requester saw ErrHandlerPanicked, OnPanic has already been called
\* (ipc.go 209-217: report first, fail second).
PanicReportedFirst ==
    \A tok \in Token : result[tok] = "panicked" => tok \in reported

Queued(tok) == \E i \in 1..Len(replyEvents[tok.requester]) : replyEvents[tok.requester][i].token = tok

\* No callback is lost: until the runtime is cancelled, a request that waits
\* has a reply in its mailbox, a goroutine that is delivering one, or an
\* armed timeout.  The pending entry is made before any of them, so that a
\* fast reply finds it (runtime.go 266-271).
CompletionOnTheWay ==
    \A tok \in pending :
        \/ cancelled \/ Queued(tok)
        \/ \E g \in Goroutine : blocked[g].kind = "reply" /\ blocked[g].token = tok
        \/ \E r \in detached : r.token = tok

-----------------------------------------------------------------------------
(* The inductive invariant.  Every reply under way is justified; a request *)
(* reaches a handler once, so its responder answers once.                  *)

Justified(r) ==
    /\ Issued(r.token)
    /\ \/ r.result = "timeout" /\ r.token \in routed
       \/ r.result = "noHandler" /\ r.token \notin routed
       \/ r.result \in Abstract!Answers /\ answer[r.token] = r.result

RepliesJustified ==
    /\ \A p \in Proto : \A i \in 1..Len(replyEvents[p]) : Justified(replyEvents[p][i])
    /\ \A g \in Goroutine : blocked[g].kind = "reply" => Justified(blocked[g])
    /\ \A r \in detached : Justified(r)

\* A reply waits in the mailbox of the protocol that issued the request.
RepliesAddressed ==
    \A p \in Proto : \A i \in 1..Len(replyEvents[p]) : replyEvents[p][i].token.requester = p

Fresh(tok) == tok \in routed /\ tok \notin open /\ answer[tok] = Nil

\* Requests under way have not met their handler, and are under way once.
RequestsFresh ==
    /\ \A g \in Goroutine : blocked[g].kind = "request" => Fresh(blocked[g].token)
    /\ \A p \in Proto : \A i \in 1..Len(requestEvents[p]) : Fresh(requestEvents[p][i])

RequestsUnique ==
    /\ \A g, h \in Goroutine :
         blocked[g].kind = "request" /\ blocked[h].kind = "request"
         /\ blocked[g].token = blocked[h].token => g = h
    /\ \A g \in Goroutine, p \in Proto : \A i \in 1..Len(requestEvents[p]) :
         blocked[g].kind = "request" => requestEvents[p][i] # blocked[g].token
    /\ \A p, q \in Proto : \A i \in 1..Len(requestEvents[p]), j \in 1..Len(requestEvents[q]) :
         requestEvents[p][i] = requestEvents[q][j] => p = q /\ i = j

RespondersSound ==
    /\ \A tok \in open : tok \in routed /\ answer[tok] = Nil
    /\ \A tok \in Token : answer[tok] # Nil => tok \in routed
    /\ \A tok \in Token : answer[tok] = "panicked" => tok \in reported
    /\ \A p \in Proto : phase[p] \in {"request", "fail"} => serving[p] \in routed
    /\ \A p \in Proto : phase[p] = "fail" => serving[p] \in reported

IssuedOnly == \A tok \in pending \cup routed : Issued(tok)

\* An event loop that recovers from a panic is in no channel send.
PanickedIdle == \A p \in Proto : phase[p] = "fail" => blocked[p].kind = "none"

IInv ==
    /\ TypeOK /\ IssuedOnly /\ RespondersSound /\ RepliesJustified
    /\ RequestsFresh /\ RequestsUnique

-----------------------------------------------------------------------------
(* Event loops run, handlers return, timers fire.  A loop that keeps       *)
(* coming back to its select takes every ready branch at some point: Go    *)
(* chooses among the ready branches at random.                             *)

Fairness ==
    /\ \A p \in Proto :
         /\ SF_vars(handleRequest(p)) /\ SF_vars(deliverReply(p))
         /\ WF_vars(Return(p)) /\ WF_vars(FailPanicked(p))
    /\ \A g \in Goroutine : WF_vars(SendStep(g))
    /\ \A tok \in Token :
         WF_vars(ReplyOf(tok, "timeout") \in detached /\ deliverDetached(ReplyOf(tok, "timeout")))

FairSpec == Spec /\ Fairness

\* With mailboxes twice as large as the number of requests (each may cause a
\* reply and a timeout), every request's callback runs unless the runtime is
\* cancelled, even when the handler never answers (ipc.go 229-232).
RequestCompletes ==
    \A tok \in Token : (tok \in pending) ~> (tok \notin pending \/ cancelled)

=============================================================================
