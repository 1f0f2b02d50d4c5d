------------------------------ MODULE IpcProofs ------------------------------
(***************************************************************************)
(* Proofs about requests and replies (Ipc), for any protocols, request     *)
(* types, mailbox capacity and number of requests: the inductive           *)
(* invariant, that a panic is reported before it is seen, and that Ipc     *)
(* implements RequestReply.                                                *)
(***************************************************************************)
EXTENDS IpcProps, TLAPS

-----------------------------------------------------------------------------
(* Mailboxes.                                                              *)

\* Taking the head of a mailbox shifts the rest.
LEMMA TailFacts ==
    ASSUME NEW S, NEW q \in Seq(S), q # <<>>
    PROVE  /\ Head(q) \in S /\ Tail(q) \in Seq(S) /\ Head(q) = q[1]
           /\ Len(q) \in Nat /\ 1 \in 1..Len(q) /\ Len(Tail(q)) = Len(q) - 1
           /\ \A i \in 1..Len(Tail(q)) : Tail(q)[i] = q[i + 1] /\ i + 1 \in 1..Len(q)
OBVIOUS

\* Appending to a mailbox keeps what is there.
LEMMA AppendFacts ==
    ASSUME NEW S, NEW q \in Seq(S), NEW x \in S
    PROVE  /\ Append(q, x) \in Seq(S)
           /\ Len(q) \in Nat /\ Len(Append(q, x)) = Len(q) + 1
           /\ \A i \in 1..Len(q) : Append(q, x)[i] = q[i]
           /\ Append(q, x)[Len(q) + 1] = x
           /\ \A i \in 1..Len(Append(q, x)) : i \in 1..Len(q) \/ i = Len(q) + 1
OBVIOUS

\* The channel sends a goroutine may be in.
LEMMA SendTypes ==
    ASSUME NEW tok \in Token, NEW p \in Proto, NEW x \in Result
    PROVE  /\ NoSend \in ChannelSend /\ RequestTo(p, tok) \in ChannelSend
           /\ ReplyWith(tok, x) \in ChannelSend /\ ReplyOf(tok, x) \in InboundReply
BY Zenon DEF NoSend, RequestTo, ReplyWith, ReplyOf, ChannelSend, InboundReply

\* What is in a channel send of each kind.
LEMMA SendFields ==
    ASSUME TypeOK, NEW g \in Goroutine
    PROVE  /\ blocked[g].kind = "request" => blocked[g].to \in Proto /\ blocked[g].token \in Token
           /\ blocked[g].kind = "reply" => blocked[g].token \in Token /\ blocked[g].result \in Result
BY Zenon DEF TypeOK, ChannelSend

-----------------------------------------------------------------------------
(* Type correctness, one step per action.                                  *)

\* The runtime's state stays well typed, mailboxes within their capacity.
LEMMA TypeStep ==
    ASSUME IInv, [Next]_vars
    PROVE  TypeOK'
<1> USE IpcAssumption
<1>0. TypeOK
  BY Zenon DEF IInv
<1> USE <1>0
<1>1. ASSUME NEW g \in Goroutine, NEW p \in Proto, NEW ty \in Type,
             registerRequestHandler(g, p, ty)
      PROVE  TypeOK'
  BY Zenon, <1>1 DEF registerRequestHandler, TypeOK, channels, loops, promises, inits
<1>2. ASSUME NEW g \in Goroutine, NEW p \in Proto, NEW ty \in Type, sendRequest(g, p, ty)
      PROVE  TypeOK'
  <2> DEFINE tok == TokenOf(p, nextRequestID[p] + 1)
  <2>1. tok \in Token /\ nextRequestID' \in [Proto -> 0..MaxRequests]
    BY <1>2 DEF sendRequest, TypeOK, TokenOf, Token
  <2>2. pending' \subseteq Token /\ routed' \subseteq Token
    BY Zenon, <1>2, <2>1 DEF sendRequest, TypeOK
  <2>3. /\ ReplyWith(tok, "noHandler") \in ChannelSend
        /\ route[ty] # Nil => RequestTo(route[ty], tok) \in ChannelSend
        /\ ReplyOf(tok, "timeout") \in InboundReply
    BY Zenon, <2>1, SendTypes DEF Result, TypeOK
  <2>4. blocked' \in [Goroutine -> ChannelSend] /\ detached' \subseteq InboundReply
    <3>1. CASE route[ty] = Nil
      <4>1. /\ blocked' = [blocked EXCEPT ![g] = ReplyWith(tok, "noHandler")]
            /\ detached' = detached
        BY Zenon, <1>2, <3>1 DEF sendRequest
      <4> QED BY Zenon, <2>3, <4>1 DEF TypeOK
    <3>2. CASE route[ty] # Nil
      <4>1. /\ blocked' = [blocked EXCEPT ![g] = RequestTo(route[ty], tok)]
            /\ detached' = detached \cup {ReplyOf(tok, "timeout")}
        BY Zenon, <1>2, <3>2 DEF sendRequest
      <4> QED BY Zenon, <2>3, <3>2, <4>1 DEF TypeOK
    <3> QED BY Zenon, <3>1, <3>2
  <2> QED BY Zenon, <1>2, <2>1, <2>2, <2>4
          DEF sendRequest, TypeOK, channels, loops, promises, inits
<1>3. ASSUME NEW g \in Goroutine, NEW p \in Proto, NEW tok \in open,
             NEW a \in {"reply", "failed"}, Respond(g, p, tok, a)
      PROVE  TypeOK'
  <2>1. tok \in Token /\ ReplyWith(tok, a) \in ChannelSend
    BY Zenon, SendTypes DEF Result, TypeOK
  <2> QED BY Zenon, <1>3, <2>1
          DEF Respond, Claim, TypeOK, tables, channels, loops, inits, Result
<1>4. ASSUME NEW tok \in open, NEW a \in {"reply", "failed"}, RespondElsewhere(tok, a)
      PROVE  TypeOK'
  <2>1. tok \in Token /\ ReplyOf(tok, a) \in InboundReply
    BY Zenon, SendTypes DEF Result, TypeOK, InboundReply, ReplyOf
  <2> QED BY Zenon, <1>4, <2>1
          DEF RespondElsewhere, Claim, TypeOK, tables, channels, loops, inits, Result
<1>5. ASSUME NEW p \in Proto, BeginInit(p) \/ EndInit \/ handleOther(p) \/ Return(p)
                              \/ LoopReturns(p)
      PROVE  TypeOK'
  BY ZenonT(40), <1>5 DEF BeginInit, EndInit, handleOther, Return, LoopReturns, TypeOK, tables,
              channels, loops, promises, inits
<1>6. ASSUME NEW p \in Proto, handleRequest(p)
      PROVE  TypeOK'
  <2>1. /\ Head(requestEvents[p]) \in Token
        /\ requestEvents' \in [Proto -> Seq(Token)]
        /\ \A q \in Proto : Len(requestEvents'[q]) <= MailboxBuf
    BY <1>6, TailFacts DEF handleRequest, TypeOK
  <2> QED BY Zenon, <1>6, <2>1
          DEF handleRequest, TypeOK, tables, promises, inits
<1>7. ASSUME NEW p \in Proto, deliverReply(p)
      PROVE  TypeOK'
  <2>1. /\ Head(replyEvents[p]) \in InboundReply
        /\ replyEvents' \in [Proto -> Seq(InboundReply)]
        /\ \A q \in Proto : Len(replyEvents'[q]) <= MailboxBuf
    BY <1>7, TailFacts DEF deliverReply, TypeOK
  <2>2. /\ Head(replyEvents[p]).token \in Token
        /\ Head(replyEvents[p]).result \in Result
    BY Zenon, <2>1 DEF InboundReply
  <2>3. pending' \subseteq Token /\ result' \in [Token -> Result \cup {Nil}]
    BY Zenon, <1>7, <2>2 DEF deliverReply, TypeOK
  <2>4. phase' \in [Proto -> {"select", "request", "callback", "fail"}]
    BY Zenon, <1>7 DEF deliverReply, TypeOK
  <2> QED BY Zenon, <1>7, <2>1, <2>3, <2>4 DEF deliverReply, TypeOK, inits
<1>8. ASSUME NEW p \in Proto, Panic(p) PROVE TypeOK'
  <2>1. serving[p] \in Token
    BY Zenon, <1>8 DEF Panic, IInv, RespondersSound, TypeOK
  <2> QED BY Zenon, <1>8, <2>1 DEF Panic, TypeOK, tables, channels, inits
<1>9. ASSUME NEW p \in Proto, FailPanicked(p) PROVE TypeOK'
  <2>1. serving[p] \in Token
    BY Zenon, <1>9 DEF FailPanicked, IInv, RespondersSound, TypeOK
  <2>2. ReplyWith(serving[p], "panicked") \in ChannelSend
    BY Zenon, <2>1, SendTypes DEF Result
  <2>3. /\ open' \subseteq Token /\ answer' \in [Token -> Result \cup {Nil}]
        /\ blocked' \in [Goroutine -> ChannelSend]
        /\ UNCHANGED <<reported, result>>
    <3>1. CASE serving[p] \in open
      <4>1. /\ open' = open \ {serving[p]}
            /\ answer' = [answer EXCEPT ![serving[p]] = "panicked"]
            /\ blocked' = [blocked EXCEPT ![p] = ReplyWith(serving[p], "panicked")]
            /\ UNCHANGED <<reported, result>>
        BY Zenon, <1>9, <3>1 DEF FailPanicked, Claim
      <4> QED BY Zenon, <2>1, <2>2, <4>1 DEF TypeOK, Result
    <3>2. CASE serving[p] \notin open
      <4>1. UNCHANGED <<open, promises, blocked>>
        BY Zenon, <1>9, <3>2 DEF FailPanicked, Claim
      <4> QED BY Zenon, <4>1 DEF TypeOK, promises
    <3> QED BY Zenon, <3>1, <3>2
  <2>4. /\ phase' \in [Proto -> {"select", "request", "callback", "fail"}]
        /\ serving' \in [Proto -> Token \cup {Nil}]
    BY Zenon, <1>9 DEF FailPanicked, TypeOK
  <2> QED BY Zenon, <1>9, <2>3, <2>4 DEF FailPanicked, TypeOK, tables, channels, inits
<1>10. ASSUME NEW g \in Goroutine, enqueueRequest(g) PROVE TypeOK'
  <2>1. blocked[g].to \in Proto /\ blocked[g].token \in Token
    BY Zenon, <1>10, SendFields DEF enqueueRequest
  <2>2. /\ requestEvents' \in [Proto -> Seq(Token)]
        /\ \A q \in Proto : Len(requestEvents'[q]) <= MailboxBuf
    BY <1>10, <2>1, AppendFacts DEF enqueueRequest, TypeOK
  <2>3. blocked' \in [Goroutine -> ChannelSend]
    BY Zenon, <1>10 DEF enqueueRequest, TypeOK, NoSend, ChannelSend
  <2> QED BY Zenon, <1>10, <2>2, <2>3
          DEF enqueueRequest, TypeOK, tables, loops, promises, inits
<1>11. ASSUME NEW r \in InboundReply, enqueueReply(r)
       PROVE  /\ replyEvents' \in [Proto -> Seq(InboundReply)]
              /\ \A q \in Proto : Len(replyEvents'[q]) <= MailboxBuf
  <2>1. r.token.requester \in Proto
    BY Zenon DEF InboundReply, Token
  <2> QED BY SMTT(30), <1>11, <2>1, AppendFacts DEF enqueueReply, TypeOK
<1>12. ASSUME NEW g \in Goroutine, enqueueReplyFrom(g) PROVE TypeOK'
  <2>1. ReplyOf(blocked[g].token, blocked[g].result) \in InboundReply
    BY Zenon, <1>12, SendFields DEF enqueueReplyFrom, ReplyOf, InboundReply
  <2>2. /\ replyEvents' \in [Proto -> Seq(InboundReply)]
        /\ \A q \in Proto : Len(replyEvents'[q]) <= MailboxBuf
    BY Zenon, <1>11, <1>12, <2>1 DEF enqueueReplyFrom
  <2>3. blocked' \in [Goroutine -> ChannelSend]
    BY Zenon, <1>12 DEF enqueueReplyFrom, TypeOK, NoSend, ChannelSend
  <2> QED BY Zenon, <1>12, <2>2, <2>3
          DEF enqueueReplyFrom, enqueueReply, TypeOK, tables, loops, promises, inits
<1>13. ASSUME NEW r \in detached, deliverDetached(r) PROVE TypeOK'
  <2>1. r \in InboundReply
    BY Zenon DEF TypeOK
  <2>2. /\ replyEvents' \in [Proto -> Seq(InboundReply)]
        /\ \A q \in Proto : Len(replyEvents'[q]) <= MailboxBuf
    BY Zenon, <1>11, <1>13, <2>1 DEF deliverDetached
  <2> QED BY Zenon, <1>13, <2>2
          DEF deliverDetached, enqueueReply, TypeOK, tables, loops, promises, inits
<1>14. ASSUME NEW g \in Goroutine, GiveUp(g) PROVE TypeOK'
  <2>1. blocked' \in [Goroutine -> ChannelSend]
    BY Zenon, <1>14 DEF GiveUp, TypeOK, NoSend, ChannelSend
  <2> QED BY Zenon, <1>14, <2>1 DEF GiveUp, TypeOK, tables, channels, loops, promises, inits
<1>15. ASSUME NEW r \in detached, GiveUpDetached(r) PROVE TypeOK'
  BY Zenon, <1>15 DEF GiveUpDetached, TypeOK, tables, channels, loops, promises, inits
<1>16. CASE Cancel
  BY Zenon, <1>16 DEF Cancel, TypeOK, tables, channels, loops, promises, inits
<1>17. CASE EndInit
  BY Zenon, <1>17 DEF EndInit, TypeOK, tables, channels, loops, promises, inits
<1>18. CASE UNCHANGED vars
  BY Zenon, <1>18 DEF vars, TypeOK, tables, channels, loops, promises, inits
<1> QED
  BY Zenon, <1>1, <1>2, <1>3, <1>4, <1>5, <1>6, <1>7, <1>8, <1>9, <1>10, <1>12, <1>13, <1>14,
     <1>15, <1>16, <1>17, <1>18
     DEF Next, UserStep, LoopStep, SendStep, DetachedStep

-----------------------------------------------------------------------------
(* The rest of the invariant.                                              *)

Core == IssuedOnly /\ RespondersSound /\ RepliesJustified /\ RequestsFresh /\ RequestsUnique

\* Handlers go on as they were, or an event loop leaves its handler.
LoopsOn ==
    \A p \in Proto : phase'[p] \in {"request", "fail"} =>
        phase'[p] = phase[p] /\ serving'[p] = serving[p]

\* A reply that is justified stays so: no answer is ever taken back, and a
\* request's route is looked up once.
LEMMA JustifiedKept ==
    ASSUME TypeOK, RespondersSound, NEW r, r.token \in Token, Justified(r),
           \A tok \in Token : Issued(tok) => Issued(tok)' /\ (tok \in routed' <=> tok \in routed),
           \A tok \in Token \ open : answer'[tok] = answer[tok]
    PROVE  Justified(r)'
<1>1. Issued(r.token)'
  BY Zenon DEF Justified
<1>2. r.result \in Abstract!Answers /\ answer[r.token] = r.result => r.token \notin open
  BY Zenon, IpcAssumption DEF RespondersSound, Abstract!Answers, Result
<1> QED BY Zenon, <1>1, <1>2 DEF Justified

\* Every reply under way carries a token.
LEMMA ReplyTokens ==
    ASSUME TypeOK
    PROVE  /\ \A p \in Proto : \A i \in 1..Len(replyEvents[p]) :
                replyEvents[p][i] \in InboundReply /\ replyEvents[p][i].token \in Token
           /\ \A p \in Proto : \A i \in 1..Len(requestEvents[p]) : requestEvents[p][i] \in Token
           /\ \A r \in detached : r.token \in Token
<1>1. ASSUME NEW p \in Proto, NEW i \in 1..Len(replyEvents[p])
      PROVE  replyEvents[p][i] \in InboundReply /\ replyEvents[p][i].token \in Token
  <2>1. replyEvents[p][i] \in InboundReply
    BY DEF TypeOK
  <2> QED BY Zenon, <2>1 DEF InboundReply
<1>2. ASSUME NEW p \in Proto, NEW i \in 1..Len(requestEvents[p])
      PROVE  requestEvents[p][i] \in Token
  BY DEF TypeOK
<1>3. \A r \in detached : r.token \in Token
  BY Zenon DEF TypeOK, InboundReply
<1> QED BY Zenon, <1>1, <1>2, <1>3

\* Steps that answer nothing, send no request and let replies move on.
LEMMA QuietStep ==
    ASSUME IInv,
           UNCHANGED <<nextRequestID, routed, answer, open, reported, requestEvents>>,
           pending' \subseteq pending, detached' \subseteq detached, LoopsOn,
           \A g \in Goroutine : blocked'[g] \in {blocked[g], NoSend},
           \A p \in Proto : \A i \in 1..Len(replyEvents'[p]) : Justified(replyEvents'[p][i])
    PROVE  Core'
<1>0. TypeOK /\ Core
  BY Zenon DEF IInv, Core
<1>1. \A tok \in Token : Issued(tok)' <=> Issued(tok)
  BY Zenon DEF Issued
<1>2. \A r : Justified(r)' <=> Justified(r)
  BY Zenon DEF Justified, Issued
<1>3. IssuedOnly'
  BY Zenon, <1>0, <1>1 DEF Core, IssuedOnly, TypeOK
<1>4. RespondersSound'
  BY Zenon, <1>0 DEF Core, RespondersSound, LoopsOn
<1>5. NoSend.kind = "none"
  BY Zenon DEF NoSend
<1>6. RepliesJustified'
  BY Zenon, <1>0, <1>2, <1>5 DEF Core, RepliesJustified
<1>7. RequestsFresh'
  BY Zenon, <1>0, <1>5 DEF Core, RequestsFresh, Fresh
<1>8. RequestsUnique'
  BY <1>0, <1>5 DEF Core, RequestsUnique
<1> QED BY Zenon, <1>3, <1>4, <1>6, <1>7, <1>8 DEF Core

\* An open responder is claimed: it had not answered, and its answer is the
\* reply its goroutine is now delivering.
LEMMA ClaimStep ==
    ASSUME IInv, NEW tok \in open, NEW a \in Abstract!Answers, Claim(tok, a),
           a = "panicked" => tok \in reported,
           UNCHANGED <<tables, channels>>, LoopsOn,
           detached' \subseteq detached \cup {ReplyOf(tok, a)},
           \A g \in Goroutine : blocked'[g] \in {blocked[g], ReplyWith(tok, a)}
    PROVE  Core'
<1>0. TypeOK /\ Core /\ tok \in Token
  BY Zenon DEF IInv, Core, TypeOK
<1>1. /\ open' = open \ {tok} /\ answer'[tok] = a /\ tok \in routed /\ Issued(tok)
      /\ \A t \in Token \ {tok} : answer'[t] = answer[t]
      /\ UNCHANGED <<reported, nextRequestID, pending, routed, requestEvents, replyEvents>>
  BY Zenon, <1>0 DEF Claim, TypeOK, Core, RespondersSound, IssuedOnly, tables, channels
<1>2. IssuedOnly'
  BY Zenon, <1>0, <1>1 DEF Core, IssuedOnly, Issued
<1>3. RespondersSound'
  BY Zenon, <1>0, <1>1, IpcAssumption DEF Core, RespondersSound, LoopsOn, TypeOK
<1>4. \A t \in Token : Issued(t) => Issued(t)' /\ (t \in routed' <=> t \in routed)
  BY Zenon, <1>1 DEF Issued
<1>5. \A r : r.token \in Token /\ Justified(r) => Justified(r)'
  BY Zenon, <1>0, <1>1, <1>4, JustifiedKept DEF Core
<1>6. /\ ReplyOf(tok, a).token = tok /\ ReplyOf(tok, a).result = a
      /\ ReplyWith(tok, a).token = tok /\ ReplyWith(tok, a).result = a
      /\ ReplyWith(tok, a).kind = "reply"
  BY Zenon DEF ReplyOf, ReplyWith
<1>7. Justified(ReplyOf(tok, a))' /\ Justified(ReplyWith(tok, a))'
  BY Zenon, <1>1, <1>4, <1>6, <1>0 DEF Justified
<1>8. RepliesJustified'
  <2>1. \A p \in Proto : \A i \in 1..Len(replyEvents'[p]) : Justified(replyEvents[p][i])'
    BY Zenon, <1>0, <1>1, <1>5, ReplyTokens DEF Core, RepliesJustified
  <2>2. \A g \in Goroutine : blocked'[g].kind = "reply" => Justified(blocked[g])'
    BY Zenon, <1>0, <1>5, <1>7, SendFields DEF Core, RepliesJustified
  <2>3. \A r \in detached' : Justified(r)'
    BY Zenon, <1>0, <1>5, <1>7, ReplyTokens DEF Core, RepliesJustified
  <2> QED BY Zenon, <1>1, <2>1, <2>2, <2>3 DEF RepliesJustified
<1>9. \A t \in Token : Fresh(t) => Fresh(t)'
  BY Zenon, <1>0, <1>1 DEF Fresh
<1>10. \A g \in Goroutine : blocked'[g].kind = "request" => blocked'[g] = blocked[g]
  BY Zenon, <1>6
<1>11. RequestsFresh'
  BY Zenon, <1>0, <1>1, <1>9, <1>10, SendFields, ReplyTokens DEF Core, RequestsFresh
<1>12. RequestsUnique'
  BY <1>0, <1>1, <1>10 DEF Core, RequestsUnique
<1> QED BY Zenon, <1>2, <1>3, <1>8, <1>11, <1>12 DEF Core

-----------------------------------------------------------------------------
(* The steps that move a request or a reply, one lemma each.               *)

\* A new token has no history (nextRequestID counts up).
LEMMA NewToken ==
    ASSUME IInv, NEW p \in Proto, nextRequestID[p] < MaxRequests
    PROVE  LET tok == TokenOf(p, nextRequestID[p] + 1) IN
             /\ tok \in Token /\ tok.requester = p /\ ~Issued(tok)
             /\ tok \notin pending /\ tok \notin routed /\ tok \notin open /\ answer[tok] = Nil
<1> DEFINE tok == TokenOf(p, nextRequestID[p] + 1)
<1>1. tok \in Token /\ tok.requester = p /\ tok.requestID = nextRequestID[p] + 1
  BY IpcAssumption DEF IInv, TypeOK, Token, TokenOf
<1>2. ~Issued(tok)
  BY <1>1, IpcAssumption DEF Issued, IInv, TypeOK
<1> HIDE DEF tok
<1>3. tok \notin pending /\ tok \notin routed /\ tok \notin open /\ answer[tok] = Nil
  BY Zenon, <1>1, <1>2 DEF IInv, IssuedOnly, RespondersSound
<1> QED BY Zenon, <1>1, <1>2, <1>3 DEF tok

\* sendRequest: the request or the error is the first the token is part of.
LEMMA SendRequestStep ==
    ASSUME IInv, NEW g \in Goroutine, NEW p \in Proto, NEW ty \in Type, sendRequest(g, p, ty)
    PROVE  Core'
<1>0. TypeOK /\ Core
  BY Zenon DEF IInv, Core
<1>p. PICK tok \in Token : tok = TokenOf(p, nextRequestID[p] + 1)
  BY Zenon, NewToken DEF sendRequest
<1>1. /\ tok \in Token /\ tok.requester = p /\ ~Issued(tok)
      /\ tok \notin pending /\ tok \notin routed /\ tok \notin open /\ answer[tok] = Nil
  BY Zenon, <1>p, NewToken DEF sendRequest
<1>a. tok.requestID = nextRequestID[p] + 1
  BY Zenon, <1>p DEF TokenOf
<1>b. /\ nextRequestID' = [nextRequestID EXCEPT ![p] = @ + 1]
      /\ pending' = pending \cup {tok}
      /\ \/ /\ blocked' = [blocked EXCEPT ![g] = ReplyWith(tok, "noHandler")]
            /\ UNCHANGED <<routed, detached>>
         \/ /\ routed' = routed \cup {tok}
            /\ detached' = detached \cup {ReplyOf(tok, "timeout")}
            /\ blocked' = [blocked EXCEPT ![g] = RequestTo(route[ty], tok)]
      /\ UNCHANGED <<requestEvents, replyEvents, phase, serving, answer, reported, open>>
  BY Zenon, <1>p DEF sendRequest, channels, loops, promises
<1>c. /\ ReplyWith(tok, "noHandler").kind = "reply"
      /\ ReplyWith(tok, "noHandler").token = tok
      /\ ReplyWith(tok, "noHandler").result = "noHandler"
      /\ RequestTo(route[ty], tok).kind = "request" /\ RequestTo(route[ty], tok).token = tok
      /\ ReplyOf(tok, "timeout").token = tok /\ ReplyOf(tok, "timeout").result = "timeout"
  BY Zenon DEF ReplyWith, RequestTo, ReplyOf
<1>2. Issued(tok)' /\ \A t \in Token : Issued(t) => Issued(t)'
  BY SMTT(30), <1>0, <1>1, <1>a, <1>b, IpcAssumption DEF Issued, TypeOK, Token
<1>3. \A t \in Token : Issued(t) => Issued(t)' /\ (t \in routed' <=> t \in routed)
  BY Zenon, <1>1, <1>2, <1>b
<1>4. IssuedOnly'
  BY Zenon, <1>0, <1>2, <1>b DEF Core, IssuedOnly, TypeOK
<1>5. RespondersSound'
  BY Zenon, <1>0, <1>b DEF Core, RespondersSound
<1>6. \A r : r.token \in Token /\ Justified(r) => Justified(r)'
  BY Zenon, <1>0, <1>3, <1>b, JustifiedKept DEF Core
<1>7. RepliesJustified'
  <2>1. \A q \in Proto : \A i \in 1..Len(replyEvents[q]) : Justified(replyEvents[q][i])'
    BY Zenon, <1>0, <1>6, <1>b, ReplyTokens DEF Core, RepliesJustified
  <2>2. \A h \in Goroutine : blocked'[h].kind = "reply" => Justified(blocked[h])'
    <3> SUFFICES ASSUME NEW h \in Goroutine, blocked'[h].kind = "reply"
                 PROVE  Justified(blocked[h])'
      BY Zenon
    <3>1. CASE blocked'[h] = blocked[h]
      BY Zenon, <1>0, <1>6, <3>1, SendFields DEF Core, RepliesJustified
    <3>2. CASE blocked'[h] # blocked[h]
      <4>1. h = g /\ blocked'[h] = ReplyWith(tok, "noHandler") /\ routed' = routed
        BY Zenon, <1>0, <1>b, <1>c, <3>2 DEF TypeOK
      <4> QED BY Zenon, <1>1, <1>2, <1>c, <4>1 DEF Justified
    <3> QED BY Zenon, <3>1, <3>2
  <2>3. \A r \in detached' : Justified(r)'
    <3> SUFFICES ASSUME NEW r \in detached' PROVE Justified(r)'
      BY Zenon
    <3>1. CASE r \in detached
      BY Zenon, <1>0, <1>6, <3>1, ReplyTokens DEF Core, RepliesJustified
    <3>2. CASE r \notin detached
      <4>1. r = ReplyOf(tok, "timeout") /\ tok \in routed'
        BY Zenon, <1>b, <3>2
      <4> QED BY Zenon, <1>1, <1>2, <1>c, <4>1 DEF Justified
    <3> QED BY Zenon, <3>1, <3>2
  <2> QED BY Zenon, <1>b, <2>1, <2>2, <2>3 DEF RepliesJustified
<1>8. \A t \in Token : Fresh(t) => Fresh(t)' /\ t # tok
  BY Zenon, <1>1, <1>b DEF Fresh
<1>9. \A h \in Goroutine : blocked'[h].kind = "request" =>
        \/ blocked'[h] = blocked[h]
        \/ h = g /\ blocked'[h].token = tok /\ tok \in routed'
  BY Zenon, <1>0, <1>b, <1>c DEF TypeOK
<1>10. Fresh(tok)' \/ tok \notin routed'
  BY Zenon, <1>1, <1>b DEF Fresh
<1>11. RequestsFresh'
  BY Zenon, <1>0, <1>8, <1>9, <1>10, <1>b, SendFields, ReplyTokens DEF Core, RequestsFresh
<1>12. RequestsUnique'
  <2>1. \A h \in Goroutine : blocked[h].kind = "request" => blocked[h].token # tok
    BY Zenon, <1>0, <1>8, SendFields DEF Core, RequestsFresh
  <2>2. \A q \in Proto : \A i \in 1..Len(requestEvents[q]) : requestEvents[q][i] # tok
    BY Zenon, <1>0, <1>8, ReplyTokens DEF Core, RequestsFresh
  <2> QED BY <1>0, <1>9, <1>b, <2>1, <2>2 DEF Core, RequestsUnique
<1> QED BY Zenon, <1>4, <1>5, <1>7, <1>11, <1>12 DEF Core

\* A request moves from the sender to the handler's mailbox.
LEMMA EnqueueRequestStep ==
    ASSUME IInv, NEW g \in Goroutine, enqueueRequest(g)
    PROVE  Core'
<1>0. TypeOK /\ Core
  BY Zenon DEF IInv, Core
<1>p. PICK tok \in Token, to \in Proto :
        tok = blocked[g].token /\ to = blocked[g].to
  BY Zenon, <1>0, SendFields DEF enqueueRequest
<1>1. /\ blocked[g].kind = "request" /\ blocked' = [blocked EXCEPT ![g] = NoSend]
      /\ requestEvents' = [requestEvents EXCEPT ![to] = Append(@, tok)]
      /\ UNCHANGED <<nextRequestID, pending, routed, replyEvents, phase, serving, answer,
                     reported, open, detached>>
  BY Zenon, <1>p DEF enqueueRequest, tables, loops, promises
<1>2. /\ \A h \in Goroutine \ {g} : blocked'[h] = blocked[h]
      /\ blocked'[g].kind = "none"
  BY Zenon, <1>0, <1>1 DEF TypeOK, NoSend
<1>3. \A q \in Proto : \A i \in 1..Len(requestEvents'[q]) :
        \/ i \in 1..Len(requestEvents[q]) /\ requestEvents'[q][i] = requestEvents[q][i]
        \/ q = to /\ i = Len(requestEvents[to]) + 1 /\ requestEvents'[q][i] = tok
  BY <1>0, <1>1, AppendFacts DEF TypeOK
<1>4. IssuedOnly' /\ RespondersSound'
  BY Zenon, <1>0, <1>1 DEF Core, IssuedOnly, RespondersSound, Issued
<1>5. \A r : Justified(r)' <=> Justified(r)
  BY Zenon, <1>1 DEF Justified, Issued
<1>6. RepliesJustified'
  BY Zenon, <1>0, <1>1, <1>2, <1>5 DEF Core, RepliesJustified
<1>7. \A t \in Token : Fresh(t)' <=> Fresh(t)
  BY Zenon, <1>1 DEF Fresh
<1>8. RequestsFresh'
  BY SMTT(30), <1>0, <1>1, <1>2, <1>3, <1>7, <1>p, SendFields, ReplyTokens DEF Core, RequestsFresh
<1>9. /\ \A q \in Proto : \A i \in 1..Len(requestEvents[q]) : requestEvents[q][i] # tok
      /\ \A h \in Goroutine \ {g} : blocked[h].kind = "request" => blocked[h].token # tok
  BY Zenon, <1>0, <1>1, <1>p DEF Core, RequestsUnique
<1>10. RequestsUnique'
  <2>1. ASSUME NEW h \in Goroutine, NEW k \in Goroutine, blocked'[h].kind = "request",
               blocked'[k].kind = "request", blocked'[h].token = blocked'[k].token
        PROVE  h = k
    BY <1>0, <1>2, <2>1 DEF Core, RequestsUnique
  <2>2. ASSUME NEW h \in Goroutine, NEW q \in Proto, NEW i \in 1..Len(requestEvents'[q]),
               blocked'[h].kind = "request"
        PROVE  requestEvents'[q][i] # blocked'[h].token
    BY <1>0, <1>2, <1>3, <1>9, <2>2 DEF Core, RequestsUnique
  <2>3. ASSUME NEW q \in Proto, NEW u \in Proto, NEW i \in 1..Len(requestEvents'[q]),
               NEW j \in 1..Len(requestEvents'[u]), requestEvents'[q][i] = requestEvents'[u][j]
        PROVE  q = u /\ i = j
    <3>0. \A x, y \in Proto : \A k \in 1..Len(requestEvents[x]), l \in 1..Len(requestEvents[y]) :
            requestEvents[x][k] = requestEvents[y][l] => x = y /\ k = l
      BY Zenon, <1>0 DEF Core, RequestsUnique
    <3>1. CASE i \in 1..Len(requestEvents[q]) /\ requestEvents'[q][i] = requestEvents[q][i]
      <4>1. requestEvents'[u][j] # tok
        BY Zenon, <1>9, <2>3, <3>1
      <4>2. j \in 1..Len(requestEvents[u]) /\ requestEvents'[u][j] = requestEvents[u][j]
        BY Zenon, <1>3, <4>1
      <4>3. requestEvents[q][i] = requestEvents[u][j]
        BY Zenon, <2>3, <3>1, <4>2
      <4>4. i \in 1..Len(requestEvents[q]) /\ j \in 1..Len(requestEvents[u])
        BY Zenon, <3>1, <4>2
      <4> QED BY <3>0, <4>3, <4>4, ZenonT(40)
    <3>2. CASE q = to /\ i = Len(requestEvents[to]) + 1 /\ requestEvents'[q][i] = tok
      <4>1. u = to /\ j = Len(requestEvents[to]) + 1
        BY SMTT(30), <1>3, <1>9, <2>3, <3>2
      <4> QED BY Zenon, <3>2, <4>1
    <3> QED BY Zenon, <1>3, <3>1, <3>2
  <2> QED BY Zenon, <2>1, <2>2, <2>3 DEF RequestsUnique
<1> QED BY Zenon, <1>4, <1>6, <1>8, <1>10 DEF Core

\* A request meets its handler: it is in no mailbox any more, so nobody will
\* open its responder again.
LEMMA HandleRequestStep ==
    ASSUME IInv, NEW p \in Proto, handleRequest(p)
    PROVE  Core'
<1>0. TypeOK /\ Core
  BY Zenon DEF IInv, Core
<1>p. PICK tok \in Token : tok = Head(requestEvents[p])
  BY Zenon, <1>0, TailFacts DEF handleRequest, TypeOK
<1>1. /\ requestEvents[p] # <<>>
      /\ requestEvents' = [requestEvents EXCEPT ![p] = Tail(@)]
      /\ phase' = [phase EXCEPT ![p] = "request"]
      /\ serving' = [serving EXCEPT ![p] = tok]
      /\ open' = open \cup {tok}
      /\ UNCHANGED <<nextRequestID, pending, routed, replyEvents, answer, reported, blocked, detached>>
  BY Zenon, <1>p DEF handleRequest, tables, promises
<1>2. /\ tok = requestEvents[p][1] /\ 1 \in 1..Len(requestEvents[p])
      /\ \A i \in 1..Len(requestEvents'[p]) :
           requestEvents'[p][i] = requestEvents[p][i + 1] /\ i + 1 \in 1..Len(requestEvents[p])
      /\ \A q \in Proto \ {p} : requestEvents'[q] = requestEvents[q]
  BY <1>0, <1>1, <1>p, TailFacts DEF TypeOK
<1>3. Fresh(tok)
  BY Zenon, <1>0, <1>2 DEF Core, RequestsFresh
<1>4. IssuedOnly'
  BY Zenon, <1>0, <1>1 DEF Core, IssuedOnly, Issued
<1>5. RespondersSound'
  BY Zenon, <1>0, <1>1, <1>3 DEF Core, RespondersSound, Fresh, TypeOK
<1>6. \A r : Justified(r)' <=> Justified(r)
  BY Zenon, <1>1 DEF Justified, Issued
<1>7. RepliesJustified'
  BY Zenon, <1>0, <1>1, <1>6 DEF Core, RepliesJustified
<1>8. \A t \in Token : Fresh(t) /\ t # tok => Fresh(t)'
  BY Zenon, <1>1 DEF Fresh
<1>9. \A q \in Proto : \A i \in 1..Len(requestEvents'[q]) : requestEvents'[q][i] # tok
  <2> SUFFICES ASSUME NEW q \in Proto, NEW i \in 1..Len(requestEvents'[q])
               PROVE  requestEvents'[q][i] # tok
    BY Zenon
  <2>0. i \in Nat
    BY <1>0, <1>1, TailFacts DEF TypeOK
  <2>1. CASE q = p
    <3>1. requestEvents'[q][i] = requestEvents[p][i + 1] /\ i + 1 \in 1..Len(requestEvents[p])
      BY Zenon, <1>2, <2>1
    <3>2. i + 1 # 1 BY <2>0
    <3> QED BY <1>0, <1>2, <3>1, <3>2 DEF Core, RequestsUnique
  <2>2. CASE q # p
    BY <1>0, <1>2, <2>2 DEF Core, RequestsUnique
  <2> QED BY Zenon, <2>1, <2>2
<1>10. \A h \in Goroutine : blocked[h].kind = "request" => blocked[h].token # tok
  BY <1>0, <1>2 DEF Core, RequestsUnique
<1>11. \A q \in Proto : \A i \in 1..Len(requestEvents'[q]) :
         Fresh(requestEvents'[q][i]) /\ requestEvents'[q][i] \in Token
  BY SMTT(30), <1>0, <1>2, ReplyTokens DEF Core, RequestsFresh
<1>12. RequestsFresh'
  BY Zenon, <1>0, <1>1, <1>8, <1>9, <1>10, <1>11, SendFields DEF Core, RequestsFresh
<1>13. RequestsUnique'
  <2>1. ASSUME NEW h \in Goroutine, NEW q \in Proto, NEW i \in 1..Len(requestEvents'[q]),
               blocked[h].kind = "request"
        PROVE  requestEvents'[q][i] # blocked[h].token
    <3>1. \A u \in Proto : \A j \in 1..Len(requestEvents[u]) : requestEvents[u][j] # blocked[h].token
      BY Zenon, <1>0, <2>1 DEF Core, RequestsUnique
    <3>2. PICK u \in Proto : \E j \in 1..Len(requestEvents[u]) :
                                requestEvents'[q][i] = requestEvents[u][j]
      BY Zenon, <1>2
    <3>3. PICK j \in 1..Len(requestEvents[u]) : requestEvents'[q][i] = requestEvents[u][j]
      BY Zenon, <3>2
    <3> QED BY Zenon, <3>1, <3>3
  <2>2. ASSUME NEW q \in Proto, NEW u \in Proto, NEW i \in 1..Len(requestEvents'[q]),
               NEW j \in 1..Len(requestEvents'[u]), requestEvents'[q][i] = requestEvents'[u][j]
        PROVE  q = u /\ i = j
    <3>0. i \in Nat /\ j \in Nat
      BY <1>0, <1>1, TailFacts DEF TypeOK
    <3>1. CASE q = p /\ u = p
      <4>1. /\ i + 1 \in 1..Len(requestEvents[p]) /\ j + 1 \in 1..Len(requestEvents[p])
            /\ requestEvents[p][i + 1] = requestEvents[p][j + 1]
        BY Zenon, <1>2, <2>2, <3>1
      <4>2. i + 1 = j + 1
        BY Zenon, <1>0, <4>1 DEF Core, RequestsUnique
      <4> QED BY <3>0, <3>1, <4>2
    <3>2. CASE q = p /\ u # p
      BY <1>0, <1>2, <2>2, <3>0, <3>2 DEF Core, RequestsUnique
    <3>3. CASE q # p /\ u = p
      BY <1>0, <1>2, <2>2, <3>0, <3>3 DEF Core, RequestsUnique
    <3>4. CASE q # p /\ u # p
      BY SMTT(30), <1>0, <1>2, <2>2, <3>0, <3>4 DEF Core, RequestsUnique
    <3> QED BY Zenon, <3>1, <3>2, <3>3, <3>4
  <2>3. /\ UNCHANGED blocked
        /\ \A g, h \in Goroutine : blocked[g].kind = "request" /\ blocked[h].kind = "request"
             /\ blocked[g].token = blocked[h].token => g = h
    BY Zenon, <1>0, <1>1 DEF Core, RequestsUnique
  <2> QED BY <2>1, <2>2, <2>3 DEF RequestsUnique
<1> QED BY Zenon, <1>4, <1>5, <1>7, <1>12, <1>13 DEF Core

\* A panic is reported for the request being handled.
LEMMA PanicStep ==
    ASSUME IInv, NEW p \in Proto, Panic(p)
    PROVE  Core'
<1>0. TypeOK /\ Core
  BY Zenon DEF IInv, Core
<1>1. /\ phase[p] = "request" /\ phase' = [phase EXCEPT ![p] = "fail"]
      /\ reported' = reported \cup {serving[p]}
      /\ UNCHANGED <<nextRequestID, pending, routed, requestEvents, replyEvents, serving,
                     answer, open, blocked, detached>>
  BY Zenon DEF Panic, tables, channels
<1>2. RespondersSound'
  BY Zenon, <1>0, <1>1 DEF Core, RespondersSound, TypeOK
<1>3. IssuedOnly' /\ RepliesJustified' /\ RequestsFresh' /\ RequestsUnique'
  BY SMTT(30), <1>0, <1>1 DEF Core, IssuedOnly, Issued, RepliesJustified, Justified, RequestsFresh,
                    Fresh, RequestsUnique
<1> QED BY Zenon, <1>2, <1>3 DEF Core

\* Replies that wait for deliverReply, or are put there by a goroutine.
LEMMA ReplyMoves ==
    ASSUME IInv
    PROVE  /\ \A p \in Proto : deliverReply(p) =>
                \A q \in Proto : \A i \in 1..Len(replyEvents'[q]) : Justified(replyEvents'[q][i])
           /\ \A r \in InboundReply : enqueueReply(r) /\ Justified(r) =>
                \A q \in Proto : \A i \in 1..Len(replyEvents'[q]) : Justified(replyEvents'[q][i])
<1>0. TypeOK /\ \A q \in Proto : \A i \in 1..Len(replyEvents[q]) : Justified(replyEvents[q][i])
  BY Zenon DEF IInv, RepliesJustified
<1>1. ASSUME NEW p \in Proto, deliverReply(p), NEW q \in Proto, NEW i \in 1..Len(replyEvents'[q])
      PROVE  Justified(replyEvents'[q][i])
  <2>1. replyEvents' = [replyEvents EXCEPT ![p] = Tail(@)] /\ replyEvents[p] # <<>>
    BY Zenon, <1>1 DEF deliverReply
  <2>2. \E j \in 1..Len(replyEvents[q]) : replyEvents'[q][i] = replyEvents[q][j]
    <3>1. CASE q = p
      <4>1. replyEvents[p] \in Seq(InboundReply) /\ replyEvents'[q] = Tail(replyEvents[p])
        BY Zenon, <1>0, <2>1, <3>1 DEF TypeOK
      <4>2. replyEvents'[q][i] = replyEvents[q][i + 1] /\ i + 1 \in 1..Len(replyEvents[q])
        <5>1. \A k \in 1..Len(Tail(replyEvents[p])) :
                Tail(replyEvents[p])[k] = replyEvents[p][k + 1] /\ k + 1 \in 1..Len(replyEvents[p])
          BY Zenon, <2>1, <4>1, TailFacts
        <5>2. i \in 1..Len(Tail(replyEvents[p]))
          BY Zenon, <4>1
        <5> QED BY Zenon, <3>1, <4>1, <5>1, <5>2
      <4> QED BY Zenon, <4>2
    <3>2. CASE q # p
      BY Zenon, <1>0, <2>1, <3>2 DEF TypeOK
    <3> QED BY Zenon, <3>1, <3>2
  <2> QED BY Zenon, <1>0, <2>2
<1>2. ASSUME NEW r \in InboundReply, enqueueReply(r), Justified(r), NEW q \in Proto,
             NEW i \in 1..Len(replyEvents'[q])
      PROVE  Justified(replyEvents'[q][i])
  <2>1. /\ replyEvents' = [replyEvents EXCEPT ![r.token.requester] = Append(@, r)]
        /\ r.token.requester \in Proto
    BY Zenon, <1>2 DEF enqueueReply, InboundReply, Token
  <2>2. replyEvents'[q][i] = r \/ \E j \in 1..Len(replyEvents[q]) : replyEvents'[q][i] = replyEvents[q][j]
    <3>1. CASE q # r.token.requester
      <4>1. replyEvents'[q] = replyEvents[q] BY Zenon, <1>0, <2>1, <3>1 DEF TypeOK
      <4> QED BY Zenon, <4>1
    <3>2. CASE q = r.token.requester
      <4>1. replyEvents'[q] = Append(replyEvents[q], r) /\ replyEvents[q] \in Seq(InboundReply)
        BY Zenon, <1>0, <2>1, <3>2 DEF TypeOK
      <4> QED BY <4>1, AppendFacts
    <3> QED BY Zenon, <3>1, <3>2
  <2> QED BY Zenon, <1>0, <1>2, <2>2
<1> QED BY Zenon, <1>1, <1>2

-----------------------------------------------------------------------------
(* Every step, and what follows.                                           *)

\* Every step of the runtime keeps the invariant.
LEMMA InvariantStep ==
    ASSUME IInv, [Next]_vars
    PROVE  IInv'
<1>0. TypeOK /\ RepliesJustified
  BY Zenon DEF IInv
<1>1. ASSUME NEW g \in Goroutine, NEW p \in Proto, UserStep(g, p) PROVE Core'
  <2>1. ASSUME NEW ty \in Type, registerRequestHandler(g, p, ty) PROVE Core'
    BY Zenon, <1>0, <2>1, QuietStep
       DEF registerRequestHandler, channels, loops, promises, LoopsOn, RepliesJustified
  <2>2. ASSUME NEW ty \in Type, sendRequest(g, p, ty) PROVE Core'
    BY Zenon, <2>2, SendRequestStep
  <2>3. ASSUME NEW tok \in open, NEW a \in {"reply", "failed"}, Respond(g, p, tok, a) PROVE Core'
    <3>1. \A h \in Goroutine : blocked'[h] \in {blocked[h], ReplyWith(tok, a)}
      BY Zenon, <1>0, <2>3 DEF Respond, TypeOK
    <3> QED BY Zenon, <2>3, <3>1, ClaimStep DEF Respond, loops, LoopsOn, Abstract!Answers
  <2> QED BY Zenon, <1>1, <2>1, <2>2, <2>3 DEF UserStep
<1>2. ASSUME NEW tok \in open, NEW a \in {"reply", "failed"}, RespondElsewhere(tok, a)
      PROVE  Core'
  BY Zenon, <1>2, ClaimStep DEF RespondElsewhere, loops, LoopsOn, Abstract!Answers
<1>3. ASSUME NEW p \in Proto, LoopStep(p) \/ BeginInit(p) PROVE Core'
  <2>1. CASE handleRequest(p)
    BY Zenon, <2>1, HandleRequestStep
  <2>2. CASE deliverReply(p)
    <3>1. LoopsOn /\ pending' \subseteq pending
      BY Zenon, <1>0, <2>2 DEF deliverReply, LoopsOn, TypeOK
    <3> QED BY Zenon, <2>2, <3>1, ReplyMoves, QuietStep DEF deliverReply
  <2>3. CASE handleOther(p) \/ Return(p)
    <3>1. LoopsOn
      BY Zenon, <1>0, <2>3 DEF handleOther, Return, LoopsOn, TypeOK
    <3> QED BY Zenon, <1>0, <2>3, <3>1, QuietStep
            DEF handleOther, Return, tables, channels, promises, RepliesJustified
  <2>4. CASE LoopReturns(p) \/ BeginInit(p)
    BY Zenon, <1>0, <2>4, QuietStep
       DEF LoopReturns, BeginInit, tables, channels, loops, promises, LoopsOn, RepliesJustified
  <2>5. CASE Panic(p)
    BY Zenon, <2>5, PanicStep
  <2>6. CASE FailPanicked(p)
    <3>1. LoopsOn /\ serving[p] \in reported
      BY Zenon, <1>0, <2>6 DEF FailPanicked, LoopsOn, TypeOK, IInv, RespondersSound
    <3>2. CASE serving[p] \in open
      <4>1. /\ Claim(serving[p], "panicked") /\ UNCHANGED <<tables, channels, detached>>
            /\ \A h \in Goroutine :
                 blocked'[h] \in {blocked[h], ReplyWith(serving[p], "panicked")}
        BY Zenon, <1>0, <2>6, <3>2 DEF FailPanicked, TypeOK
      <4> QED BY Zenon, <3>1, <3>2, <4>1, ClaimStep DEF Abstract!Answers
    <3>3. CASE serving[p] \notin open
      <4>1. UNCHANGED <<open, promises, blocked, tables, channels, detached>>
        BY Zenon, <2>6, <3>3 DEF FailPanicked, Claim
      <4> QED BY Zenon, <1>0, <3>1, <4>1, QuietStep DEF tables, channels, promises, RepliesJustified
    <3> QED BY Zenon, <3>2, <3>3
  <2> QED BY Zenon, <1>3, <2>1, <2>2, <2>3, <2>4, <2>5, <2>6 DEF LoopStep
<1>4. ASSUME NEW g \in Goroutine, SendStep(g) PROVE Core'
  <2>1. CASE enqueueRequest(g)
    BY Zenon, <2>1, EnqueueRequestStep
  <2>2. CASE enqueueReplyFrom(g)
    <3> DEFINE r == ReplyOf(blocked[g].token, blocked[g].result)
    <3>1. r \in InboundReply /\ Justified(blocked[g])
      BY Zenon, <1>0, <2>2, SendFields DEF enqueueReplyFrom, RepliesJustified, ReplyOf, InboundReply
    <3>2. Justified(r)
      BY Zenon, <3>1 DEF Justified, ReplyOf
    <3>3. \A h \in Goroutine : blocked'[h] \in {blocked[h], NoSend}
      BY Zenon, <1>0, <2>2 DEF enqueueReplyFrom, TypeOK
    <3>4. enqueueReply(r) /\ detached' = detached
      BY Zenon, <2>2 DEF enqueueReplyFrom
    <3> HIDE DEF r
    <3>5. \A q \in Proto : \A i \in 1..Len(replyEvents'[q]) : Justified(replyEvents'[q][i])
      BY Zenon, <3>1, <3>2, <3>4, ReplyMoves
    <3> QED BY Zenon, <3>3, <3>4, <3>5, QuietStep
            DEF enqueueReply, tables, loops, promises, LoopsOn
  <2>3. CASE GiveUp(g)
    <3>1. \A h \in Goroutine : blocked'[h] \in {blocked[h], NoSend}
      BY Zenon, <1>0, <2>3 DEF GiveUp, TypeOK
    <3> QED BY Zenon, <1>0, <2>3, <3>1, QuietStep
            DEF GiveUp, tables, channels, loops, promises, LoopsOn, RepliesJustified
  <2> QED BY Zenon, <1>4, <2>1, <2>2, <2>3 DEF SendStep
<1>5. ASSUME NEW r \in detached, DetachedStep(r) PROVE Core'
  <2>1. CASE deliverDetached(r)
    <3>1. r \in InboundReply /\ Justified(r)
      BY Zenon, <1>0 DEF TypeOK, RepliesJustified
    <3>2. \A q \in Proto : \A i \in 1..Len(replyEvents'[q]) : Justified(replyEvents'[q][i])
      BY Zenon, <2>1, <3>1, ReplyMoves DEF deliverDetached
    <3> QED BY Zenon, <2>1, <3>2, QuietStep
            DEF deliverDetached, enqueueReply, tables, loops, promises, LoopsOn
  <2>2. CASE GiveUpDetached(r)
    BY Zenon, <1>0, <2>2, QuietStep
       DEF GiveUpDetached, tables, channels, loops, promises, LoopsOn, RepliesJustified
  <2> QED BY Zenon, <1>5, <2>1, <2>2 DEF DetachedStep
<1>6. CASE EndInit \/ Cancel
  <2>1. Core'
    BY Zenon, <1>0, <1>6, QuietStep
       DEF EndInit, Cancel, tables, channels, loops, promises, LoopsOn, RepliesJustified
  <2> QED BY Zenon, <2>1, TypeStep DEF IInv, Core
<1>7. CASE UNCHANGED vars
  <2>1. Core'
    BY Zenon, <1>0, <1>7, QuietStep
       DEF vars, tables, channels, loops, promises, LoopsOn, RepliesJustified
  <2> QED BY Zenon, <2>1, TypeStep DEF IInv, Core
<1> QED
  BY Zenon, <1>1, <1>2, <1>3, <1>4, <1>5, <1>6, <1>7, TypeStep DEF Next, IInv, Core

-----------------------------------------------------------------------------
(* The theorems.                                                           *)

\* The state startProtocols leaves satisfies the invariant.
LEMMA InvariantInit == Init => IInv
<1> SUFFICES ASSUME Init PROVE IInv
  BY Zenon
<1>0. <<>> \in Seq(Token) /\ <<>> \in Seq(InboundReply) /\ Len(<<>>) = 0
  OBVIOUS
<1>1. NoSend \in ChannelSend /\ NoSend.kind = "none"
  BY Zenon DEF NoSend, ChannelSend
<1>b. cancelled \in BOOLEAN
  BY Zenon DEF Init
<1>2. /\ requestEvents \in [Proto -> Seq(Token)] /\ replyEvents \in [Proto -> Seq(InboundReply)]
      /\ \A p \in Proto : Len(requestEvents[p]) = 0 /\ Len(replyEvents[p]) = 0
  BY Zenon, <1>0 DEF Init
<1>3. blocked \in [Goroutine -> ChannelSend] /\ \A g \in Goroutine : blocked[g].kind = "none"
  BY Zenon, <1>1 DEF Init
<1>4. /\ route \in [Type -> Proto \cup {Nil}] /\ nextRequestID \in [Proto -> 0..MaxRequests]
      /\ phase \in [Proto -> {"select", "request", "callback", "fail"}]
      /\ serving \in [Proto -> Token \cup {Nil}]
      /\ answer \in [Token -> Result \cup {Nil}] /\ result \in [Token -> Result \cup {Nil}]
  BY IpcAssumption DEF Init
<1>5. /\ pending = {} /\ routed = {} /\ open = {} /\ detached = {} /\ reported = {}
      /\ stopped = {} /\ initOf = Nil /\ toInit \subseteq Proto
      /\ \A p \in Proto : phase[p] = "select"
      /\ \A tok \in Token : answer[tok] = Nil
  BY Zenon, IpcAssumption DEF Init
<1>6. TypeOK
  BY <1>2, <1>3, <1>4, <1>5, <1>b, IpcAssumption DEF TypeOK
<1>e. \A p \in Proto : /\ \A i \in 1..Len(requestEvents[p]) : FALSE
                       /\ \A i \in 1..Len(replyEvents[p]) : FALSE
  <2>1. \A i \in 1..0 : FALSE OBVIOUS
  <2> QED BY Zenon, <1>2, <2>1
<1>7. IssuedOnly /\ RepliesJustified
  BY Zenon, <1>e, <1>3, <1>5 DEF IssuedOnly, RepliesJustified
<1>n. Nil # "panicked"
  BY Zenon, IpcAssumption DEF Result
<1>r. RespondersSound
  BY Zenon, <1>5, <1>n DEF RespondersSound
<1>8. RequestsFresh /\ RequestsUnique
  BY Zenon, <1>e, <1>3 DEF RequestsFresh, RequestsUnique
<1> QED BY Zenon, <1>6, <1>7, <1>r, <1>8 DEF IInv

\* Every reachable state of the request machinery satisfies the invariant.
THEOREM Invariance == Spec => []IInv
<1>1. IInv /\ [Next]_vars => IInv'
  BY Zenon, InvariantStep
<1> QED BY <1>1, InvariantInit, PTL DEF Spec

\* The request machinery stays well typed and its mailboxes within capacity.
THEOREM TypeCorrect == Spec => []TypeOK
<1>1. IInv => TypeOK
  BY Zenon DEF IInv
<1> QED BY <1>1, Invariance, PTL

\* What changes of a request's status: nothing, its issue, its completion.
LEMMA StatusKept ==
    ASSUME UNCHANGED <<nextRequestID, pending, routed>>
    PROVE  Status' = Status
BY Zenon DEF Status, Issued

\* sendRequest issues a new token, routed or not.
LEMMA StatusIssued ==
    ASSUME IInv, NEW g \in Goroutine, NEW p \in Proto, NEW ty \in Type, sendRequest(g, p, ty)
    PROVE  \E tok \in Token : Abstract!Issue(tok, "pending") \/ Abstract!Issue(tok, "unrouted")
<1>0. TypeOK
  BY Zenon DEF IInv
<1>p. PICK tok \in Token : tok = TokenOf(p, nextRequestID[p] + 1)
  BY Zenon, NewToken DEF sendRequest
<1>1. /\ tok.requester = p /\ ~Issued(tok) /\ tok \notin routed
      /\ tok.requestID = nextRequestID[p] + 1
  BY Zenon, <1>p, NewToken DEF sendRequest, TokenOf
<1>2. /\ nextRequestID' = [nextRequestID EXCEPT ![p] = @ + 1]
      /\ pending' = pending \cup {tok}
      /\ routed' \in {routed, routed \cup {tok}}
      /\ UNCHANGED <<answer, reported, result>>
  BY Zenon, <1>p DEF sendRequest, promises
<1>3. Issued(tok)' /\ Status[tok] = "new"
  BY <1>0, <1>1, <1>2, IpcAssumption DEF Issued, Status, TypeOK, Token
<1>4. \A t \in Token \ {tok} : Issued(t)' <=> Issued(t)
  <2> SUFFICES ASSUME NEW t \in Token \ {tok} PROVE Issued(t)' <=> Issued(t)
    BY Zenon
  <2>1. CASE t.requester # p
    BY Zenon, <1>0, <1>2, <2>1 DEF Issued, TypeOK, Token
  <2>2. CASE t.requester = p
    <3>1. t.requestID # nextRequestID[p] + 1
      BY <1>1, <2>2 DEF Token
    <3>2. t.requestID \in Nat /\ nextRequestID[p] \in Nat /\ nextRequestID'[p] = nextRequestID[p] + 1
      BY <1>0, <1>2, IpcAssumption DEF TypeOK, Token
    <3>3. t.requestID <= nextRequestID'[p] <=> t.requestID <= nextRequestID[p]
      BY SMTT(30), <3>1, <3>2
    <3> QED BY Zenon, <2>2, <3>3 DEF Issued
  <2> QED BY Zenon, <2>1, <2>2
<1>5. Status' = [Status EXCEPT ![tok] = IF tok \in routed' THEN "pending" ELSE "unrouted"]
  BY Zenon, <1>2, <1>3, <1>4 DEF Status
<1> QED BY Zenon, <1>2, <1>3, <1>5 DEF Abstract!Issue

\* deliverReply completes a request that waits, with a justified result.
LEMMA StatusCompleted ==
    ASSUME IInv, NEW p \in Proto, deliverReply(p)
    PROVE  \/ UNCHANGED Abstract!abstractVars
           \/ \E tok \in Token, x \in Abstract!Answers \cup {"timeout", "noHandler"} :
                Abstract!Complete(tok, x)
<1>0. TypeOK /\ RepliesJustified /\ IssuedOnly /\ RespondersSound
  BY Zenon DEF IInv
<1>p. PICK r \in InboundReply : r = Head(replyEvents[p])
  BY Zenon, <1>0, TailFacts DEF deliverReply, TypeOK
<1>1. Justified(r) /\ r.token \in Token
  <2>1. replyEvents[p] \in Seq(InboundReply) /\ replyEvents[p] # <<>>
    BY Zenon, <1>0 DEF deliverReply, TypeOK
  <2>2. Justified(r) BY Zenon, <1>0, <1>p, <2>1, TailFacts DEF RepliesJustified
  <2> QED BY Zenon, <2>2 DEF InboundReply
<1>2. CASE r.token \notin pending
  <2>1. UNCHANGED <<nextRequestID, pending, routed, answer, reported, result>>
    BY Zenon, <1>2, <1>p DEF deliverReply
  <2> QED BY Zenon, <2>1, StatusKept DEF Abstract!abstractVars
<1>3. CASE r.token \in pending
  <2>1. /\ pending' = pending \ {r.token}
        /\ result' = [result EXCEPT ![r.token] = r.result]
        /\ UNCHANGED <<nextRequestID, routed, answer, reported>>
    BY Zenon, <1>3, <1>p DEF deliverReply
  <2>2. \A t \in Token : Issued(t)' <=> Issued(t)
    BY Zenon, <2>1 DEF Issued
  <2>3. Status' = [Status EXCEPT ![r.token] = "done"]
    BY Zenon, <1>0, <1>1, <1>3, <2>1, <2>2 DEF Status, IssuedOnly
  <2>4. Status[r.token] = IF r.token \in routed THEN "pending" ELSE "unrouted"
    BY Zenon, <1>0, <1>1, <1>3 DEF Status, IssuedOnly
  <2>5. answer[r.token] # Nil => r.token \in routed
    BY Zenon, <1>0, <1>1 DEF RespondersSound
  <2>6. /\ r.result \in Abstract!Answers \cup {"timeout", "noHandler"}
        /\ \/ Status[r.token] = "pending" /\ (r.result = "timeout" \/
                 (r.result \in Abstract!Answers /\ r.result = answer[r.token]))
           \/ Status[r.token] = "unrouted" /\ r.result = "noHandler"
    BY Zenon, <1>1, <2>4, <2>5, IpcAssumption DEF Justified, Abstract!Answers, Result
  <2>7. Abstract!Complete(r.token, r.result)
    BY Zenon, <2>1, <2>3, <2>6 DEF Abstract!Complete
  <2> QED BY Zenon, <1>1, <2>6, <2>7
<1> QED BY Zenon, <1>2, <1>3

\* A responder that is claimed answers a request that was routed.
LEMMA StatusAnswered ==
    ASSUME IInv, NEW tok \in open, NEW a \in Abstract!Answers, Claim(tok, a),
           a = "panicked" => tok \in reported, UNCHANGED tables
    PROVE  tok \in Token /\ Abstract!Answer(tok, a)
<1>1. tok \in Token /\ tok \in routed /\ answer[tok] = Nil /\ Issued(tok)
  BY Zenon DEF IInv, TypeOK, RespondersSound, IssuedOnly
<1>2. Status[tok] \in {"pending", "done"} /\ Status' = Status
  BY Zenon, <1>1, StatusKept DEF Status, tables
<1> QED BY Zenon, <1>1, <1>2 DEF Claim, Abstract!Answer

\* Each step of the runtime is a step of RequestReply or none.
LEMMA RefinementStep ==
    ASSUME IInv, [Next]_vars
    PROVE  [Abstract!Step]_(Abstract!abstractVars)
<1>1. ASSUME UNCHANGED <<tables, promises>> PROVE UNCHANGED Abstract!abstractVars
  BY Zenon, <1>1, StatusKept DEF tables, promises, Abstract!abstractVars
<1>2. ASSUME NEW g \in Goroutine, NEW p \in Proto, UserStep(g, p)
      PROVE  [Abstract!Step]_(Abstract!abstractVars)
  <2>1. ASSUME NEW ty \in Type, registerRequestHandler(g, p, ty)
        PROVE  UNCHANGED Abstract!abstractVars
    BY Zenon, <2>1, StatusKept DEF registerRequestHandler, promises, Abstract!abstractVars
  <2>2. ASSUME NEW ty \in Type, sendRequest(g, p, ty) PROVE Abstract!Step
    BY Zenon, <2>2, StatusIssued DEF Abstract!Step
  <2>3. ASSUME NEW tok \in open, NEW a \in {"reply", "failed"}, Respond(g, p, tok, a)
        PROVE  Abstract!Step
    BY Zenon, <2>3, StatusAnswered DEF Respond, Abstract!Step, Abstract!Answers
  <2> QED BY Zenon, <1>2, <2>1, <2>2, <2>3 DEF UserStep
<1>3. ASSUME NEW tok \in open, NEW a \in {"reply", "failed"}, RespondElsewhere(tok, a)
      PROVE  Abstract!Step
  BY Zenon, <1>3, StatusAnswered DEF RespondElsewhere, Abstract!Step, Abstract!Answers
<1>4. ASSUME NEW p \in Proto, LoopStep(p) \/ BeginInit(p)
      PROVE  [Abstract!Step]_(Abstract!abstractVars)
  <2>1. CASE handleRequest(p) \/ handleOther(p) \/ Return(p) \/ LoopReturns(p) \/ BeginInit(p)
    BY Zenon, <1>1, <2>1 DEF handleRequest, handleOther, Return, LoopReturns, BeginInit
  <2>2. CASE deliverReply(p)
    BY Zenon, <2>2, StatusCompleted DEF Abstract!Step
  <2>3. CASE Panic(p)
    <3>1. serving[p] \in Token /\ Status[serving[p]] \in {"pending", "done"}
      BY Zenon, <2>3 DEF Panic, IInv, TypeOK, RespondersSound, IssuedOnly, Status
    <3>2. Abstract!Report(serving[p])
      BY Zenon, <2>3, <3>1, StatusKept DEF Panic, tables, Abstract!Report
    <3> QED BY Zenon, <3>1, <3>2 DEF Abstract!Step
  <2>4. CASE FailPanicked(p)
    <3>1. CASE serving[p] \in open
      <4>1. serving[p] \in reported
        BY Zenon, <2>4 DEF FailPanicked, IInv, RespondersSound
      <4>2. Claim(serving[p], "panicked") /\ UNCHANGED tables
        BY Zenon, <2>4, <3>1 DEF FailPanicked
      <4> QED BY Zenon, <3>1, <4>1, <4>2, StatusAnswered DEF Abstract!Step, Abstract!Answers
    <3>2. CASE serving[p] \notin open
      BY Zenon, <1>1, <2>4, <3>2 DEF FailPanicked, Claim
    <3> QED BY Zenon, <3>1, <3>2
  <2> QED BY Zenon, <1>4, <2>1, <2>2, <2>3, <2>4 DEF LoopStep
<1>5. ASSUME NEW g \in Goroutine, SendStep(g) PROVE UNCHANGED Abstract!abstractVars
  BY Zenon, <1>1, <1>5 DEF SendStep, enqueueRequest, enqueueReplyFrom, enqueueReply, GiveUp
<1>6. ASSUME NEW r \in detached, DetachedStep(r) PROVE UNCHANGED Abstract!abstractVars
  BY Zenon, <1>1, <1>6 DEF DetachedStep, deliverDetached, enqueueReply, GiveUpDetached
<1>7. CASE EndInit \/ Cancel \/ UNCHANGED vars
  BY Zenon, <1>1, <1>7 DEF EndInit, Cancel, vars
<1> QED BY Zenon, <1>2, <1>3, <1>4, <1>5, <1>6, <1>7 DEF Next

\* The request machinery implements RequestReply: however replies, timeouts,
\* panics and late responders interleave, a callback runs at most once and
\* with a result that its request really had.
THEOREM Refinement == Spec => Implements
<1>1. Init => Abstract!Begin
  <2> SUFFICES ASSUME Init PROVE Abstract!Begin
    BY Zenon
  <2>1. \A tok \in Token : ~Issued(tok)
    BY DEF Init, Issued, Token
  <2>2. Status = [tok \in Token |-> "new"]
    BY Zenon, <2>1 DEF Status
  <2> QED BY Zenon, <2>2 DEF Init, Abstract!Begin
<1>2. IInv /\ [Next]_vars => [Abstract!Step]_(Abstract!abstractVars)
  BY Zenon, RefinementStep
<1> QED BY <1>1, <1>2, Invariance, PTL DEF Spec, Implements, Abstract!Promise

\* If the requester saw ErrHandlerPanicked, OnPanic had been called
\* (RegisterRequestHandler: report first, fail second).
THEOREM PanicOrder == Spec => []PanicReportedFirst
<1>1. Init => PanicReportedFirst
  <2> SUFFICES ASSUME Init, NEW tok \in Token PROVE result[tok] # "panicked"
    BY Zenon DEF PanicReportedFirst
  <2>1. result[tok] = Nil
    BY Zenon DEF Init
  <2> QED BY Zenon, <2>1, IpcAssumption DEF Result
<1>2. IInv /\ PanicReportedFirst /\ [Next]_vars => PanicReportedFirst'
  <2> SUFFICES ASSUME IInv, PanicReportedFirst, [Next]_vars,
                      NEW tok \in Token, result'[tok] = "panicked"
               PROVE  tok \in reported'
    BY Zenon DEF PanicReportedFirst
  <2>0. TypeOK /\ RepliesJustified /\ RespondersSound
    BY Zenon DEF IInv
  <2>1. reported \subseteq reported'
    BY ZenonT(40) DEF Next, vars, UserStep, LoopStep, SendStep, DetachedStep, registerRequestHandler,
           sendRequest, Respond, RespondElsewhere, Claim, BeginInit, EndInit, handleRequest,
           deliverReply, handleOther, Return, Panic, FailPanicked, LoopReturns,
           enqueueRequest, enqueueReplyFrom, enqueueReply, deliverDetached, GiveUp,
           GiveUpDetached, Cancel, promises
  <2>2. CASE result' = result
    BY Zenon, <2>1, <2>2 DEF PanicReportedFirst
  <2>3. CASE \E p \in Proto : deliverReply(p)
    <3> PICK p \in Proto : deliverReply(p)
      BY Zenon, <2>3
    <3>p. PICK r \in InboundReply : r = Head(replyEvents[p])
      BY Zenon, <2>0, TailFacts DEF deliverReply, TypeOK
    <3>1. Justified(r) /\ r.token \in Token
      <4>1. replyEvents[p] \in Seq(InboundReply) /\ replyEvents[p] # <<>>
        BY Zenon, <2>0 DEF deliverReply, TypeOK
      <4>2. Justified(r) BY Zenon, <2>0, <3>p, <4>1, TailFacts DEF RepliesJustified
      <4> QED BY Zenon, <4>2 DEF InboundReply
    <3>2. result' = result \/ result' = [result EXCEPT ![r.token] = r.result]
      BY Zenon, <3>p DEF deliverReply
    <3>3. r.result = "panicked" => r.token \in reported
      BY Zenon, <2>0, <3>1 DEF Justified, RespondersSound
    <3> QED BY Zenon, <2>0, <2>1, <3>1, <3>2, <3>3 DEF TypeOK, PanicReportedFirst
  <2>4. result' = result \/ \E p \in Proto : deliverReply(p)
    BY ZenonT(40) DEF Next, vars, UserStep, LoopStep, SendStep, DetachedStep, registerRequestHandler,
           sendRequest, Respond, RespondElsewhere, Claim, BeginInit, EndInit, handleRequest,
           handleOther, Return, Panic, FailPanicked, LoopReturns, enqueueRequest,
           enqueueReplyFrom, enqueueReply, deliverDetached, GiveUp, GiveUpDetached, Cancel,
           promises
  <2> QED BY Zenon, <2>2, <2>3, <2>4
<1> QED BY <1>1, <1>2, Invariance, PTL DEF Spec

-----------------------------------------------------------------------------
(* No callback is lost.                                                    *)

\* A reply to tok is being delivered by a goroutine.
Carried(tok) ==
    \/ \E g \in Goroutine : blocked[g].kind = "reply" /\ blocked[g].token = tok
    \/ \E r \in detached : r.token = tok

\* A goroutine enters a channel send from user code, or to fail a responder.
LEMMA SendersEnter ==
    ASSUME TypeOK, [Next]_vars, NEW g \in Goroutine
    PROVE  \/ blocked'[g] = blocked[g]
           \/ blocked'[g] = NoSend /\ SendStep(g)
           \/ \E p \in Proto : InUserCode(g, p)
           \/ g \in Proto /\ FailPanicked(g)
<1> USE DEF TypeOK
<1>1. ASSUME NEW h \in Goroutine, NEW p \in Proto, UserStep(h, p), h # g
      PROVE  blocked'[g] = blocked[g]
  BY Zenon, <1>1 DEF UserStep, registerRequestHandler, sendRequest, Respond
<1>2. ASSUME NEW p \in Proto, UserStep(g, p) PROVE InUserCode(g, p)
  BY Zenon, <1>2 DEF UserStep, registerRequestHandler, sendRequest, Respond
<1>3. ASSUME NEW p \in Proto, LoopStep(p) \/ BeginInit(p), ~(p = g /\ FailPanicked(p))
      PROVE  blocked'[g] = blocked[g]
  BY Zenon, <1>3 DEF LoopStep, handleRequest, deliverReply, handleOther, Return, Panic,
     FailPanicked, LoopReturns, BeginInit
<1>4. ASSUME NEW h \in Goroutine, SendStep(h)
      PROVE  blocked'[g] = blocked[g] \/ (h = g /\ blocked'[g] = NoSend)
  BY Zenon, <1>4 DEF SendStep, enqueueRequest, enqueueReplyFrom, GiveUp
<1>5. ASSUME \/ \E tok \in open, a \in {"reply", "failed"} : RespondElsewhere(tok, a)
             \/ \E r \in detached : DetachedStep(r)
             \/ EndInit \/ Cancel \/ UNCHANGED vars
      PROVE  blocked' = blocked
  BY Zenon, <1>5 DEF RespondElsewhere, DetachedStep, deliverDetached, GiveUpDetached, EndInit,
     Cancel, vars
<1> QED BY Zenon, <1>1, <1>2, <1>3, <1>4, <1>5 DEF Next

\* An event loop starts to recover in Panic only.
LEMMA RecoveryStarts ==
    ASSUME TypeOK, [Next]_vars, NEW p \in Proto, phase'[p] = "fail", phase[p] # "fail"
    PROVE  Panic(p)
<1> USE DEF TypeOK, loops
<1>1. ASSUME NEW q \in Proto, LoopStep(q) \/ BeginInit(q) PROVE Panic(p)
  BY Zenon, <1>1 DEF LoopStep, handleRequest, deliverReply, handleOther, Return, Panic,
     FailPanicked, LoopReturns, BeginInit
<1>2. ASSUME \/ \E g \in Goroutine, q \in Proto : UserStep(g, q)
             \/ \E tok \in open, a \in {"reply", "failed"} : RespondElsewhere(tok, a)
             \/ \E g \in Goroutine : SendStep(g)
             \/ \E r \in detached : DetachedStep(r)
             \/ EndInit \/ Cancel \/ UNCHANGED vars
      PROVE  phase' = phase
  BY ZenonT(40), <1>2 DEF UserStep, registerRequestHandler, sendRequest, Respond, RespondElsewhere,
     SendStep, enqueueRequest, enqueueReplyFrom, enqueueReply, GiveUp, DetachedStep,
     deliverDetached, GiveUpDetached, EndInit, Cancel, vars
<1> QED BY Zenon, <1>1, <1>2 DEF Next

\* While an event loop recovers from a panic it enters no channel send.
LEMMA PanickedIdleStep ==
    ASSUME TypeOK, PanickedIdle, [Next]_vars
    PROVE  PanickedIdle'
<1> SUFFICES ASSUME NEW p \in Proto, phase'[p] = "fail" PROVE blocked'[p].kind = "none"
  BY Zenon DEF PanickedIdle
<1>1. NoSend.kind = "none" /\ p \in Goroutine /\ p # Main
  BY Zenon, IpcAssumption DEF NoSend, Goroutine
<1>2. CASE phase[p] = "fail"
  <2>1. blocked[p].kind = "none" BY Zenon, <1>2 DEF PanickedIdle
  <2>2. ~FailPanicked(p) /\ \A q \in Proto : ~InUserCode(p, q)
    BY Zenon, <1>1, <1>2 DEF FailPanicked, InUserCode, TypeOK
  <2> QED BY Zenon, <1>1, <2>1, <2>2, SendersEnter
<1>3. CASE phase[p] # "fail"
  BY Zenon, <1>1, <1>3, RecoveryStarts DEF Panic
<1> QED BY Zenon, <1>2, <1>3

\* A mailbox grows at its end and loses its first reply in deliverReply.
LEMMA MailboxMoves ==
    ASSUME TypeOK, [Next]_vars
    PROVE  \/ replyEvents' = replyEvents
           \/ \E p \in Proto : deliverReply(p)
           \/ \E r \in InboundReply : enqueueReply(r)
<1>1. ASSUME NEW g \in Goroutine, SendStep(g)
      PROVE  replyEvents' = replyEvents \/ \E r \in InboundReply : enqueueReply(r)
  <2>1. CASE enqueueReplyFrom(g)
    <3>1. ReplyOf(blocked[g].token, blocked[g].result) \in InboundReply
      BY Zenon, <2>1, SendFields DEF enqueueReplyFrom, ReplyOf, InboundReply
    <3> QED BY Zenon, <2>1, <3>1 DEF enqueueReplyFrom
  <2>2. CASE enqueueRequest(g) \/ GiveUp(g)
    BY Zenon, <2>2 DEF enqueueRequest, GiveUp, channels
  <2> QED BY Zenon, <1>1, <2>1, <2>2 DEF SendStep
<1>2. ASSUME NEW r \in detached, DetachedStep(r)
      PROVE  replyEvents' = replyEvents \/ enqueueReply(r)
  BY Zenon, <1>2 DEF DetachedStep, deliverDetached, GiveUpDetached, channels
<1>3. ASSUME NEW p \in Proto, LoopStep(p) \/ BeginInit(p), ~deliverReply(p)
      PROVE  replyEvents' = replyEvents
  BY Zenon, <1>3 DEF LoopStep, handleRequest, handleOther, Return, Panic, FailPanicked,
     LoopReturns, BeginInit, channels
<1>4. ASSUME \/ \E g \in Goroutine, p \in Proto : UserStep(g, p)
             \/ \E tok \in open, a \in {"reply", "failed"} : RespondElsewhere(tok, a)
             \/ EndInit \/ Cancel \/ UNCHANGED vars
      PROVE  replyEvents' = replyEvents
  BY ZenonT(40), <1>4 DEF UserStep, registerRequestHandler, sendRequest, Respond, RespondElsewhere,
     EndInit, Cancel, vars, channels
<1> QED BY Zenon, <1>1, <1>2, <1>3, <1>4 DEF Next, TypeOK

\* What is appended to a mailbox is queued there, and so is what was there.
LEMMA QueuedByEnqueue ==
    ASSUME TypeOK, NEW r \in InboundReply, enqueueReply(r), NEW tok \in Token,
           Queued(tok) \/ r.token = tok
    PROVE  Queued(tok)'
<1>1. /\ replyEvents' = [replyEvents EXCEPT ![r.token.requester] = Append(@, r)]
      /\ r.token.requester \in Proto /\ tok.requester \in Proto
  BY Zenon DEF enqueueReply, InboundReply, Token
<1>2. CASE r.token.requester # tok.requester
  BY Zenon, <1>1, <1>2 DEF TypeOK, Queued
<1>3. CASE r.token.requester = tok.requester
  <2> DEFINE q == replyEvents[tok.requester]
  <2>1. replyEvents'[tok.requester] = Append(q, r) /\ q \in Seq(InboundReply)
    BY Zenon, <1>1, <1>3 DEF TypeOK
  <2>2. ASSUME NEW i \in 1..Len(q), q[i].token = tok
        PROVE  i \in 1..Len(Append(q, r)) /\ Append(q, r)[i].token = tok
    <3>1. Append(q, r)[i] = q[i] BY SMTT(30), <2>1, AppendFacts
    <3>2. Len(q) \in Nat /\ Len(Append(q, r)) = Len(q) + 1 BY <2>1, AppendFacts
    <3> HIDE DEF q
    <3>3. i \in 1..(Len(q) + 1) BY <3>2
    <3> QED BY Zenon, <2>2, <3>1, <3>2, <3>3
  <2>3. Len(q) + 1 \in 1..Len(Append(q, r)) /\ Append(q, r)[Len(q) + 1] = r
    <3>1. Len(q) \in Nat /\ Len(Append(q, r)) = Len(q) + 1 BY <2>1, AppendFacts
    <3>2. Append(q, r)[Len(q) + 1] = r BY ZenonT(40), <2>1, AppendFacts
    <3> HIDE DEF q
    <3>3. Len(q) + 1 \in 1..(Len(q) + 1) BY <3>1
    <3> QED BY Zenon, <3>1, <3>2, <3>3
  <2> QED BY Zenon, <2>1, <2>2, <2>3 DEF Queued
<1> QED BY Zenon, <1>2, <1>3

\* The reply of a request that still waits stays in its mailbox.
LEMMA QueuedByDelivery ==
    ASSUME TypeOK, NEW p \in Proto, deliverReply(p), NEW tok \in Token, tok \in pending',
           Queued(tok)
    PROVE  Queued(tok)'
<1>1. /\ replyEvents' = [replyEvents EXCEPT ![p] = Tail(@)] /\ replyEvents[p] # <<>>
      /\ Head(replyEvents[p]).token # tok /\ tok.requester \in Proto
  BY Zenon DEF deliverReply, Token
<1>2. CASE p # tok.requester
  BY Zenon, <1>1, <1>2 DEF TypeOK, Queued
<1>3. CASE p = tok.requester
  <2> DEFINE q == replyEvents[p]
  <2>1. replyEvents'[p] = Tail(q) /\ q \in Seq(InboundReply) /\ q # <<>>
    BY Zenon, <1>1 DEF TypeOK
  <2>2. PICK i \in 1..Len(q) : q[i].token = tok
    BY Zenon, <1>3 DEF Queued
  <2>3. i # 1 BY Zenon, <1>1, <2>1, <2>2, TailFacts
  <2>4. Len(q) \in Nat /\ Len(Tail(q)) = Len(q) - 1 BY Zenon, <2>1, TailFacts
  <2>5. i - 1 \in 1..Len(Tail(q)) /\ (i - 1) + 1 = i
    <3> HIDE DEF q
    <3> QED BY <2>3, <2>4
  <2>6. Tail(q)[i - 1] = q[i] BY ZenonT(40), <2>1, <2>5, TailFacts
  <2> QED BY Zenon, <1>3, <2>1, <2>2, <2>5, <2>6 DEF Queued
<1> QED BY Zenon, <1>2, <1>3

\* A reply that a goroutine carries is delivered, unless the runtime is
\* cancelled: no send gives up and none is forgotten.
LEMMA CarriedStep ==
    ASSUME TypeOK, PanickedIdle, [Next]_vars, ~cancelled, NEW tok \in Token, Carried(tok)
    PROVE  Carried(tok)' \/ Queued(tok)'
<1>1. ASSUME NEW g \in Goroutine, blocked[g].kind = "reply", blocked[g].token = tok
      PROVE  Carried(tok)' \/ Queued(tok)'
  <2>1. CASE blocked'[g] = blocked[g]
    BY Zenon, <1>1, <2>1 DEF Carried
  <2>2. CASE SendStep(g)
    <3>1. enqueueReplyFrom(g)
      BY Zenon, <1>1, <2>2 DEF SendStep, enqueueRequest, GiveUp
    <3> DEFINE r == ReplyOf(blocked[g].token, blocked[g].result)
    <3>2. r \in InboundReply /\ r.token = tok
      BY Zenon, <1>1, SendFields DEF ReplyOf, InboundReply
    <3>3. enqueueReply(r) BY Zenon, <3>1 DEF enqueueReplyFrom
    <3> HIDE DEF r
    <3> QED BY Zenon, <3>2, <3>3, QueuedByEnqueue
  <2>3. \A p \in Proto : ~InUserCode(g, p)
    <3>1. NoSend.kind = "none" BY Zenon DEF NoSend
    <3> QED BY Zenon, <1>1, <3>1 DEF InUserCode
  <2>4. ~(g \in Proto /\ FailPanicked(g))
    BY Zenon, <1>1 DEF PanickedIdle, FailPanicked
  <2> QED BY Zenon, <2>1, <2>2, <2>3, <2>4, SendersEnter
<1>2. ASSUME NEW r \in detached, r.token = tok
      PROVE  Carried(tok)' \/ Queued(tok)'
  <2>1. CASE r \in detached'
    BY Zenon, <1>2, <2>1 DEF Carried
  <2>2. CASE DetachedStep(r)
    <3>1. enqueueReply(r) BY Zenon, <2>2 DEF DetachedStep, deliverDetached, GiveUpDetached
    <3> QED BY Zenon, <1>2, <3>1, QueuedByEnqueue DEF TypeOK
  <2>3. r \in detached' \/ DetachedStep(r)
    <3>1. ASSUME NEW s \in detached, DetachedStep(s), s # r PROVE r \in detached'
      BY Zenon, <3>1 DEF DetachedStep, deliverDetached, GiveUpDetached
    <3>2. ASSUME \/ \E g \in Goroutine, p \in Proto : UserStep(g, p)
                 \/ \E t \in open, a \in {"reply", "failed"} : RespondElsewhere(t, a)
          PROVE  r \in detached'
      BY ZenonT(40), <3>2 DEF UserStep, registerRequestHandler, sendRequest, Respond, RespondElsewhere
    <3>3. ASSUME \/ \E p \in Proto : LoopStep(p) \/ BeginInit(p)
                 \/ \E g \in Goroutine : SendStep(g)
                 \/ EndInit \/ Cancel \/ UNCHANGED vars
          PROVE  r \in detached'
      BY Zenon, <3>3 DEF LoopStep, handleRequest, deliverReply, handleOther, Return, Panic,
         FailPanicked, LoopReturns, BeginInit, SendStep, enqueueRequest, enqueueReplyFrom,
         GiveUp, EndInit, Cancel, vars
    <3> QED BY Zenon, <3>1, <3>2, <3>3 DEF Next
  <2> QED BY Zenon, <2>1, <2>2, <2>3
<1> QED BY Zenon, <1>1, <1>2 DEF Carried

\* Until the runtime is cancelled, a request that waits has a reply in its
\* mailbox, a goroutine that delivers one, or an armed timeout, for any
\* number of protocols and requests and any mailbox capacity: sendRequest
\* makes the pending entry together with what will complete it.
THEOREM NoCallbackLost == Spec => []CompletionOnTheWay
<1>1. Init => PanickedIdle /\ CompletionOnTheWay
  BY Zenon DEF Init, PanickedIdle, CompletionOnTheWay
<1>2. IInv /\ PanickedIdle /\ CompletionOnTheWay /\ [Next]_vars
        => PanickedIdle' /\ CompletionOnTheWay'
  <2> SUFFICES ASSUME IInv, PanickedIdle, CompletionOnTheWay, [Next]_vars
               PROVE  PanickedIdle' /\ CompletionOnTheWay'
    OBVIOUS
  <2>0. TypeOK BY Zenon DEF IInv
  <2> SUFFICES ASSUME NEW tok \in pending', ~cancelled' PROVE Queued(tok)' \/ Carried(tok)'
    BY Zenon, <2>0, PanickedIdleStep DEF CompletionOnTheWay, Carried
  <2>1. ~cancelled
    BY ZenonT(40) DEF Next, vars, UserStep, LoopStep, SendStep, DetachedStep, registerRequestHandler,
       sendRequest, Respond, RespondElsewhere, BeginInit, EndInit, handleRequest, deliverReply,
       handleOther, Return, Panic, FailPanicked, LoopReturns, enqueueRequest, enqueueReplyFrom,
       enqueueReply, deliverDetached, GiveUp, GiveUpDetached, Cancel
  <2>2. CASE tok \in pending
    <3>1. tok \in Token /\ (Queued(tok) \/ Carried(tok))
      BY Zenon, <2>0, <2>1, <2>2 DEF CompletionOnTheWay, Carried, TypeOK
    <3>2. Queued(tok) => Queued(tok)'
      BY Zenon, <2>0, <3>1, MailboxMoves, QueuedByEnqueue, QueuedByDelivery DEF Queued
    <3> QED BY Zenon, <2>0, <2>1, <3>1, <3>2, CarriedStep
  <2>3. CASE tok \notin pending
    <3>1. PICK g \in Goroutine, p \in Proto, ty \in Type : sendRequest(g, p, ty)
      BY ZenonT(40), <2>3 DEF Next, vars, UserStep, LoopStep, SendStep, DetachedStep,
         registerRequestHandler, Respond, RespondElsewhere, BeginInit, EndInit, handleRequest,
         deliverReply, handleOther, Return, Panic, FailPanicked, LoopReturns, enqueueRequest,
         enqueueReplyFrom, enqueueReply, deliverDetached, GiveUp, GiveUpDetached, Cancel, tables
    <3>2. tok = TokenOf(p, nextRequestID[p] + 1)
      BY Zenon, <2>3, <3>1 DEF sendRequest
    <3>3. \/ blocked' = [blocked EXCEPT ![g] = ReplyWith(tok, "noHandler")]
          \/ ReplyOf(tok, "timeout") \in detached'
      BY Zenon, <3>1, <3>2 DEF sendRequest
    <3>4. /\ ReplyWith(tok, "noHandler").kind = "reply" /\ ReplyWith(tok, "noHandler").token = tok
          /\ ReplyOf(tok, "timeout").token = tok
      BY Zenon DEF ReplyWith, ReplyOf
    <3> QED BY Zenon, <2>0, <3>3, <3>4 DEF Carried, TypeOK
  <2> QED BY Zenon, <2>2, <2>3
<1> QED BY <1>1, <1>2, Invariance, PTL DEF Spec

=============================================================================
