---------------------------- MODULE RequestReply ----------------------------
(***************************************************************************)
(* What SendRequest and RegisterRequestHandler (pkg/protorun/ipc.go)       *)
(* promise the two protocols of a request: its callback runs at most once, *)
(* with the first of the responder's one answer and the timeout, or with   *)
(* ErrNoRequestHandler, and that only when nobody handles the request.     *)
(***************************************************************************)
CONSTANTS Token, Nil

VARIABLES
    status,    \* [Token -> "new", "pending", "unrouted" or "done"]
    answer,    \* [Token -> what the responder committed to, or Nil]
    reported,  \* tokens whose handler's panic has been reported (OnPanic)
    result     \* [Token -> what the callback was invoked with, or Nil]

abstractVars == <<status, answer, reported, result>>

Answers == {"reply", "failed", "panicked"}

Begin ==
    /\ status = [t \in Token |-> "new"]
    /\ answer = [t \in Token |-> Nil]
    /\ reported = {}
    /\ result = [t \in Token |-> Nil]

Issue(t, st) ==
    /\ status[t] = "new"
    /\ status' = [status EXCEPT ![t] = st]
    /\ UNCHANGED <<answer, reported, result>>

Report(t) ==
    /\ status[t] \in {"pending", "done"}
    /\ reported' = reported \cup {t}
    /\ UNCHANGED <<status, answer, result>>

\* A responder answers once; a panic is reported before it is an answer.
Answer(t, a) ==
    /\ status[t] \in {"pending", "done"} /\ answer[t] = Nil
    /\ a = "panicked" => t \in reported
    /\ answer' = [answer EXCEPT ![t] = a]
    /\ UNCHANGED <<status, reported, result>>

Complete(t, x) ==
    /\ \/ status[t] = "pending" /\ (x = "timeout" \/ (x \in Answers /\ x = answer[t]))
       \/ status[t] = "unrouted" /\ x = "noHandler"
    /\ status' = [status EXCEPT ![t] = "done"]
    /\ result' = [result EXCEPT ![t] = x]
    /\ UNCHANGED <<answer, reported>>

Step ==
    \E t \in Token :
        \/ Issue(t, "pending") \/ Issue(t, "unrouted") \/ Report(t)
        \/ \E a \in Answers : Answer(t, a)
        \/ \E x \in Answers \cup {"timeout", "noHandler"} : Complete(t, x)

Promise == Begin /\ [][Step]_abstractVars

=============================================================================
