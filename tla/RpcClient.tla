----------------------------- MODULE RpcClient -----------------------------
(***************************************************************************)
(* What a Compost client promises its callers, whatever the language: a    *)
(* call is invoked once, and ends at most once, with an answer or with an  *)
(* error.  An answer is the result of a request that the peer has really   *)
(* executed, and that request is the call's own one, or one that is at     *)
(* least Window calls away: the transaction number is all that links a     *)
(* response to its request, and there are only Window of them.             *)
(*                                                                         *)
(* PySession and CsSession are shown to implement this specification.      *)
(***************************************************************************)
EXTENDS Naturals

CONSTANTS
    Calls,      \* the calls: numbers, in the order they take their txn
    Window      \* how many transaction numbers there are

VARIABLES
    outcome,    \* what each call has come to
    answer,     \* the request whose result an answered call was given
    executed    \* the requests that the peer has executed

vars == <<outcome, answer, executed>>

NoAnswer == 0

\* Two calls that may carry the same transaction number.
Confusable(n, r) == r = n \/ r + Window <= n \/ n + Window <= r

Init ==
    /\ outcome = [n \in Calls |-> "new"]
    /\ answer = [n \in Calls |-> NoAnswer]
    /\ executed = {}

Invoke(n) ==
    /\ outcome[n] = "new"
    /\ outcome' = [outcome EXCEPT ![n] = "pending"]
    /\ UNCHANGED <<answer, executed>>

\* The peer may execute a request long after its caller has given up.
Execute(n) ==
    /\ outcome[n] # "new"
    /\ executed' = executed \cup {n}
    /\ UNCHANGED <<outcome, answer>>

Return(n, r) ==
    /\ outcome[n] = "pending"
    /\ r \in executed
    /\ Confusable(n, r)
    /\ outcome' = [outcome EXCEPT ![n] = "returned"]
    /\ answer' = [answer EXCEPT ![n] = r]
    /\ UNCHANGED executed

Fail(n) ==
    /\ outcome[n] \in {"new", "pending"}
    /\ outcome' = [outcome EXCEPT ![n] = "failed"]
    /\ UNCHANGED <<answer, executed>>

Next ==
    \E n \in Calls :
        \/ Invoke(n)
        \/ Execute(n)
        \/ Fail(n)
        \/ \E r \in Calls : Return(n, r)

Spec == Init /\ [][Next]_vars
=============================================================================
