---------------------------- MODULE BoundedRetry ----------------------------
(***************************************************************************)
(* What a retrier promises, whatever drives it: a call makes attempts one  *)
(* at a time, at most N of them, goes on only while the outcome of the     *)
(* last attempt asks for another one, and ends either with the outcome of  *)
(* its last attempt or, between two attempts, because it is abandoned.     *)
(* pkg/retrier and pkg/httpretrier are both shown to implement it.         *)
(***************************************************************************)
EXTENDS Integers

CONSTANTS N,          \* the maximum number of attempts of a call
          Outcomes,   \* what an attempt can return
          RetryOn,    \* the outcomes that ask for another attempt
          Abandoned,  \* the results of a call given up between two attempts
          Pending     \* the result of a call that has not returned

VARIABLES phase, left, outcome

vars == <<phase, left, outcome>>

Init ==
    /\ phase = "idle"
    /\ left = 0
    /\ outcome = Pending

\* A call begins, with all its attempts.
Begin ==
    /\ phase = "idle"
    /\ phase' = "waiting"
    /\ left' = N
    /\ outcome' = Pending

\* An attempt starts.
Start ==
    /\ phase = "waiting"
    /\ left > 0
    /\ phase' = "attempting"
    /\ UNCHANGED <<left, outcome>>

\* The attempt returned r and a further one is allowed and wanted.
Again(r) ==
    /\ phase = "attempting"
    /\ left > 1
    /\ r \in RetryOn
    /\ left' = left - 1
    /\ phase' = "waiting"
    /\ UNCHANGED outcome

\* The attempt returned r and it is the last one: r is the result.
Finish(r) ==
    /\ phase = "attempting"
    /\ left = 1 \/ r \notin RetryOn
    /\ left' = left - 1
    /\ phase' = "idle"
    /\ outcome' = r

\* The call is given up while no attempt is running.
Abandon ==
    /\ phase = "waiting"
    /\ phase' = "idle"
    /\ outcome' \in Abandoned
    /\ UNCHANGED left

Next ==
    \/ Begin
    \/ Start
    \/ \E r \in Outcomes : Again(r) \/ Finish(r)
    \/ Abandon

Spec == Init /\ [][Next]_vars
=============================================================================
