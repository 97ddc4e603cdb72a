--------------------------- MODULE HumanDecision ---------------------------
(***************************************************************************)
(* What the approval gate promises SubmitPlan (internal/gate/approval.go): *)
(* each request ends once, with an answer some human gave to that very     *)
(* request, or without one.                                                *)
(***************************************************************************)
CONSTANT Requests

VARIABLES
  answers,  \* answers[r]: what humans have said to request r
  outcome   \* outcome[r]: what RequestApproval returned for r

vars == <<answers, outcome>>

Init ==
  /\ answers = [r \in Requests |-> {}]
  /\ outcome = [r \in Requests |-> "none"]

Say(r, b) ==
  /\ answers' = [answers EXCEPT ![r] = @ \cup {b}]
  /\ UNCHANGED outcome

Decide(r, o) ==
  /\ outcome[r] = "none"
  /\ o \in answers[r] \cup {"timeout"}
  /\ outcome' = [outcome EXCEPT ![r] = o]
  /\ UNCHANGED answers

Next ==
  \E r \in Requests :
    \/ \E b \in {"approved", "rejected"} : Say(r, b)
    \/ \E o \in {"approved", "rejected", "timeout"} : Decide(r, o)

Spec == Init /\ [][Next]_vars
=============================================================================
