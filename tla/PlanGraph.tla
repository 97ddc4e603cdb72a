----------------------------- MODULE PlanGraph -----------------------------
(* What makes the dependencies of a plan valid, said without an algorithm.   *)

\* No dependency leaves the plan.
Closed(p, D) == \A t \in p : D[t] \subseteq p

\* No group of tasks waits only for itself.
Acyclic(p, D) == \A S \in (SUBSET p) \ {{}} : \E t \in S : D[t] \cap S = {}

ValidPlan(p, D) == Closed(p, D) /\ Acyclic(p, D)
=============================================================================
