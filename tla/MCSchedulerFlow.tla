-------------------------- MODULE MCSchedulerFlow --------------------------
(* Tasks that wait for one and for two others, and a plan that may replace    *)
(* them; the inboxes are large enough that nothing is lost.                   *)
EXTENDS Scheduler

LadderThenOne == {{1, 2, 3}, {4}}
LadderDependsOn == [t \in Tasks |-> CASE t = 2 -> {1} [] t = 3 -> {1, 2} [] OTHER -> {}]
AllLeo == [t \in Tasks |-> "leo"]
=============================================================================
