---------------------------- MODULE PlanParsing ----------------------------
(***************************************************************************)
(* How a plan gets its IDs: parseTasks (internal/agent/max.go) turns the   *)
(* positions the model names into IDs, Create (internal/task/manager.go)   *)
(* hands the IDs out, and SubmitPlan (internal/scheduler/scheduler.go)     *)
(* gives both to validateDAG.                                              *)
(***************************************************************************)
EXTENDS Integers, PlanGraph

CONSTANTS
  N,    \* how many tasks the model's answer lists
  NoID  \* the empty ID "", which is no task's

VARIABLES
  answer,     \* depends_on of each item: positions, whatever integers they are
  id,         \* Task.ID
  dependsOn,  \* Task.DependsOn
  pc,         \* the step the items go through
  verdict     \* what validateDAG answers

vars == <<answer, id, dependsOn, pc, verdict>>

Items == 0..(N - 1)

\* A position that is out of range, or the item's own, is dropped.
Meant(i) == (answer[i] \cap Items) \ {i}

Init ==
  /\ answer \in [Items -> SUBSET (-1..N)]
  /\ id = [i \in Items |-> NoID]
  /\ dependsOn = [i \in Items |-> {}]
  /\ pc = "parse"
  /\ verdict = "none"

\* The IDs are copied as they are now.
ParseTasks ==
  /\ pc = "parse"
  /\ dependsOn' = [i \in Items |-> {id[j] : j \in Meant(i)}]
  /\ pc' = "create"
  /\ UNCHANGED <<answer, id, verdict>>

\* Create for each item, with a fresh ID for one that has none.
CreateTasks ==
  /\ pc = "create"
  /\ id' = [i \in Items |-> IF id[i] = NoID THEN i ELSE id[i]]
  /\ pc' = "validate"
  /\ UNCHANGED <<answer, dependsOn, verdict>>

Validate ==
  /\ pc = "validate"
  /\ LET IDs == {id[i] : i \in Items}
         D == [x \in IDs |-> UNION {dependsOn[i] : i \in {j \in Items : id[j] = x}}]
     IN  verdict' = IF ValidPlan(IDs, D) THEN "ok" ELSE "refused"
  /\ pc' = "end"
  /\ UNCHANGED <<answer, id, dependsOn>>

Next == ParseTasks \/ CreateTasks \/ Validate

Spec == Init /\ [][Next]_vars

-----------------------------------------------------------------------------
(* Correctness. *)

\* What docs/overview-design.html:592 promises: a task with a dependency waits
\* for it and then starts by itself, so a plan that could run is not refused.
RunnablePlansPass == verdict = "refused" => ~Acyclic(Items, [i \in Items |-> Meant(i)])
=============================================================================
