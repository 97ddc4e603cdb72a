---------------------------- MODULE ValidateDAG ----------------------------
(***************************************************************************)
(* validateDAG of internal/scheduler/dag.go, the check between Max's       *)
(* model and the user: the plan's tasks are counted, the free ones queued, *)
(* and each one taken from the queue frees those that waited for it.  One  *)
(* step is one turn of the queue's loop.  DependsOn is a list and may name *)
(* a task twice, the task itself, or a task of no plan.                    *)
(*                                                                         *)
(* The first batch of the queue comes out of a map, in any order; the      *)
(* later ones are left in any order too, which only adds behaviours.       *)
(***************************************************************************)
EXTENDS Integers, Sequences, FiniteSets, Functions, PlanGraph

CONSTANTS
  TaskIDs,  \* the plan: fresh, so without duplicates
  IDs,      \* what a dependency may name
  MaxDeps   \* bound: the length of a DependsOn list

ASSUME DAGAssumption ==
  /\ IsFiniteSet(TaskIDs)
  /\ TaskIDs \subseteq IDs
  /\ MaxDeps \in Nat

VARIABLES
  deps,      \* the lists DependsOn
  inDegree,
  queue,
  visited,
  verdict,   \* none until it returns, then ok, unknown or circular
  pc,
  order      \* history: the tasks taken from the queue

vars == <<deps, inDegree, queue, visited, verdict, pc, order>>

Lists == UNION {[1..n -> IDs] : n \in 0..MaxDeps}

Named(id) == {deps[id][k] : k \in DOMAIN deps[id]}

Occurrences(d, s) == Cardinality({k \in DOMAIN s : s[k] = d})

\* The lists that hold each member of S once.
Listings(S) == Bijection(1..Cardinality(S), S)

Init ==
  /\ deps \in [TaskIDs -> Lists]
  /\ inDegree = [id \in TaskIDs |-> 0]
  /\ queue = <<>>
  /\ visited = 0
  /\ verdict = "none"
  /\ pc = "count"
  /\ order = {}

Return(v) == verdict' = v /\ pc' = "end"

UnknownTask ==
  /\ pc = "count"
  /\ \E id \in TaskIDs : ~(Named(id) \subseteq TaskIDs)
  /\ Return("unknown")
  /\ UNCHANGED <<deps, inDegree, queue, visited, order>>

CountDegrees ==
  /\ pc = "count"
  /\ \A id \in TaskIDs : Named(id) \subseteq TaskIDs
  /\ inDegree' = [id \in TaskIDs |-> Len(deps[id])]
  /\ pc' = "seed"
  /\ UNCHANGED <<deps, queue, visited, verdict, order>>

\* A mistake: tasks with one dependency start too.
SeedQueue_AtMostOne ==
  /\ pc = "seed"
  /\ queue' \in Listings({id \in TaskIDs : inDegree[id] <= 1})
  /\ pc' = "visit"
  /\ UNCHANGED <<deps, inDegree, visited, verdict, order>>

SeedQueue ==
  /\ pc = "seed"
  /\ queue' \in Listings({id \in TaskIDs : inDegree[id] = 0})
  /\ pc' = "visit"
  /\ UNCHANGED <<deps, inDegree, visited, verdict, order>>

\* A mistake: a dependency named twice is taken off once.
Lowered_Once(curr) ==
  [id \in TaskIDs |-> inDegree[id] - (IF curr \in Named(id) THEN 1 ELSE 0)]

\* Each entry that names the visited task takes one off the degree; the entry
\* that brings it to zero queues the task.
Lowered(curr) == [id \in TaskIDs |-> inDegree[id] - Occurrences(curr, deps[id])]

\* A mistake: a task is queued whenever one of its dependencies was visited.
Freed_Early(curr) == {id \in TaskIDs : curr \in Named(id)}

Freed(curr) ==
  {id \in TaskIDs : Occurrences(curr, deps[id]) > 0 /\ Lowered(curr)[id] = 0}

Visit ==
  /\ pc = "visit"
  /\ queue # <<>>
  /\ visited' = visited + 1
  /\ order' = order \cup {Head(queue)}
  /\ inDegree' = Lowered(Head(queue))
  /\ \E more \in Listings(Freed(Head(queue))) : queue' = Tail(queue) \o more
  /\ UNCHANGED <<deps, verdict, pc>>

\* A mistake: the loop goes on until every task was visited.
Conclude_WhenAll ==
  /\ pc = "visit"
  /\ visited = Cardinality(TaskIDs)
  /\ Return("ok")
  /\ UNCHANGED <<deps, inDegree, queue, visited, order>>

Conclude ==
  /\ pc = "visit"
  /\ queue = <<>>
  /\ Return(IF visited = Cardinality(TaskIDs) THEN "ok" ELSE "circular")
  /\ UNCHANGED <<deps, inDegree, queue, visited, order>>

Next == UnknownTask \/ CountDegrees \/ SeedQueue \/ Visit \/ Conclude

Spec == Init /\ [][Next]_vars /\ WF_vars(Next)

-----------------------------------------------------------------------------
(* Correctness. *)

TypeOK ==
  /\ deps \in [TaskIDs -> Lists]
  /\ inDegree \in [TaskIDs -> Nat]
  /\ queue \in Seq(TaskIDs)
  /\ visited \in Nat
  /\ verdict \in {"none", "ok", "unknown", "circular"}
  /\ pc \in {"count", "seed", "visit", "end"}
  /\ order \subseteq TaskIDs

\* The verdict is the right one for every list of dependencies: a plan is
\* accepted exactly when its dependencies stay inside it and have no cycle
\* (what SubmitPlan goes by), and a refusal names the reason that holds.
VerdictRight ==
  LET D == [id \in TaskIDs |-> Named(id)]
  IN  /\ verdict = "ok" => ValidPlan(TaskIDs, D)
      /\ verdict = "unknown" => ~Closed(TaskIDs, D)
      /\ verdict = "circular" => Closed(TaskIDs, D) /\ ~Acyclic(TaskIDs, D)

\* No task passes through the queue twice, not even one that names a dependency
\* twice: visited, which the verdict compares with the number of tasks, counts
\* tasks and not turns of the loop.
VisitsAreTasks ==
  /\ visited = Cardinality(order)
  /\ \A i, j \in 1..Len(queue) : queue[i] = queue[j] => i = j
  /\ \A i \in 1..Len(queue) : queue[i] \notin order

\* Tasks leave the queue in an order in which they could run: after everything
\* they depend on.
DependenciesVisitedFirst ==
  \A id \in order : Named(id) \subseteq order

\* The loop ends, on circular plans too.
Terminates == <>(verdict # "none")
=============================================================================
