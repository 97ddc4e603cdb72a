-------------------------- MODULE MCSchedulerRace --------------------------
(* Two independent tasks, so that Max and the loop can both list the second,  *)
(* and plans that replace theirs while they may still run: tasks for the      *)
(* scheduler and for Max, who do none, and for a name nobody subscribed; the  *)
(* empty dependency ID that parseTasks produces; a task that waits for itself.*)
EXTENDS Scheduler

PairThenOne == {{1, 2}, {3}}
PairThenGhosts == {{1, 2}, {3, 4}, {5}, {6}, {7}}
Independent == [t \in Tasks |-> {}]
GhostsDependOn == [t \in Tasks |-> CASE t = 6 -> {NoTask} [] t = 7 -> {7} [] OTHER -> {}]
AllLeo == [t \in Tasks |-> "leo"]
Ghosts ==
  [t \in Tasks |-> CASE t = 3 -> "scheduler" [] t = 4 -> "ray" [] t = 5 -> "max"
                     [] OTHER -> "leo"]
=============================================================================
