--------------------------- MODULE PlanLifecycle ---------------------------
(***************************************************************************)
(* What the scheduler promises the user about the tasks of a plan, with no *)
(* table, threads or inboxes: SubmitPlan, dispatchReady, handleTaskResult  *)
(* and handleTaskFailed (internal/scheduler/scheduler.go) seen from        *)
(* outside.  Only sound plans are agreed to; a task is tried after the     *)
(* agreement and after its dependencies, a bounded number of times; what   *)
(* was never tried is neither done nor reported as failed.                 *)
(***************************************************************************)
EXTENDS Naturals, PlanGraph

CONSTANTS
  Tasks, Plans, DependsOn,
  MinTries,  \* how often a task is tried before Max hears that it failed
  MaxTries   \* how often it is tried at most

VARIABLES
  agreed,  \* tasks of the plans the user said yes to
  tries,   \* how often each task was given to its agent
  done,    \* tasks that are done, for good
  gaveUp   \* tasks of the current request that Max was told have failed

vars == <<agreed, tries, done, gaveUp>>

Init ==
  /\ agreed = {}
  /\ tries = [t \in Tasks |-> 0]
  /\ done = {}
  /\ gaveUp = {}

Agree(p) ==
  /\ ValidPlan(p, DependsOn)
  /\ p \cap agreed = {}
  /\ agreed' = agreed \cup p
  /\ UNCHANGED <<tries, done, gaveUp>>

Try(t) ==
  /\ t \in agreed
  /\ DependsOn[t] \subseteq done
  /\ tries[t] < MaxTries
  /\ tries' = [tries EXCEPT ![t] = @ + 1]
  /\ UNCHANGED <<agreed, done, gaveUp>>

Finish(t) ==
  /\ tries[t] > 0
  /\ done' = done \cup {t}
  /\ UNCHANGED <<agreed, tries, gaveUp>>

GiveUp(t) ==
  /\ tries[t] >= MinTries
  /\ gaveUp' = gaveUp \cup {t}
  /\ UNCHANGED <<agreed, tries, done>>

\* A new request of the user replaces the plan.
Replace ==
  /\ gaveUp' = {}
  /\ UNCHANGED <<agreed, tries, done>>

Next ==
  \/ \E p \in Plans : Agree(p)
  \/ \E t \in Tasks : Try(t) \/ Finish(t) \/ GiveUp(t)
  \/ Replace

Spec == Init /\ [][Next]_vars
=============================================================================
