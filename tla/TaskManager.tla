---------------------------- MODULE TaskManager ----------------------------
(***************************************************************************)
(* The task table shared by Max, the scheduler and the web handlers        *)
(* (internal/task/task.go and manager.go).  Every operator below is one    *)
(* critical section of Manager.mu; the modules that extend this one        *)
(* interleave them the way the goroutines can.                             *)
(*                                                                         *)
(* The manager hands out *Task pointers, so a task outlives its entry in   *)
(* the table: Reset empties the table (known) and leaves the objects to    *)
(* whoever still points to them.  status, retries, result and artifacts    *)
(* are the fields of the objects.  A task is named by its position in the  *)
(* plan lists, so ascending order is the order of Manager.order.           *)
(***************************************************************************)
EXTENDS Naturals

CONSTANTS
  Tasks,      \* task IDs, numbered in the order the plans list them
  NoTask,     \* the empty ID ""
  DependsOn,  \* Task.DependsOn: the IDs each task waits for
  MaxRetries  \* Task.MaxRetries; Create replaces 0 by 2

ASSUME TasksAssumption ==
  /\ Tasks \subseteq Nat
  /\ NoTask \in Nat \ Tasks
  /\ DependsOn \in [Tasks -> SUBSET (Tasks \cup {NoTask})]
  /\ MaxRetries \in Nat \ {0}

VARIABLES
  known,      \* the IDs in Manager.tasks and Manager.order
  status,     \* Task.Status
  retries,    \* Task.RetryCount
  result,     \* Task.Result: none, a success with its artifacts, or an error
  artifacts   \* artifacts[t][d]: copies of d's artifacts in t's Task.Artifacts

Status == {"created", "planned", "approved", "dispatched", "running",
           "done", "failed"}

validTransitions ==
  [created    |-> {"planned"},
   planned    |-> {"approved"},
   approved   |-> {"dispatched"},
   dispatched |-> {"running"},
   running    |-> {"done", "failed"},
   done       |-> {},
   failed     |-> {"dispatched"}]

CanTransitionTo(from, to) == to \in validTransitions[from]

TasksTypeOK ==
  /\ known \subseteq Tasks
  /\ status \in [Tasks -> Status]
  /\ retries \in [Tasks -> 0..MaxRetries]
  /\ result \in [Tasks -> {"none", "ok", "error"}]
  /\ artifacts \in [Tasks -> [Tasks -> Nat]]

TasksInit ==
  /\ known = {}
  /\ status = [t \in Tasks |-> "created"]
  /\ retries = [t \in Tasks |-> 0]
  /\ result = [t \in Tasks |-> "none"]
  /\ artifacts = [t \in Tasks |-> [d \in Tasks |-> 0]]

-----------------------------------------------------------------------------
(* The critical sections that write. *)

Create(t) ==
  /\ known' = known \cup {t}
  /\ status' = [status EXCEPT ![t] = "created"]
  /\ UNCHANGED <<retries, result, artifacts>>

\* The error of an unknown ID or a refused transition is dropped by every
\* caller, which goes on as if the transition had happened.
Transition(t, to) ==
  /\ status' = IF t \in known /\ CanTransitionTo(status[t], to)
               THEN [status EXCEPT ![t] = to] ELSE status
  /\ UNCHANGED <<known, retries, result, artifacts>>

SetResult(t, r) ==
  /\ result' = IF t \in known THEN [result EXCEPT ![t] = r] ELSE result
  /\ UNCHANGED <<known, status, retries, artifacts>>

\* A mistake: the loop over the dependencies stops after the first.
InjectArtifacts_First(t) ==
  /\ artifacts' =
       [artifacts EXCEPT ![t] =
          [d \in Tasks |->
             IF d \in DependsOn[t] /\ \A e \in DependsOn[t] : d <= e THEN @[d] + 1 ELSE @[d]]]
  /\ UNCHANGED <<known, status, retries, result>>

\* An error result carries no artifacts.
InjectArtifacts(t) ==
  /\ artifacts' =
       IF t \in known
       THEN [artifacts EXCEPT ![t] =
               [d \in Tasks |->
                  IF d \in DependsOn[t] \cap known /\ result[d] = "ok"
                  THEN @[d] + 1 ELSE @[d]]]
       ELSE artifacts
  /\ UNCHANGED <<known, status, retries, result>>

Reset ==
  /\ known' = {}
  /\ UNCHANGED <<status, retries, result, artifacts>>

(* The critical sections that read. *)

DependencyDone(d) == d \in known /\ status[d] = "done"

\* A mistake: one dependency that is done is enough.
ReadyToDispatch_Any ==
  {t \in known : /\ status[t] = "approved"
                 /\ DependsOn[t] = {} \/ \E d \in DependsOn[t] : DependencyDone(d)}

ReadyToDispatch ==
  {t \in known : status[t] = "approved" /\ \A d \in DependsOn[t] : DependencyDone(d)}

AllDone == known # {} /\ \A t \in known : status[t] \in {"done", "failed"}
=============================================================================
