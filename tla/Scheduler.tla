----------------------------- MODULE Scheduler -----------------------------
(***************************************************************************)
(* The goroutines that drive a plan: Max's (internal/agent/max.go, with    *)
(* Scheduler.SubmitPlan called from it), the scheduler's message loop      *)
(* (Scheduler.Run) and one per coder agent (internal/agent/leo.go).  Max   *)
(* and the loop share the task table and both run dispatchReady; everybody *)
(* else is reached through the bus.                                        *)
(*                                                                         *)
(* One action is one critical section of the task manager or one bus send, *)
(* so every interleaving the locks allow is a behaviour.                   *)
(***************************************************************************)
EXTENDS TaskManager, MessageBus, PlanGraph

CONSTANTS
  Plans,        \* what Max's model may answer: disjoint lists of fresh tasks
  AgentName,    \* Task.AgentName, which the model chooses freely
  MaxRequests   \* bound: how many requests the user types

ASSUME PlansAssumption ==
  /\ Plans \subseteq (SUBSET Tasks) \ {{}}
  /\ \A p, q \in Plans : p = q \/ p \cap q = {}
  /\ AgentName \in [Tasks -> STRING]
  /\ {"max", "scheduler"} \subseteq Subscribers
  /\ Subscribers \subseteq STRING
  /\ MaxRequests \in Nat

Coders == Subscribers \ {"max", "scheduler"}

VARIABLES
  pc,         \* where the Max goroutine and the scheduler loop stand
  ready,      \* what is left of the list each one got from ReadyToDispatch
  plan,       \* the tasks SubmitPlan is working on
  todo,       \* what is left of its current loop over them
  cur,        \* the task named by the message the loop handles
  busy,       \* the task each coder works on
  requests,   \* history: how often the user typed a request
  submitted,  \* history: tasks ever handed to SubmitPlan
  approved,   \* history: tasks of the plans the user said yes to
  assigns,    \* history: MsgTaskAssign sent by each dispatchReady and by retries
  lost,       \* history: tasks whose assignment or outcome nobody will handle
  told,       \* history: what the loop told Max since the last Reset
  concluded   \* history: the table the loop last found all done

flow == <<pc, ready, plan, todo, cur, busy>>
history == <<requests, submitted, approved, assigns, lost, told, concluded>>
table == <<known, status, retries, result, artifacts>>
vars == <<table, inbox, flow, history>>

Threads == {"max", "loop"}
Sources == Threads \cup {"retry"}

MaxLabels == {"idle", "thinking", "create", "validate", "plan", "await", "approve",
              "report"}
LoopLabels == {"recv", "result", "done", "check", "alldone", "get", "error", "count",
               "refail", "redispatch", "rerun", "resend", "exhausted", "escalate"}
DispatchLabels == {"list", "inject", "dispatch", "run", "assign"}

MessageTypes == {"input", "assign", "result", "failed", "approval", "alldone"}
Message(type, t) == [type |-> type, task |-> t]
Messages == [type : MessageTypes, task : Tasks \cup {NoTask}]

Home(th) == IF th = "max" THEN "idle" ELSE "recv"
Goto(th, label) == pc' = [pc EXCEPT ![th] = label]
Least(t, S) == t \in S /\ \A u \in S : t <= u

Init ==
  /\ TasksInit
  /\ BusInit
  /\ pc = [th \in Threads |-> Home(th)]
  /\ ready = [th \in Threads |-> {}]
  /\ plan = {}
  /\ todo = {}
  /\ cur = NoTask
  /\ busy = [a \in Coders |-> NoTask]
  /\ requests = 0
  /\ submitted = {}
  /\ approved = {}
  /\ assigns = [t \in Tasks |-> [s \in Sources |-> 0]]
  /\ lost = {}
  /\ told = {}
  /\ concluded = {}

-----------------------------------------------------------------------------
(* Where a send leaves the history variables. *)

\* An assignment is handled only by a coder that subscribed: max and the
\* scheduler read it and drop it.
SendAssign(t, source) ==
  /\ Send(AgentName[t], Message("assign", t))
  /\ assigns' = [assigns EXCEPT ![t][source] = @ + 1]
  /\ lost' = IF AgentName[t] \in Coders /\ Accepts(AgentName[t])
             THEN lost ELSE lost \cup {t}

TellMax(msg) ==
  /\ Send("max", msg)
  /\ told' = told \cup {msg}

-----------------------------------------------------------------------------
(* dispatchReady, run by both threads, each on the list it was handed. *)

List(th) ==
  /\ pc[th] = "list"
  /\ ready' = [ready EXCEPT ![th] = ReadyToDispatch]
  /\ Goto(th, IF ReadyToDispatch = {} THEN Home(th) ELSE "inject")
  /\ UNCHANGED <<table, inbox, plan, todo, cur, busy, history>>

Inject(th) ==
  /\ pc[th] = "inject"
  /\ \E t \in ready[th] : Least(t, ready[th]) /\ InjectArtifacts(t)
  /\ Goto(th, "dispatch")
  /\ UNCHANGED <<inbox, ready, plan, todo, cur, busy, history>>

\* A mistake: the task stays approved until it runs.
MarkDispatched_Skipped(th) ==
  /\ pc[th] = "dispatch"
  /\ Goto(th, "run")
  /\ UNCHANGED <<table, inbox, ready, plan, todo, cur, busy, history>>

MarkDispatched(th) ==
  /\ pc[th] = "dispatch"
  /\ \E t \in ready[th] : Least(t, ready[th]) /\ Transition(t, "dispatched")
  /\ Goto(th, "run")
  /\ UNCHANGED <<inbox, ready, plan, todo, cur, busy, history>>

MarkRunning(th) ==
  /\ pc[th] = "run"
  /\ \E t \in ready[th] : Least(t, ready[th]) /\ Transition(t, "running")
  /\ Goto(th, "assign")
  /\ UNCHANGED <<inbox, ready, plan, todo, cur, busy, history>>

Assign(th) ==
  /\ pc[th] = "assign"
  /\ \E t \in ready[th] :
       /\ Least(t, ready[th])
       /\ SendAssign(t, th)
       /\ ready' = [ready EXCEPT ![th] = @ \ {t}]
       /\ Goto(th, IF ready[th] = {t} THEN Home(th) ELSE "inject")
  /\ UNCHANGED <<table, plan, todo, cur, busy, requests, submitted, approved, told, concluded>>

DispatchReady(th) ==
  \/ List(th)
  \/ Inject(th)
  \/ MarkDispatched(th)
  \/ MarkRunning(th)
  \/ Assign(th)

-----------------------------------------------------------------------------
(* The user, and Max's goroutine. *)

UserTypes ==
  /\ requests < MaxRequests
  /\ requests' = requests + 1
  /\ Send("max", Message("input", NoTask))
  /\ UNCHANGED <<table, flow, submitted, approved, assigns, lost, told, concluded>>

\* handleUserInput up to RunLLM: the table is emptied whatever still runs.
MaxHearsInput ==
  /\ pc["max"] = "idle"
  /\ Receive("max", Message("input", NoTask))
  /\ Reset
  /\ told' = {}
  /\ Goto("max", "thinking")
  /\ UNCHANGED <<ready, plan, todo, cur, busy, requests, submitted, approved, assigns, lost, concluded>>

\* handleAllDone: the prompt says that all tasks are done and quotes the
\* table as it is now.
MaxHearsAllDone ==
  /\ pc["max"] = "idle"
  /\ Receive("max", Message("alldone", NoTask))
  /\ Goto("max", "report")
  /\ UNCHANGED <<table, ready, plan, todo, cur, busy, history>>

MaxReports ==
  /\ pc["max"] = "report"
  /\ Goto("max", "idle")
  /\ UNCHANGED <<table, inbox, ready, plan, todo, cur, busy, history>>

\* handleTaskFailed only tells the user; an assignment is not Max's to do.
MaxHearsOther ==
  /\ pc["max"] = "idle"
  /\ \E t \in Tasks, type \in {"failed", "assign"} : Receive("max", Message(type, t))
  /\ UNCHANGED <<table, flow, history>>

\* The model's answer holds no list of tasks, or the call failed.
MaxAnswers ==
  /\ pc["max"] = "thinking"
  /\ Goto("max", "idle")
  /\ UNCHANGED <<table, inbox, ready, plan, todo, cur, busy, history>>

SubmitPlan(p) ==
  /\ pc["max"] = "thinking"
  /\ p \cap submitted = {}
  /\ submitted' = submitted \cup p
  /\ plan' = p
  /\ todo' = p
  /\ Goto("max", "create")
  /\ UNCHANGED <<table, inbox, ready, cur, busy, requests, approved, assigns, lost, told, concluded>>

\* A loop of SubmitPlan over the tasks of the plan takes the least one left,
\* and moves on to the next loop after the last.
NextOf(t, here, next, again) ==
  /\ pc["max"] = here
  /\ Least(t, todo)
  /\ IF todo = {t} THEN todo' = again /\ Goto("max", next)
                   ELSE todo' = todo \ {t} /\ Goto("max", here)

CreateTask(t) ==
  /\ NextOf(t, "create", "validate", plan)
  /\ Create(t)
  /\ UNCHANGED <<inbox, ready, plan, cur, busy, history>>

\* The verdict of validateDAG, which ValidateDAG models step by step.
Validate ==
  /\ pc["max"] = "validate"
  /\ Goto("max", IF ValidPlan(plan, DependsOn) THEN "plan" ELSE "idle")
  /\ UNCHANGED <<table, inbox, ready, plan, todo, cur, busy, history>>

\* The last one also sends the approval request, to the user's own inbox.
PlanTask(t) ==
  /\ NextOf(t, "plan", "await", plan)
  /\ Transition(t, "planned")
  /\ UNCHANGED <<inbox, ready, plan, cur, busy, history>>

\* The answer reaches RequestApproval through the reply channel; the same
\* message goes to the scheduler's inbox, where Run ignores it.
UserApproves ==
  /\ pc["max"] = "await"
  /\ Send("scheduler", Message("approval", NoTask))
  /\ approved' = approved \cup plan
  /\ Goto("max", "approve")
  /\ UNCHANGED <<table, ready, plan, todo, cur, busy, requests, submitted, assigns, lost, told, concluded>>

\* A mistake: the answer is not looked at.
UserRejects_Ignored ==
  /\ pc["max"] = "await"
  /\ Send("scheduler", Message("approval", NoTask))
  /\ Goto("max", "approve")
  /\ UNCHANGED <<table, ready, plan, todo, cur, busy, history>>

UserRejects ==
  /\ pc["max"] = "await"
  /\ Send("scheduler", Message("approval", NoTask))
  /\ Goto("max", "idle")
  /\ UNCHANGED <<table, ready, plan, todo, cur, busy, history>>

ApprovalTimeout ==
  /\ pc["max"] = "await"
  /\ Goto("max", "idle")
  /\ UNCHANGED <<table, inbox, ready, plan, todo, cur, busy, history>>

ApproveTask(t) ==
  /\ NextOf(t, "approve", "list", {})
  /\ Transition(t, "approved")
  /\ UNCHANGED <<inbox, ready, plan, cur, busy, history>>

MaxStep ==
  \/ MaxHearsInput \/ MaxHearsAllDone \/ MaxHearsOther \/ MaxReports
  \/ MaxAnswers
  \/ \E p \in Plans : SubmitPlan(p)
  \/ \E t \in Tasks : CreateTask(t) \/ PlanTask(t) \/ ApproveTask(t)
  \/ Validate
  \/ UserApproves \/ UserRejects \/ ApprovalTimeout
  \/ DispatchReady("max")

-----------------------------------------------------------------------------
(* The scheduler's message loop. *)

LoopReceive(t, type, label) ==
  /\ pc["loop"] = "recv"
  /\ Receive("scheduler", Message(type, t))
  /\ cur' = t
  /\ Goto("loop", label)
  /\ UNCHANGED <<table, ready, plan, todo, busy, history>>

\* A mistake: the task is marked done without its result.
LoopHears_NoResult ==
  \/ \E t \in Tasks : LoopReceive(t, "result", "done") \/ LoopReceive(t, "failed", "get")
  \/ LoopReceive(NoTask, "approval", "recv")

LoopHears ==
  \/ \E t \in Tasks : \/ LoopReceive(t, "result", "result")
                      \/ LoopReceive(t, "failed", "get")
                      \/ LoopReceive(t, "assign", "recv")
  \/ LoopReceive(NoTask, "approval", "recv")

\* handleTaskResult
StoreResult ==
  /\ pc["loop"] = "result"
  /\ SetResult(cur, "ok")
  /\ Goto("loop", "done")
  /\ UNCHANGED <<inbox, ready, plan, todo, cur, busy, history>>

\* A call of Transition for the task at hand, its error ignored.
Mark(here, to, next) ==
  /\ pc["loop"] = here
  /\ Transition(cur, to)
  /\ Goto("loop", next)
  /\ UNCHANGED <<inbox, ready, plan, todo, cur, busy, history>>

MarkDone == Mark("done", "done", "check")

\* A mistake: nothing left to dispatch is taken for all done.
CheckAllDone_NothingReady ==
  /\ pc["loop"] = "check"
  /\ Goto("loop", IF ReadyToDispatch = {} THEN "alldone" ELSE "list")
  /\ concluded' = IF ReadyToDispatch = {} THEN known ELSE concluded
  /\ UNCHANGED <<table, inbox, ready, plan, todo, cur, busy, requests, submitted, approved,
                 assigns, lost, told>>

CheckAllDone ==
  /\ pc["loop"] = "check"
  /\ Goto("loop", IF AllDone THEN "alldone" ELSE "list")
  /\ concluded' = IF AllDone THEN known ELSE concluded
  /\ UNCHANGED <<table, inbox, ready, plan, todo, cur, busy, requests, submitted, approved,
                 assigns, lost, told>>

TellAllDone ==
  /\ pc["loop"] = "alldone"
  /\ TellMax(Message("alldone", NoTask))
  /\ Goto("loop", "recv")
  /\ UNCHANGED <<table, ready, plan, todo, cur, busy, requests, submitted, approved, assigns, lost, concluded>>

\* handleTaskFailed
GetTask ==
  /\ pc["loop"] = "get"
  /\ Goto("loop", IF cur \in known THEN "error" ELSE "recv")
  /\ UNCHANGED <<table, inbox, ready, plan, todo, cur, busy, history>>

\* A mistake: one retry too many.
MayRetry_OneMore(t) == retries[t] <= MaxRetries

\* A mistake: one retry too few.
MayRetry_OneLess(t) == retries[t] + 1 < MaxRetries

MayRetry(t) == retries[t] < MaxRetries

StoreError ==
  /\ pc["loop"] = "error"
  /\ SetResult(cur, "error")
  /\ Goto("loop", IF MayRetry(cur) THEN "count" ELSE "exhausted")
  /\ UNCHANGED <<inbox, ready, plan, todo, cur, busy, history>>

CountRetry ==
  /\ pc["loop"] = "count"
  /\ retries' = [retries EXCEPT ![cur] = @ + 1]
  /\ Goto("loop", "refail")
  /\ UNCHANGED <<known, status, result, artifacts, inbox, ready, plan, todo, cur, busy, history>>

\* A mistake: the retry goes from failed to running, which Transition refuses.
MarkRetry_Direct ==
  \/ Mark("refail", "failed", "rerun")
  \/ Mark("rerun", "running", "resend")

MarkRetry ==
  \/ Mark("refail", "failed", "redispatch")
  \/ Mark("redispatch", "dispatched", "rerun")
  \/ Mark("rerun", "running", "resend")

Resend ==
  /\ pc["loop"] = "resend"
  /\ SendAssign(cur, "retry")
  /\ Goto("loop", "recv")
  /\ UNCHANGED <<table, ready, plan, todo, cur, busy, requests, submitted, approved, told, concluded>>

\* A mistake: the failure is told but not marked.
MarkFailed_Skipped ==
  /\ pc["loop"] = "exhausted"
  /\ Goto("loop", "escalate")
  /\ UNCHANGED <<table, inbox, ready, plan, todo, cur, busy, history>>

MarkFailed == Mark("exhausted", "failed", "escalate")

\* A mistake: the failure is marked but not told.
Escalate_Silent ==
  /\ pc["loop"] = "escalate"
  /\ Goto("loop", "recv")
  /\ UNCHANGED <<table, inbox, ready, plan, todo, cur, busy, history>>

Escalate ==
  /\ pc["loop"] = "escalate"
  /\ TellMax(Message("failed", cur))
  /\ Goto("loop", "recv")
  /\ UNCHANGED <<table, ready, plan, todo, cur, busy, requests, submitted, approved, assigns, lost, concluded>>

LoopStep ==
  \/ LoopHears
  \/ StoreResult \/ MarkDone \/ CheckAllDone \/ TellAllDone
  \/ GetTask \/ StoreError \/ CountRetry \/ MarkRetry \/ Resend
  \/ MarkFailed \/ Escalate
  \/ DispatchReady("loop")

-----------------------------------------------------------------------------
(* The coder agents: one task at a time. *)

AgentReceive(a) ==
  /\ busy[a] = NoTask
  /\ \E t \in Tasks :
       /\ Receive(a, Message("assign", t))
       /\ busy' = [busy EXCEPT ![a] = t]
  /\ UNCHANGED <<table, pc, ready, plan, todo, cur, history>>

AgentFinish(a, type) ==
  /\ busy[a] # NoTask
  /\ Send("scheduler", Message(type, busy[a]))
  /\ lost' = IF Accepts("scheduler") THEN lost ELSE lost \cup {busy[a]}
  /\ busy' = [busy EXCEPT ![a] = NoTask]
  /\ UNCHANGED <<table, pc, ready, plan, todo, cur, requests, submitted, approved, assigns, told, concluded>>

AgentStep(a) ==
  \/ AgentReceive(a)
  \/ AgentFinish(a, "result")
  \/ AgentFinish(a, "failed")

Next ==
  \/ UserTypes
  \/ MaxStep
  \/ LoopStep
  \/ \E a \in Coders : AgentStep(a)

\* Every goroutine keeps running, a call of the model or of a tool returns,
\* and time.After ends the wait for approval.  Nothing obliges the user.
Fairness ==
  /\ WF_vars(MaxStep)
  /\ WF_vars(LoopStep)
  /\ \A a \in Coders : WF_vars(AgentStep(a))

Spec == Init /\ [][Next]_vars
FairSpec == Spec /\ Fairness

-----------------------------------------------------------------------------
(* Correctness. *)

\* Every variable has its type.  A task the loop handles or an agent works on
\* is a real task, whatever the interleaving that put it there.
TypeOK ==
  /\ TasksTypeOK
  /\ inbox \in [Subscribers -> Seq(Messages)]
  /\ \A n \in Subscribers : Len(inbox[n]) <= Capacity
  /\ pc \in [Threads -> MaxLabels \cup LoopLabels \cup DispatchLabels]
  /\ ready \in [Threads -> SUBSET Tasks]
  /\ plan \subseteq submitted
  /\ todo \subseteq plan
  /\ cur \in Tasks \cup {NoTask}
  /\ busy \in [Coders -> Tasks \cup {NoTask}]
  /\ requests \in 0..MaxRequests
  /\ submitted \subseteq Tasks
  /\ approved \subseteq submitted
  /\ assigns \in [Tasks -> [Sources -> Nat]]
  /\ lost \subseteq Tasks
  /\ told \subseteq Messages
  /\ concluded \subseteq Tasks

Started == {"dispatched", "running", "done", "failed"}

Assigned(t) == \E s \in Sources : assigns[t][s] > 0

DoubleDispatched(t) == \A th \in Threads : assigns[t][th] > 0

\* Nothing runs before a human agreed to it: whichever thread dispatches, in
\* whatever order the table changes under it, a task that is listed for
\* dispatch, started, or given to an agent belongs to a plan the user approved
\* (SubmitPlan returns before StatusApproved otherwise, and ReadyToDispatch
\* lists nothing else).
HumanInTheLoop ==
  \A t \in Tasks :
    \/ status[t] \in Started \cup {"approved"}
    \/ Assigned(t)
    \/ \E th \in Threads : t \in ready[th]
    \/ \E a \in Coders : busy[a] = t
    => t \in approved

\* A task of the current table that is listed, started or assigned has all its
\* dependencies in that table and done, although both threads act on lists
\* they read earlier (ReadyToDispatch and dispatchReady).
DependenciesFirst ==
  \A t \in known :
    \/ status[t] \in Started
    \/ Assigned(t)
    \/ \E th \in Threads : t \in ready[th]
    => \A d \in DependsOn[t] : DependencyDone(d)

\* However Max's dispatchReady and the loop's race, a task is assigned at most
\* once by each of them and once per counted retry, so at most MaxRetries + 2
\* times in all, resets included.
DispatchBudget ==
  \A t \in Tasks :
    /\ \A th \in Threads : assigns[t][th] <= 1
    /\ assigns[t]["retry"] <= retries[t]
    /\ retries[t] <= MaxRetries

\* Somebody will move t on: a thread that has not assigned it yet, the loop
\* that handles its outcome, its agent, or a message in the agent's inbox or
\* on the way back.
HasOwner(t) ==
  \/ \E th \in Threads : t \in ready[th]
  \/ cur = t /\ pc["loop"] \in {"result", "done", "get", "error", "count", "refail",
                                "redispatch", "rerun", "resend", "exhausted"}
  \/ \E a \in Coders : busy[a] = t \/ InInbox(a, Message("assign", t))
  \/ \E type \in {"result", "failed"} : InInbox("scheduler", Message(type, t))

\* A task of the table that is dispatched or running is in somebody's hands,
\* unless a bus send dropped it: no transition whose error the code ignores
\* leaves a task running that nobody works on.
RunningHasOwner ==
  \A t \in known : status[t] \in {"dispatched", "running"} => HasOwner(t) \/ t \in lost

\* A task of the table rests in StatusFailed only with its retries used up and
\* the failure sent to Max: no interleaving ends with a silent failure.
FailureIsTold ==
  \A t \in known :
    \/ status[t] # "failed"
    \/ cur = t /\ pc["loop"] \in {"redispatch", "escalate"}
    \/ retries[t] = MaxRetries /\ Message("failed", t) \in told

\* A task that is done keeps a successful result, which is what its dependents
\* and the report get, unless both threads dispatched it: then a second run may
\* overwrite the result of the first with an error (SetResult comes before the
\* refused transition).
DoneKeepsResult ==
  \A t \in known : status[t] = "done" /\ ~DoubleDispatched(t) => result[t] = "ok"

\* An assigned task of the table has received the artifacts of every dependency
\* (InjectArtifacts runs after the list was read and before the send), with the
\* same exception for a dependency that ran twice.
UpstreamDelivered ==
  \A t \in known : Assigned(t) =>
    \A d \in DependsOn[t] : artifacts[t][d] > 0 \/ DoubleDispatched(d)

\* When Max reports that all tasks are done, they are, unless a request replaced
\* the table the loop found done (the message waits in Max's inbox, and
\* handleAllDone quotes the table of the moment) or a task was dispatched twice,
\* which sets it running again.
ReportIsTrue ==
  pc["max"] = "report" =>
    \/ AllDone
    \/ known # concluded
    \/ \E t \in known : DoubleDispatched(t)

\* Once no message is lost, a running task comes to its end: it is done, or it
\* failed and Max is told so, or its table is dropped.  The failure that a retry
\* passes through is no end: a retry that is lost, or that leaves the task failed
\* because a transition is refused and its error ignored, does not count.
RunningEnds ==
  \A t \in Tasks :
    (t \in known /\ status[t] = "running")
      ~> (t \notin known \/ status[t] = "done" \/ Message("failed", t) \in told)

\* A plan the user approved comes to a verdict: Max is told that one of its
\* tasks failed for good, or that all are done when they are, or the user's
\* next request replaced the plan.
Verdict(p) ==
  \/ \E t \in p : Message("failed", t) \in told
  \/ Message("alldone", NoTask) \in told /\ AllDone
  \/ known \cap p = {}

PlanConcludes == \A p \in Plans : p \subseteq approved ~> Verdict(p)

\* What the user is promised: Max, the loop and the coders together keep the
\* life of a plan that PlanLifecycle describes, whatever is lost, replaced or
\* dispatched twice.
Lifecycle == INSTANCE PlanLifecycle WITH
  MinTries <- MaxRetries + 1,
  MaxTries <- MaxRetries + 2,
  agreed <- approved,
  tries <- [t \in Tasks |-> assigns[t]["max"] + assigns[t]["loop"] + assigns[t]["retry"]],
  done <- {t \in Tasks : status[t] = "done"},
  gaveUp <- {t \in Tasks : Message("failed", t) \in told}

LifecycleKept == Lifecycle!Spec

\* What docs/technical-design.html:482 promises: a task is tried once and
\* retried at most MaxRetries times.
TriesWithinRetries ==
  \A t \in Tasks :
    assigns[t]["max"] + assigns[t]["loop"] + assigns[t]["retry"] <= 1 + MaxRetries

=============================================================================
