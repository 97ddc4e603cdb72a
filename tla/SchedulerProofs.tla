-------------------------- MODULE SchedulerProofs --------------------------
(***************************************************************************)
(* Theorems about Scheduler, for every set of plans, agents and bounds.    *)
(*                                                                         *)
(* Part 1: types, approval, order and owners.                              *)
(* Part 2: the tries, the failures and the refinement of PlanLifecycle.    *)
(* Part 3: what becomes of results and what Max reports.                   *)
(***************************************************************************)
EXTENDS Scheduler, TLAPS

\* The labels at which the loop works on the task cur of a message.
Handling == {"result", "done", "check", "get", "error", "count", "refail", "redispatch",
             "rerun", "resend", "exhausted", "escalate"}

\* What the types of the loop's steps rest on: it handles a real task, and has
\* a retry left when it counts one.
LoopOK ==
  /\ pc["loop"] \in Handling => cur \in Tasks
  /\ pc["loop"] = "count" => MayRetry(cur)

-----------------------------------------------------------------------------
(* What the critical sections and the bus preserve. *)

InboxOK ==
  /\ inbox \in [Subscribers -> Seq(Messages)]
  /\ \A n \in Subscribers : Len(inbox[n]) <= Capacity

LEMMA SendType ==
  ASSUME InboxOK, NEW msg \in Messages, NEW to, Send(to, msg)
  PROVE  InboxOK'
  BY CapacityAssumption DEF InboxOK, Send, Accepts

LEMMA ReceiveType ==
  ASSUME InboxOK, NEW name \in Subscribers, NEW msg, Receive(name, msg)
  PROVE  InboxOK' /\ msg \in Messages
  BY CapacityAssumption DEF InboxOK, Receive

LEMMA CreateType ==
  ASSUME TasksTypeOK, NEW t \in Tasks, Create(t)
  PROVE  TasksTypeOK'
  BY DEF TasksTypeOK, Create, Status

LEMMA TransitionType ==
  ASSUME TasksTypeOK, NEW t, NEW to \in Status, Transition(t, to)
  PROVE  TasksTypeOK'
  BY DEF TasksTypeOK, Transition

LEMMA SetResultType ==
  ASSUME TasksTypeOK, NEW t, NEW r \in {"ok", "error"}, SetResult(t, r)
  PROVE  TasksTypeOK'
  BY DEF TasksTypeOK, SetResult

LEMMA InjectArtifactsType ==
  ASSUME TasksTypeOK, NEW t, InjectArtifacts(t)
  PROVE  TasksTypeOK'
  BY DEF TasksTypeOK, InjectArtifacts

LEMMA ResetType ==
  ASSUME TasksTypeOK, Reset
  PROVE  TasksTypeOK'
  BY DEF TasksTypeOK, Reset

-----------------------------------------------------------------------------
(* Type correctness. *)

LEMMA InitType == Init => TypeOK /\ LoopOK
  BY PlansAssumption, CapacityAssumption, TasksAssumption
  DEF Init, TypeOK, LoopOK, TasksInit, BusInit, TasksTypeOK, Status, Home, Threads, Sources,
      MaxLabels, LoopLabels, DispatchLabels, Handling, Messages

LEMMA DispatchType ==
  ASSUME TypeOK, LoopOK, NEW th \in Threads, DispatchReady(th)
  PROVE  TypeOK' /\ LoopOK'
<1>1. CASE List(th)
  BY <1>1 DEF List, TypeOK, TasksTypeOK, LoopOK, Goto, Home, Threads, MaxLabels, LoopLabels,
              DispatchLabels, Handling, table, history, ReadyToDispatch, MayRetry
<1>2. CASE Inject(th)
  <2>. PICK t \in ready[th] : InjectArtifacts(t)
    BY <1>2 DEF Inject
  <2>1. TasksTypeOK'
    BY InjectArtifactsType DEF TypeOK
  <2>. QED
    BY <1>2, <2>1 DEF Inject, InjectArtifacts, TypeOK, LoopOK, Goto, Threads, MaxLabels, LoopLabels,
              DispatchLabels, Handling, history, MayRetry
<1>3. CASE MarkDispatched(th)
  <2>. PICK t \in ready[th] : Transition(t, "dispatched")
    BY <1>3 DEF MarkDispatched
  <2>1. TasksTypeOK'
    BY TransitionType DEF TypeOK, Status
  <2>. QED
    BY <1>3, <2>1 DEF MarkDispatched, Transition, TypeOK, LoopOK, Goto, Threads, MaxLabels,
              LoopLabels, DispatchLabels, Handling, history, MayRetry
<1>4. CASE MarkRunning(th)
  <2>. PICK t \in ready[th] : Transition(t, "running")
    BY <1>4 DEF MarkRunning
  <2>1. TasksTypeOK'
    BY TransitionType DEF TypeOK, Status
  <2>. QED
    BY <1>4, <2>1 DEF MarkRunning, Transition, TypeOK, LoopOK, Goto, Threads, MaxLabels,
              LoopLabels, DispatchLabels, Handling, history, MayRetry
<1>5. CASE Assign(th)
  <2>. PICK t \in ready[th] :
         /\ SendAssign(t, th)
         /\ ready' = [ready EXCEPT ![th] = @ \ {t}]
         /\ Goto(th, IF ready[th] = {t} THEN Home(th) ELSE "inject")
    BY <1>5 DEF Assign
  <2>. t \in Tasks
    BY DEF TypeOK
  <2>1. InboxOK'
    BY SendType DEF SendAssign, TypeOK, InboxOK, Message, Messages, MessageTypes
  <2>2. assigns' \in [Tasks -> [Sources -> Nat]] /\ lost' \subseteq Tasks
    BY DEF TypeOK, SendAssign, Sources
  <2>. QED
    BY <1>5, <2>1, <2>2 DEF Assign, TypeOK, InboxOK, TasksTypeOK, LoopOK, Goto, Home, Threads,
              MaxLabels, LoopLabels, DispatchLabels, Handling, table, MayRetry
<1>. QED
  BY <1>1, <1>2, <1>3, <1>4, <1>5 DEF DispatchReady

LEMMA MaxType ==
  ASSUME TypeOK, LoopOK, MaxStep
  PROVE  TypeOK' /\ LoopOK'
<1>. USE DEF TypeOK, LoopOK, Goto, Threads, MaxLabels, Handling, table, flow, history, MayRetry
<1>1. CASE MaxHearsInput
  <2>1. InboxOK' /\ TasksTypeOK'
    BY <1>1, ReceiveType, ResetType, PlansAssumption DEF MaxHearsInput, InboxOK
  <2>. QED
    BY <1>1, <2>1 DEF MaxHearsInput, InboxOK, Reset
<1>2. CASE MaxHearsAllDone
  <2>1. InboxOK'
    BY <1>2, ReceiveType, PlansAssumption DEF MaxHearsAllDone, InboxOK
  <2>. QED
    BY <1>2, <2>1 DEF MaxHearsAllDone, InboxOK, TasksTypeOK
<1>3. CASE MaxHearsOther
  <2>1. InboxOK'
    BY <1>3, ReceiveType, PlansAssumption DEF MaxHearsOther, InboxOK
  <2>. QED
    BY <1>3, <2>1 DEF MaxHearsOther, InboxOK, TasksTypeOK
<1>4. CASE MaxReports \/ MaxAnswers \/ Validate \/ ApprovalTimeout
  BY <1>4 DEF MaxReports, MaxAnswers, Validate, ApprovalTimeout, TasksTypeOK
<1>5. ASSUME NEW p \in Plans, SubmitPlan(p) PROVE TypeOK' /\ LoopOK'
  BY <1>5, PlansAssumption DEF SubmitPlan, TasksTypeOK
<1>6. ASSUME NEW t \in Tasks, CreateTask(t) PROVE TypeOK' /\ LoopOK'
  <2>1. TasksTypeOK'
    BY <1>6, CreateType DEF CreateTask
  <2>. QED
    BY <1>6, <2>1 DEF CreateTask, NextOf, Create
<1>7. ASSUME NEW t \in Tasks, PlanTask(t) PROVE TypeOK' /\ LoopOK'
  <2>1. TasksTypeOK'
    BY <1>7, TransitionType DEF PlanTask, Status
  <2>. QED
    BY <1>7, <2>1 DEF PlanTask, NextOf, Transition
<1>8. ASSUME NEW t \in Tasks, ApproveTask(t) PROVE TypeOK' /\ LoopOK'
  <2>1. TasksTypeOK'
    BY <1>8, TransitionType DEF ApproveTask, Status
  <2>. QED
    BY <1>8, <2>1 DEF ApproveTask, NextOf, Transition, DispatchLabels
<1>9. CASE UserApproves \/ UserRejects
  <2>1. InboxOK'
    BY <1>9, SendType DEF UserApproves, UserRejects, InboxOK, Message, Messages, MessageTypes
  <2>. QED
    BY <1>9, <2>1 DEF UserApproves, UserRejects, InboxOK, TasksTypeOK
<1>. QED
  BY <1>1, <1>2, <1>3, <1>4, <1>5, <1>6, <1>7, <1>8, <1>9, DispatchType DEF MaxStep

LEMMA LoopType ==
  ASSUME TypeOK, LoopOK, LoopStep
  PROVE  TypeOK' /\ LoopOK'
<1>. USE DEF TypeOK, LoopOK, Goto, Threads, LoopLabels, Handling, table, flow, history, MayRetry
<1>1. CASE LoopHears
  <2>. PICK t \in Tasks \cup {NoTask}, type \in MessageTypes,
              label \in {"recv", "result", "get"} :
         /\ LoopReceive(t, type, label)
         /\ label = "recv" \/ t \in Tasks
    BY <1>1 DEF LoopHears, MessageTypes
  <2>1. InboxOK'
    BY ReceiveType, PlansAssumption DEF LoopReceive, InboxOK
  <2>. QED
    BY <2>1 DEF LoopReceive, InboxOK, TasksTypeOK
<1>2. CASE StoreResult \/ StoreError
  <2>1. TasksTypeOK'
    BY <1>2, SetResultType DEF StoreResult, StoreError
  <2>. QED
    BY <1>2, <2>1 DEF StoreResult, StoreError, SetResult
<1>3. ASSUME NEW here \in Handling, NEW to \in Status, NEW next \in Handling \ {"count"},
             Mark(here, to, next)
      PROVE  TypeOK' /\ LoopOK'
  <2>1. TasksTypeOK'
    BY <1>3, TransitionType DEF Mark
  <2>. QED
    BY <1>3, <2>1 DEF Mark, Transition
<1>4. CASE CheckAllDone \/ GetTask
  BY <1>4 DEF CheckAllDone, GetTask, TasksTypeOK, DispatchLabels
<1>5. CASE CountRetry
  <2>1. cur \in Tasks /\ retries[cur] + 1 \in 0..MaxRetries
    BY <1>5, TasksAssumption DEF CountRetry, TasksTypeOK
  <2>2. TasksTypeOK'
    BY <1>5, <2>1 DEF CountRetry, TasksTypeOK
  <2>. QED
    BY <1>5, <2>1, <2>2 DEF CountRetry
<1>6. CASE Resend
  <2>1. InboxOK'
    BY <1>6, SendType DEF Resend, SendAssign, InboxOK, Message, Messages, MessageTypes
  <2>2. assigns' \in [Tasks -> [Sources -> Nat]] /\ lost' \subseteq Tasks
    BY <1>6 DEF Resend, SendAssign, Sources
  <2>. QED
    BY <1>6, <2>1, <2>2 DEF Resend, InboxOK, TasksTypeOK
<1>7. CASE TellAllDone \/ Escalate
  <2>. PICK msg \in Messages : TellMax(msg)
    BY <1>7 DEF TellAllDone, Escalate, Message, Messages, MessageTypes
  <2>1. InboxOK'
    BY SendType DEF TellMax, InboxOK
  <2>. QED
    BY <1>7, <2>1 DEF TellAllDone, Escalate, TellMax, InboxOK, TasksTypeOK
<1>8. CASE MarkDone \/ MarkRetry \/ MarkFailed
  BY <1>8, <1>3 DEF MarkDone, MarkRetry, MarkFailed, Status
<1>. QED
  BY <1>1, <1>2, <1>4, <1>5, <1>6, <1>7, <1>8, DispatchType DEF LoopStep

LEMMA AgentType ==
  ASSUME TypeOK, LoopOK, NEW a \in Coders, AgentStep(a)
  PROVE  TypeOK' /\ LoopOK'
<1>. USE DEF TypeOK, LoopOK, table, history, MayRetry
<1>1. CASE AgentReceive(a)
  <2>1. InboxOK'
    BY <1>1, ReceiveType DEF AgentReceive, InboxOK, Coders
  <2>. QED
    BY <1>1, <2>1 DEF AgentReceive, InboxOK, TasksTypeOK
<1>2. ASSUME NEW type \in {"result", "failed"}, AgentFinish(a, type) PROVE TypeOK' /\ LoopOK'
  <2>1. InboxOK'
    BY <1>2, SendType DEF AgentFinish, InboxOK, Message, Messages, MessageTypes
  <2>. QED
    BY <1>2, <2>1 DEF AgentFinish, InboxOK, TasksTypeOK
<1>. QED
  BY <1>1, <1>2 DEF AgentStep

LEMMA NextType == TypeOK /\ LoopOK /\ [Next]_vars => TypeOK' /\ LoopOK'
<1>. SUFFICES ASSUME TypeOK, LoopOK, [Next]_vars PROVE TypeOK' /\ LoopOK'
  OBVIOUS
<1>1. CASE UserTypes
  <2>1. InboxOK'
    BY <1>1, SendType DEF UserTypes, TypeOK, InboxOK, Message, Messages, MessageTypes
  <2>. QED
    BY <1>1, <2>1, PlansAssumption
    DEF UserTypes, TypeOK, InboxOK, TasksTypeOK, LoopOK, table, flow, MayRetry
<1>2. CASE UNCHANGED vars
  BY <1>2 DEF vars, table, flow, history, TypeOK, TasksTypeOK, LoopOK, MayRetry
<1>. QED
  BY <1>1, <1>2, MaxType, LoopType, AgentType DEF Next

\* Every variable has its type in every reachable state.
THEOREM TypeCorrect == Spec => []TypeOK
<1>. QED
  BY InitType, NextType, PTL DEF Spec

-----------------------------------------------------------------------------
(* The bus delivers nothing that was not sent. *)

LEMMA SendInbox ==
  ASSUME InboxOK, NEW to, NEW msg, Send(to, msg), NEW n, NEW m, InInbox(n, m)'
  PROVE  InInbox(n, m) \/ (n = to /\ m = msg)
  BY CapacityAssumption DEF InboxOK, Send, Accepts, InInbox

LEMMA ReceiveInbox ==
  ASSUME InboxOK, NEW name \in Subscribers, NEW msg, Receive(name, msg)
  PROVE  /\ InInbox(name, msg)
         /\ \A n, m : InInbox(n, m)' => InInbox(n, m)
  BY DEF InboxOK, Receive, InInbox

\* A task is in flight from the send that assigns it to the last step the loop
\* makes with its outcome.
InFlight(t) ==
  \/ cur = t /\ pc["loop"] \in Handling
  \/ \E a \in Coders : busy[a] = t \/ InInbox(a, Message("assign", t))
  \/ \E type \in {"result", "failed"} : InInbox("scheduler", Message(type, t))

FlightOK == \A t \in Tasks : InFlight(t) => Assigned(t)

LEMMA InitFlight == Init => FlightOK
  BY TasksAssumption, PlansAssumption
  DEF Init, BusInit, FlightOK, InFlight, Home, Threads, Coders, InInbox, Handling, Message

LEMMA DispatchFlight ==
  ASSUME TypeOK, FlightOK, NEW th \in Threads, DispatchReady(th)
  PROVE  FlightOK'
<1>. USE DEF FlightOK, InFlight, TypeOK, Goto, Home, Threads, Handling, history
<1>1. CASE Assign(th)
  <2>. PICK t \in Tasks : SendAssign(t, th) /\ pc'["loop"] \in {pc["loop"], "recv", "inject"}
    BY <1>1 DEF Assign
  <2>1. \A u \in Tasks : Assigned(u) => Assigned(u)'
    BY DEF SendAssign, Assigned, Sources
  <2>2. Assigned(t)'
    BY DEF SendAssign, Assigned, Sources
  <2>3. \A n, u, type : InInbox(n, Message(type, u))' =>
          InInbox(n, Message(type, u)) \/ (u = t /\ type = "assign")
    BY SendInbox DEF SendAssign, InboxOK, Message
  <2>. QED
    BY <1>1, <2>1, <2>2, <2>3 DEF Assign
<1>2. CASE List(th)
  BY <1>2 DEF List, Assigned, InInbox
<1>3. CASE Inject(th) \/ MarkDispatched(th) \/ MarkRunning(th)
  BY <1>3 DEF Inject, MarkDispatched, MarkRunning, Assigned, InInbox
<1>. QED
  BY <1>1, <1>2, <1>3 DEF DispatchReady

\* What Max's own steps leave alone, and what they may put into inboxes.
MaxMove ==
  \/ MaxHearsInput \/ MaxHearsAllDone \/ MaxHearsOther \/ MaxReports \/ MaxAnswers
  \/ \E p \in Plans : SubmitPlan(p)
  \/ \E t \in Tasks : CreateTask(t) \/ PlanTask(t) \/ ApproveTask(t)
  \/ Validate \/ UserApproves \/ UserRejects \/ ApprovalTimeout

LEMMA MaxFrame ==
  ASSUME TypeOK, MaxMove
  PROVE  /\ cur' = cur /\ busy' = busy /\ ready' = ready /\ assigns' = assigns
         /\ pc'["loop"] = pc["loop"]
         /\ \A n, t : \A type \in {"assign", "result", "failed"} :
              InInbox(n, Message(type, t))' => InInbox(n, Message(type, t))
<1>. USE DEF MaxMove, TypeOK, Goto, Threads, history, flow
<1>1. CASE MaxHearsInput \/ MaxHearsAllDone \/ MaxHearsOther
  BY <1>1, ReceiveInbox, PlansAssumption
  DEF MaxHearsInput, MaxHearsAllDone, MaxHearsOther, InboxOK
<1>2. CASE UserApproves \/ UserRejects
  BY <1>2, SendInbox DEF UserApproves, UserRejects, InboxOK, Message
<1>3. CASE \E p \in Plans : SubmitPlan(p)
  BY <1>3 DEF SubmitPlan, InInbox
<1>4. CASE \E t \in Tasks : CreateTask(t) \/ PlanTask(t) \/ ApproveTask(t)
  BY <1>4 DEF CreateTask, PlanTask, ApproveTask, NextOf, InInbox
<1>5. CASE MaxReports \/ MaxAnswers \/ Validate \/ ApprovalTimeout
  BY <1>5 DEF MaxReports, MaxAnswers, Validate, ApprovalTimeout, InInbox
<1>. QED
  BY <1>1, <1>2, <1>3, <1>4, <1>5

LEMMA MaxFlight ==
  ASSUME TypeOK, FlightOK, MaxStep
  PROVE  FlightOK'
<1>1. CASE MaxMove
  BY <1>1, MaxFrame DEF FlightOK, InFlight, Assigned, Message
<1>. QED
  BY <1>1, DispatchFlight DEF MaxStep, MaxMove, Threads

LEMMA LoopFlight ==
  ASSUME TypeOK, LoopOK, FlightOK, LoopStep
  PROVE  FlightOK'
<1>. USE DEF FlightOK, InFlight, TypeOK, Goto, Threads, Handling, history, table
<1>1. CASE LoopHears
  <2>. PICK t, type, label :
         /\ LoopReceive(t, type, label)
         /\ label = "recv" \/ type \in {"result", "failed"}
    BY <1>1 DEF LoopHears
  <2>1. InInbox("scheduler", Message(type, t))
    BY ReceiveInbox, PlansAssumption DEF LoopReceive, InboxOK
  <2>2. \A n, m : InInbox(n, m)' => InInbox(n, m)
    BY ReceiveInbox, PlansAssumption DEF LoopReceive, InboxOK
  <2>. QED
    BY <2>1, <2>2 DEF LoopReceive, Assigned
<1>2. CASE Resend
  <2>. cur \in Tasks /\ Assigned(cur)
    BY <1>2 DEF Resend, LoopOK
  <2>1. \A u \in Tasks : Assigned(u) => Assigned(u)'
    BY <1>2 DEF Resend, SendAssign, Assigned, Sources
  <2>2. \A n, u, type : InInbox(n, Message(type, u))' =>
          InInbox(n, Message(type, u)) \/ (u = cur /\ type = "assign")
    BY <1>2, SendInbox DEF Resend, SendAssign, InboxOK, Message
  <2>. QED
    BY <1>2, <2>1, <2>2 DEF Resend
<1>3. CASE TellAllDone \/ Escalate
  <2>1. \A a \in Coders : \A u : InInbox(a, Message("assign", u))' => InInbox(a, Message("assign", u))
    BY <1>3, SendInbox DEF TellAllDone, Escalate, TellMax, InboxOK, Coders
  <2>2. \A u, type : InInbox("scheduler", Message(type, u))' => InInbox("scheduler", Message(type, u))
    BY <1>3, SendInbox DEF TellAllDone, Escalate, TellMax, InboxOK
  <2>. QED
    BY <1>3, <2>1, <2>2 DEF TellAllDone, Escalate, Assigned
<1>4. CASE StoreResult \/ StoreError \/ CountRetry \/ CheckAllDone \/ GetTask
  <2>. /\ cur' = cur /\ busy' = busy /\ inbox' = inbox /\ assigns' = assigns
       /\ pc["loop"] \in Handling
    BY <1>4 DEF StoreResult, StoreError, CountRetry, CheckAllDone, GetTask
  <2>. QED
    BY DEF Assigned, InInbox
<1>5. CASE MarkDone \/ MarkRetry \/ MarkFailed
  <2>. /\ cur' = cur /\ busy' = busy /\ inbox' = inbox /\ assigns' = assigns
       /\ pc["loop"] \in Handling
    BY <1>5 DEF MarkDone, MarkRetry, MarkFailed, Mark
  <2>. QED
    BY DEF Assigned, InInbox
<1>. QED
  BY <1>1, <1>2, <1>3, <1>4, <1>5, DispatchFlight DEF LoopStep

LEMMA AgentFlight ==
  ASSUME TypeOK, FlightOK, NEW a \in Coders, AgentStep(a)
  PROVE  FlightOK'
<1>. USE DEF FlightOK, InFlight, TypeOK, history, Coders
<1>1. CASE AgentReceive(a)
  <2>. PICK t \in Tasks : Receive(a, Message("assign", t)) /\ busy' = [busy EXCEPT ![a] = t]
    BY <1>1 DEF AgentReceive
  <2>1. InInbox(a, Message("assign", t)) /\ \A n, m : InInbox(n, m)' => InInbox(n, m)
    BY ReceiveInbox DEF InboxOK
  <2>. QED
    BY <1>1, <2>1 DEF AgentReceive, Assigned
<1>2. ASSUME NEW type \in {"result", "failed"}, AgentFinish(a, type) PROVE FlightOK'
  <2>1. \A n, m : InInbox(n, m)' => InInbox(n, m) \/ (n = "scheduler" /\ m = Message(type, busy[a]))
    BY <1>2, SendInbox DEF AgentFinish, InboxOK
  <2>2. ASSUME NEW u \in Tasks, InFlight(u)' PROVE InFlight(u)
    <3>. cur' = cur /\ pc' = pc /\ busy' = [busy EXCEPT ![a] = NoTask] /\ "scheduler" \notin Coders
      BY <1>2 DEF AgentFinish
    <3>1. CASE \E b \in Coders : busy'[b] = u
      BY <3>1, TasksAssumption
    <3>2. CASE \E b \in Coders : InInbox(b, Message("assign", u))'
      BY <2>1, <3>2
    <3>3. ASSUME NEW other \in {"result", "failed"}, InInbox("scheduler", Message(other, u))'
          PROVE  InFlight(u)
      <4>1. InInbox("scheduler", Message(other, u)) \/ Message(other, u) = Message(type, busy[a])
        BY <2>1, <3>3
      <4>. QED
        BY <4>1 DEF Message
    <3>. QED
      BY <2>2, <3>1, <3>2, <3>3
  <2>. QED
    BY <1>2, <2>2 DEF AgentFinish, Assigned
<1>. QED
  BY <1>1, <1>2 DEF AgentStep

LEMMA NextFlight == TypeOK /\ LoopOK /\ FlightOK /\ [Next]_vars => FlightOK'
<1>. SUFFICES ASSUME TypeOK, LoopOK, FlightOK, [Next]_vars PROVE FlightOK'
  OBVIOUS
<1>1. CASE UserTypes
  <2>1. \A n, u : \A type \in {"assign", "result", "failed"} :
          InInbox(n, Message(type, u))' => InInbox(n, Message(type, u))
    BY <1>1, SendInbox DEF UserTypes, TypeOK, InboxOK, Message
  <2>. QED
    BY <1>1, <2>1 DEF UserTypes, FlightOK, InFlight, Assigned, flow, Message
<1>2. CASE UNCHANGED vars
  BY <1>2 DEF vars, flow, history, FlightOK, InFlight, Assigned, InInbox
<1>. QED
  BY <1>1, <1>2, MaxFlight, LoopFlight, AgentFlight DEF Next

-----------------------------------------------------------------------------
(* Nothing runs before a human agreed. *)

\* SubmitPlan approves only what the user approved.
ApprovingOK == pc["max"] = "approve" => todo \subseteq approved

\* What every task handled by dispatchReady or the loop has behind it.
LEMMA TouchedApproved ==
  ASSUME HumanInTheLoop, FlightOK, LoopOK, NEW t \in Tasks,
         (\E th \in Threads : t \in ready[th]) \/ (t = cur /\ pc["loop"] \in Handling)
  PROVE  t \in approved
  BY DEF HumanInTheLoop, FlightOK, InFlight

\* A critical section that moves no task of an unapproved plan, and a step
\* that changes nothing the property is about.
LEMMA TransitionHuman ==
  ASSUME TypeOK, HumanInTheLoop, NEW t \in approved, NEW to, Transition(t, to),
         UNCHANGED <<ready, busy, approved, assigns>>
  PROVE  HumanInTheLoop'
  BY DEF HumanInTheLoop, Transition, TypeOK, TasksTypeOK, Assigned, Sources

LEMMA StatusKeptHuman ==
  ASSUME HumanInTheLoop, UNCHANGED <<status, ready, busy, approved, assigns>>
  PROVE  HumanInTheLoop'
  BY DEF HumanInTheLoop, Assigned

LEMMA DispatchHuman ==
  ASSUME TypeOK, LoopOK, FlightOK, HumanInTheLoop, NEW th \in Threads, DispatchReady(th)
  PROVE  HumanInTheLoop'
<1>. USE DEF TypeOK, history
<1>1. CASE List(th)
  <2>1. \A t \in ready'[th] : t \in Tasks /\ status[t] = "approved"
    BY <1>1 DEF List, ReadyToDispatch, TasksTypeOK
  <2>. QED
    BY <1>1, <2>1 DEF List, HumanInTheLoop, Assigned, table
<1>2. CASE Inject(th)
  BY <1>2, StatusKeptHuman DEF Inject, InjectArtifacts
<1>3. CASE MarkDispatched(th) \/ MarkRunning(th)
  <2>. PICK t \in ready[th], to \in {"dispatched", "running"} : Transition(t, to)
    BY <1>3 DEF MarkDispatched, MarkRunning
  <2>1. t \in approved
    BY TouchedApproved
  <2>. QED
    BY <1>3, <2>1, TransitionHuman DEF MarkDispatched, MarkRunning
<1>4. CASE Assign(th)
  <2>. PICK t \in ready[th] : SendAssign(t, th) /\ ready' = [ready EXCEPT ![th] = @ \ {t}]
    BY <1>4 DEF Assign
  <2>1. t \in Tasks /\ t \in approved
    BY TouchedApproved
  <2>2. \A u \in Tasks : Assigned(u)' => Assigned(u) \/ u = t
    BY DEF SendAssign, Assigned, Sources
  <2>. QED
    BY <1>4, <2>1, <2>2 DEF Assign, HumanInTheLoop, table
<1>. QED
  BY <1>1, <1>2, <1>3, <1>4 DEF DispatchReady

LEMMA MaxHuman ==
  ASSUME TypeOK, LoopOK, FlightOK, HumanInTheLoop, ApprovingOK, MaxStep
  PROVE  HumanInTheLoop' /\ ApprovingOK'
<1>. USE DEF TypeOK, ApprovingOK, Goto, Threads, history, flow, table
<1>1. CASE MaxHearsInput \/ MaxHearsAllDone \/ MaxHearsOther \/ MaxReports \/ MaxAnswers
           \/ Validate \/ UserRejects \/ ApprovalTimeout
  BY <1>1, StatusKeptHuman
  DEF MaxHearsInput, Reset, MaxHearsAllDone, MaxHearsOther, MaxReports, MaxAnswers, Validate,
      UserRejects, ApprovalTimeout
<1>2. ASSUME NEW p \in Plans, SubmitPlan(p) PROVE HumanInTheLoop' /\ ApprovingOK'
  BY <1>2, StatusKeptHuman DEF SubmitPlan
<1>3. ASSUME NEW t \in Tasks, CreateTask(t) \/ PlanTask(t) PROVE HumanInTheLoop' /\ ApprovingOK'
  <2>1. UNCHANGED <<ready, busy, approved, assigns>> /\ pc'["max"] # "approve"
    BY <1>3 DEF CreateTask, PlanTask, NextOf
  <2>2. \A u \in Tasks : status'[u] \in {status[u], "created", "planned"}
    BY <1>3 DEF CreateTask, PlanTask, Create, Transition, TasksTypeOK
  <2>. QED
    BY <2>1, <2>2 DEF HumanInTheLoop, Assigned, Started
<1>4. CASE UserApproves
  BY <1>4 DEF UserApproves, HumanInTheLoop, Assigned
<1>5. ASSUME NEW t \in Tasks, ApproveTask(t) PROVE HumanInTheLoop' /\ ApprovingOK'
  <2>1. t \in approved /\ ApprovingOK'
    BY <1>5 DEF ApproveTask, NextOf, Least
  <2>. QED
    BY <1>5, <2>1, TransitionHuman DEF ApproveTask
<1>6. CASE DispatchReady("max")
  <2>1. ApprovingOK'
    BY <1>6 DEF DispatchReady, List, Inject, MarkDispatched, MarkRunning, Assign, Home
  <2>. QED
    BY <1>6, <2>1, DispatchHuman
<1>. QED
  BY <1>1, <1>2, <1>3, <1>4, <1>5, <1>6 DEF MaxStep

LEMMA LoopHuman ==
  ASSUME TypeOK, LoopOK, FlightOK, HumanInTheLoop, ApprovingOK, LoopStep
  PROVE  HumanInTheLoop' /\ ApprovingOK'
<1>. USE DEF TypeOK, ApprovingOK, Goto, Threads, history, flow, table
<1>1. ApprovingOK'
  BY DEF LoopStep, LoopHears, LoopReceive, StoreResult, MarkDone, CheckAllDone, TellAllDone,
         GetTask, StoreError, CountRetry, MarkRetry, Resend, MarkFailed, Escalate, Mark,
         DispatchReady, List, Inject, MarkDispatched, MarkRunning, Assign
<1>2. CASE LoopHears \/ StoreResult \/ CheckAllDone \/ TellAllDone \/ GetTask \/ StoreError
           \/ CountRetry \/ Escalate
  BY <1>1, <1>2, StatusKeptHuman
  DEF LoopHears, LoopReceive, StoreResult, SetResult, CheckAllDone, TellAllDone, GetTask,
      StoreError, CountRetry, Escalate
<1>3. CASE MarkDone \/ MarkRetry \/ MarkFailed
  <2>. PICK to : Transition(cur, to)
    BY <1>3 DEF MarkDone, MarkRetry, MarkFailed, Mark
  <2>1. cur \in approved
    BY <1>3, TouchedApproved DEF MarkDone, MarkRetry, MarkFailed, Mark, Handling, LoopOK
  <2>2. UNCHANGED <<ready, busy, approved, assigns>>
    BY <1>3 DEF MarkDone, MarkRetry, MarkFailed, Mark
  <2>. QED
    BY <1>1, <2>1, <2>2, TransitionHuman
<1>4. CASE Resend
  <2>1. cur \in Tasks /\ cur \in approved
    BY <1>4, TouchedApproved DEF Resend, Handling, LoopOK
  <2>2. \A u \in Tasks : Assigned(u)' => Assigned(u) \/ u = cur
    BY <1>4 DEF Resend, SendAssign, Assigned, Sources
  <2>. QED
    BY <1>1, <1>4, <2>1, <2>2 DEF Resend, HumanInTheLoop
<1>. QED
  BY <1>1, <1>2, <1>3, <1>4, DispatchHuman DEF LoopStep

LEMMA AgentHuman ==
  ASSUME TypeOK, LoopOK, FlightOK, HumanInTheLoop, ApprovingOK, NEW a \in Coders, AgentStep(a)
  PROVE  HumanInTheLoop' /\ ApprovingOK'
<1>. USE DEF TypeOK, ApprovingOK, history, table
<1>1. CASE AgentReceive(a)
  <2>. PICK t \in Tasks : Receive(a, Message("assign", t)) /\ busy' = [busy EXCEPT ![a] = t]
    BY <1>1 DEF AgentReceive
  <2>1. t \in approved
    BY ReceiveInbox DEF InboxOK, HumanInTheLoop, FlightOK, InFlight, Coders
  <2>. QED
    BY <1>1, <2>1 DEF AgentReceive, HumanInTheLoop, Assigned
<1>2. ASSUME NEW type, AgentFinish(a, type) PROVE HumanInTheLoop' /\ ApprovingOK'
  BY <1>2, TasksAssumption DEF AgentFinish, HumanInTheLoop, Assigned
<1>. QED
  BY <1>1, <1>2 DEF AgentStep

\* The inductive invariant behind the theorems.
SafetyOK ==
  /\ TypeOK
  /\ LoopOK
  /\ FlightOK
  /\ HumanInTheLoop
  /\ ApprovingOK

LEMMA InitSafety == Init => SafetyOK
<1>. SUFFICES ASSUME Init PROVE HumanInTheLoop /\ ApprovingOK
  BY InitType, InitFlight DEF SafetyOK
<1>. QED
  BY TasksAssumption DEF Init, TasksInit, HumanInTheLoop, ApprovingOK, Assigned, Started, Home,
     Threads, Sources, Coders

LEMMA NextSafety == SafetyOK /\ [Next]_vars => SafetyOK'
<1>. SUFFICES ASSUME SafetyOK, [Next]_vars PROVE HumanInTheLoop' /\ ApprovingOK'
  BY NextType, NextFlight DEF SafetyOK
<1>1. CASE UserTypes \/ UNCHANGED vars
  BY <1>1, StatusKeptHuman DEF SafetyOK, UserTypes, ApprovingOK, vars, table, flow, history
<1>. QED
  BY <1>1, MaxHuman, LoopHuman, AgentHuman DEF SafetyOK, Next

\* No task is listed for dispatch, started or given to an agent unless the user
\* approved the plan it belongs to.
THEOREM HumanAgrees == Spec => []HumanInTheLoop
<1>1. SafetyOK => HumanInTheLoop
  BY DEF SafetyOK
<1>. QED
  BY <1>1, InitSafety, NextSafety, PTL DEF Spec

-----------------------------------------------------------------------------
(* The order of execution. *)

\* A plan that is not approved yet is not approved by way of another: plans
\* share no task, and none is submitted twice.
FreshOK == pc["max"] \in {"create", "validate", "plan", "await"} => plan \cap approved = {}

\* The order's own part of the inductive invariant.
OrderOK == DependenciesFirst /\ FreshOK

\* What sets a task going: by HumanInTheLoop only approved tasks are.
Going(t) ==
  \/ status[t] \in Started
  \/ Assigned(t)
  \/ \E th \in Threads : t \in ready[th]

LEMMA GoingApproved ==
  ASSUME HumanInTheLoop, NEW t \in Tasks, Going(t)
  PROVE  t \in approved
  BY DEF HumanInTheLoop, Going

\* A step that sets nothing going keeps the order if what was done stays done.
LEMMA NothingNewOrder ==
  ASSUME TypeOK, DependenciesFirst, known' \subseteq Tasks,
         \A t \in known' : Going(t)' => t \in known /\ Going(t),
         \A d : DependencyDone(d) => DependencyDone(d)' \/ known' = {}
  PROVE  DependenciesFirst'
  BY DEF DependenciesFirst, Going

\* Done is final, so a transition keeps the order if its task is going.
LEMMA TransitionOrder ==
  ASSUME TypeOK, DependenciesFirst, NEW t, t \in known => Going(t), NEW to, Transition(t, to),
         UNCHANGED <<ready, assigns>>
  PROVE  DependenciesFirst'
<1>1. \A d : DependencyDone(d) => DependencyDone(d)'
  BY DEF DependencyDone, Transition, TypeOK, TasksTypeOK, CanTransitionTo, validTransitions
<1>2. known' = known /\ \A u \in known : Going(u)' => Going(u)
  BY DEF Transition, Going, Assigned, TypeOK, TasksTypeOK
<1>. QED
  BY <1>1, <1>2, NothingNewOrder DEF TypeOK, TasksTypeOK

LEMMA FrameOrder ==
  ASSUME TypeOK, DependenciesFirst, UNCHANGED <<known, status, ready, assigns>>
  PROVE  DependenciesFirst'
  BY NothingNewOrder DEF Going, Assigned, DependencyDone, TypeOK, TasksTypeOK

LEMMA DispatchOrder ==
  ASSUME TypeOK, DependenciesFirst, NEW th \in Threads, DispatchReady(th)
  PROVE  DependenciesFirst'
<1>. USE DEF table, history
<1>1. CASE List(th)
  <2>1. \A t \in ready'[th] : \A d \in DependsOn[t] : DependencyDone(d)
    BY <1>1 DEF List, ReadyToDispatch, TypeOK
  <2>2. \A t \in known : Going(t)' => Going(t) \/ t \in ready'[th]
    BY <1>1 DEF List, Going, Assigned, TypeOK
  <2>3. \A d : DependencyDone(d) => DependencyDone(d)'
    BY <1>1 DEF List, DependencyDone
  <2>. QED
    BY <1>1, <2>1, <2>2, <2>3 DEF List, DependenciesFirst, Going
<1>2. CASE Inject(th)
  BY <1>2, FrameOrder DEF Inject, InjectArtifacts
<1>3. CASE MarkDispatched(th) \/ MarkRunning(th)
  <2>. PICK t \in ready[th], to \in {"dispatched", "running"} : Transition(t, to)
    BY <1>3 DEF MarkDispatched, MarkRunning
  <2>. QED
    BY <1>3, TransitionOrder DEF MarkDispatched, MarkRunning, Going
<1>4. CASE Assign(th)
  <2>. PICK t \in ready[th] : SendAssign(t, th) /\ ready' = [ready EXCEPT ![th] = @ \ {t}]
    BY <1>4 DEF Assign
  <2>1. \A u \in Tasks : Assigned(u)' => Assigned(u) \/ u = t
    BY DEF SendAssign, Assigned, Sources, TypeOK
  <2>2. \A u \in known : Going(u)' => Going(u)
    BY <1>4, <2>1 DEF Assign, Going, TypeOK, TasksTypeOK
  <2>. QED
    BY <1>4, <2>2, NothingNewOrder DEF Assign, DependencyDone, TypeOK, TasksTypeOK
<1>. QED
  BY <1>1, <1>2, <1>3, <1>4 DEF DispatchReady

LEMMA MaxOrder ==
  ASSUME SafetyOK, OrderOK, MaxStep
  PROVE  OrderOK'
<1>. USE DEF SafetyOK, OrderOK, FreshOK, TypeOK, Goto, Threads, history, flow, table
<1>1. CASE MaxHearsInput
  BY <1>1 DEF MaxHearsInput, Reset, DependenciesFirst
<1>2. CASE MaxHearsAllDone \/ MaxHearsOther \/ MaxReports \/ MaxAnswers \/ Validate
           \/ UserApproves \/ UserRejects \/ ApprovalTimeout
  BY <1>2, FrameOrder
  DEF MaxHearsAllDone, MaxHearsOther, MaxReports, MaxAnswers, Validate, UserApproves,
      UserRejects, ApprovalTimeout
<1>3. ASSUME NEW p \in Plans, SubmitPlan(p) PROVE OrderOK'
  BY <1>3, FrameOrder DEF SubmitPlan
<1>4. ASSUME NEW t \in Tasks, CreateTask(t) PROVE OrderOK'
  <2>1. t \in plan /\ ~Going(t) /\ FreshOK'
    BY <1>4, GoingApproved DEF CreateTask, NextOf, Least
  <2>2. \A d : DependencyDone(d) => DependencyDone(d)'
    BY <1>4, <2>1 DEF CreateTask, Create, DependencyDone, Going, Started, TasksTypeOK
  <2>3. \A u \in known' : Going(u)' => u \in known /\ Going(u)
    BY <1>4, <2>1 DEF CreateTask, Create, Going, Started, Assigned, TasksTypeOK
  <2>4. known' \subseteq Tasks
    BY <1>4 DEF CreateTask, Create, TasksTypeOK
  <2>. QED
    BY <2>1, <2>2, <2>3, <2>4, NothingNewOrder
<1>5. ASSUME NEW t \in Tasks, PlanTask(t) \/ ApproveTask(t) PROVE OrderOK'
  <2>1. FreshOK' /\ UNCHANGED <<known, ready, assigns>>
    BY <1>5 DEF PlanTask, ApproveTask, NextOf, Transition
  <2>2. \A d : DependencyDone(d) => DependencyDone(d)'
    BY <1>5 DEF PlanTask, ApproveTask, DependencyDone, Transition, TasksTypeOK,
                CanTransitionTo, validTransitions
  <2>3. \A u \in known : Going(u)' => Going(u)
    BY <1>5, <2>1 DEF PlanTask, ApproveTask, Transition, Going, Started, Assigned, TasksTypeOK
  <2>. QED
    BY <2>1, <2>2, <2>3, NothingNewOrder DEF TasksTypeOK
<1>6. CASE DispatchReady("max")
  <2>1. FreshOK'
    BY <1>6 DEF DispatchReady, List, Inject, MarkDispatched, MarkRunning, Assign, Home
  <2>. QED
    BY <1>6, <2>1, DispatchOrder
<1>. QED
  BY <1>1, <1>2, <1>3, <1>4, <1>5, <1>6 DEF MaxStep

LEMMA LoopOrder ==
  ASSUME SafetyOK, OrderOK, LoopStep
  PROVE  OrderOK'
<1>. USE DEF SafetyOK, OrderOK, FreshOK, TypeOK, Goto, Threads, history, flow, table
<1>1. FreshOK'
  BY DEF LoopStep, LoopHears, LoopReceive, StoreResult, MarkDone, CheckAllDone, TellAllDone,
         GetTask, StoreError, CountRetry, MarkRetry, Resend, MarkFailed, Escalate, Mark,
         DispatchReady, List, Inject, MarkDispatched, MarkRunning, Assign
<1>2. CASE LoopHears \/ StoreResult \/ CheckAllDone \/ TellAllDone \/ GetTask \/ StoreError
           \/ CountRetry \/ Escalate
  BY <1>1, <1>2, FrameOrder
  DEF LoopHears, LoopReceive, StoreResult, SetResult, CheckAllDone, TellAllDone, GetTask,
      StoreError, CountRetry, Escalate
<1>3. pc["loop"] \in Handling => cur \in Tasks /\ Going(cur)
  BY DEF FlightOK, InFlight, LoopOK, Going
<1>4. CASE MarkDone \/ MarkRetry \/ MarkFailed
  <2>. PICK to : Transition(cur, to)
    BY <1>4 DEF MarkDone, MarkRetry, MarkFailed, Mark
  <2>. QED
    BY <1>1, <1>3, <1>4, TransitionOrder
    DEF MarkDone, MarkRetry, MarkFailed, Mark, Handling
<1>5. CASE Resend
  <2>1. \A u \in Tasks : Assigned(u)' => Assigned(u) \/ u = cur
    BY <1>5 DEF Resend, SendAssign, Assigned, Sources
  <2>2. \A u \in known : Going(u)' => Going(u)
    BY <1>3, <1>5, <2>1 DEF Resend, Going, Handling, TasksTypeOK
  <2>. QED
    BY <1>1, <1>5, <2>2, NothingNewOrder DEF Resend, DependencyDone, TasksTypeOK
<1>. QED
  BY <1>1, <1>2, <1>4, <1>5, DispatchOrder DEF LoopStep

LEMMA NextOrder == SafetyOK /\ OrderOK /\ [Next]_vars => OrderOK'
<1>. SUFFICES ASSUME SafetyOK, OrderOK, [Next]_vars PROVE OrderOK'
  OBVIOUS
<1>1. CASE UserTypes \/ UNCHANGED vars \/ \E a \in Coders : AgentStep(a)
  BY <1>1, FrameOrder
  DEF SafetyOK, OrderOK, FreshOK, UserTypes, AgentStep, AgentReceive, AgentFinish, vars, table,
      flow, history
<1>. QED
  BY <1>1, MaxOrder, LoopOrder DEF Next

\* No task of the current table is listed, started or assigned before all its
\* dependencies are done, although both threads act on lists read earlier.
THEOREM DependenciesRespected == Spec => []DependenciesFirst
<1>1. Init => OrderOK
  BY TasksAssumption DEF Init, TasksInit, OrderOK, DependenciesFirst, FreshOK, Home, Threads
<1>2. OrderOK => DependenciesFirst
  BY DEF OrderOK
<1>. QED
  BY <1>1, <1>2, InitSafety, NextSafety, NextOrder, PTL DEF Spec

-----------------------------------------------------------------------------
(* No task is left running with nobody to work on it. *)

\* The labels at which the loop is going to move cur on.
Moving == Handling \ {"check", "escalate"}

\* th is going to mark t running after it was marked dispatched.
Awaits(th, t) == t \in ready[th] /\ ~(pc[th] = "assign" /\ Least(t, ready[th]))

\* Every transition to dispatched has the one to running ahead of it.
DispatchedOK ==
  \A t \in known : status[t] = "dispatched" =>
    \/ cur = t /\ pc["loop"] = "rerun"
    \/ \E th \in Threads : Awaits(th, t)

\* A list is finished before the next is read.
ListOK == \A th \in Threads : pc[th] \notin {"inject", "dispatch", "run", "assign"} => ready[th] = {}

\* The inductive invariant.
OwnerOK == DispatchedOK /\ ListOK /\ RunningHasOwner

-----------------------------------------------------------------------------
(* The bus forgets nothing that it accepted. *)

LEMMA SendKeeps ==
  ASSUME InboxOK, NEW to, NEW msg, Send(to, msg), NEW n, NEW m, InInbox(n, m)
  PROVE  InInbox(n, m)'
  BY DEF InboxOK, Send, Accepts, InInbox

LEMMA SendDelivers ==
  ASSUME InboxOK, NEW to, NEW msg, Send(to, msg), Accepts(to)
  PROVE  InInbox(to, msg)'
<1>1. inbox'[to] = Append(inbox[to], msg) /\ inbox[to] \in Seq(Messages) /\ to \in Subscribers
  BY DEF InboxOK, Send, Accepts
<1>2. Len(inbox'[to]) = Len(inbox[to]) + 1 /\ inbox'[to][Len(inbox[to]) + 1] = msg
  BY <1>1
<1>. QED
  BY <1>1, <1>2 DEF InInbox

LEMMA ReceiveLeaves ==
  ASSUME InboxOK, NEW name \in Subscribers, NEW msg, Receive(name, msg),
         NEW n, NEW m, InInbox(n, m), n # name \/ m # msg
  PROVE  InInbox(n, m)'
<1>1. CASE n # name
  BY <1>1 DEF InboxOK, Receive, InInbox
<1>2. CASE n = name
  <2>1. PICK k \in 1..Len(inbox[name]) : inbox[name][k] = m
    BY <1>2 DEF InInbox
  <2>2. inbox[name] \in Seq(Messages) /\ inbox'[name] = Tail(inbox[name]) /\ msg = inbox[name][1]
    BY DEF InboxOK, Receive
  <2>3. k - 1 \in 1..Len(inbox'[name]) /\ inbox'[name][k - 1] = m
    BY <1>2, <2>1, <2>2
  <2>. QED
    BY <1>2, <2>3 DEF InInbox
<1>. QED
  BY <1>1, <1>2

-----------------------------------------------------------------------------
(* Steps that take nobody's task away. *)

InboxesKept ==
  /\ \A a \in Coders, t \in Tasks :
       InInbox(a, Message("assign", t)) => InInbox(a, Message("assign", t))'
  /\ \A type \in {"result", "failed"}, t \in Tasks :
       InInbox("scheduler", Message(type, t)) => InInbox("scheduler", Message(type, t))'

\* The thread that moves is no nearer to a send than before.
LEMMA QuietOwner ==
  ASSUME TypeOK, OwnerOK, UNCHANGED <<status, ready, cur, busy>>, known' \subseteq known,
         lost \subseteq lost', InboxesKept,
         \A th \in Threads : /\ pc'[th] = "assign" => pc[th] = "assign"
                             /\ pc'[th] \notin {"inject", "dispatch", "run", "assign"}
                                  => pc[th] \notin {"inject", "dispatch", "run", "assign"},
         pc["loop"] \in Moving => pc'["loop"] \in Moving,
         pc["loop"] = "rerun" => pc'["loop"] = "rerun"
  PROVE  OwnerOK'
<1>1. DispatchedOK'
  BY DEF OwnerOK, DispatchedOK, Awaits, Least
<1>2. ListOK'
  BY DEF OwnerOK, ListOK
<1>3. \A t \in Tasks : HasOwner(t) => HasOwner(t)'
  BY DEF HasOwner, Moving, Handling, InboxesKept
<1>4. RunningHasOwner'
  BY <1>3 DEF OwnerOK, RunningHasOwner, TypeOK, TasksTypeOK
<1>. QED
  BY <1>1, <1>2, <1>4 DEF OwnerOK

LEMMA MaxOwner ==
  ASSUME TypeOK, OwnerOK, MaxMove
  PROVE  OwnerOK'
<1>. USE DEF TypeOK, Goto, Threads, history, flow, table, Moving, Handling
<1>1. CASE MaxHearsInput \/ MaxHearsAllDone \/ MaxHearsOther
  <2>. PICK msg : Receive("max", msg)
    BY <1>1 DEF MaxHearsInput, MaxHearsAllDone, MaxHearsOther
  <2>0. InboxOK /\ "max" \in Subscribers /\ "max" \notin Coders
    BY PlansAssumption DEF InboxOK, Coders
  <2>1. InboxesKept
    BY <2>0, ReceiveLeaves DEF InboxesKept
  <2>. QED
    BY <1>1, <2>1, QuietOwner DEF MaxHearsInput, MaxHearsAllDone, MaxHearsOther, Reset
<1>2. CASE UserApproves \/ UserRejects
  <2>1. InboxesKept
    BY <1>2, SendKeeps DEF UserApproves, UserRejects, InboxOK, InboxesKept
  <2>. QED
    BY <1>2, <2>1, QuietOwner DEF UserApproves, UserRejects
<1>3. CASE \E p \in Plans : SubmitPlan(p)
  BY <1>3, QuietOwner DEF SubmitPlan, InboxesKept, InInbox
<1>4. CASE MaxReports \/ MaxAnswers \/ Validate \/ ApprovalTimeout
  BY <1>4, QuietOwner DEF MaxReports, MaxAnswers, Validate, ApprovalTimeout, InboxesKept, InInbox
<1>5. ASSUME NEW t \in Tasks, CreateTask(t) \/ PlanTask(t) \/ ApproveTask(t)
      PROVE  OwnerOK'
  <2>1. /\ UNCHANGED <<inbox, ready, cur, busy, lost>>
        /\ pc["max"] \in {"create", "plan", "approve"} /\ pc'["loop"] = pc["loop"]
        /\ pc'["max"] \in {"create", "validate", "plan", "await", "approve", "list"}
    BY <1>5 DEF CreateTask, PlanTask, ApproveTask, NextOf
  <2>2. \A u \in known' : status'[u] \in {"dispatched", "running"}
                            => u \in known /\ status'[u] = status[u]
    BY <1>5 DEF CreateTask, PlanTask, ApproveTask, Create, Transition, TasksTypeOK
  <2>3. known' \subseteq Tasks /\ known \subseteq Tasks
    BY <1>5 DEF CreateTask, PlanTask, ApproveTask, Create, Transition, TasksTypeOK
  <2>4. ListOK'
    BY <2>1 DEF OwnerOK, ListOK
  <2>5. ready["max"] = {}
    BY <2>1 DEF OwnerOK, ListOK
  <2>6. DispatchedOK'
    BY <2>1, <2>2, <2>5 DEF OwnerOK, DispatchedOK, Awaits, Least
  <2>7. \A u \in Tasks : HasOwner(u) => HasOwner(u)'
    BY <2>1 DEF HasOwner, InInbox
  <2>8. RunningHasOwner'
    BY <2>1, <2>2, <2>3, <2>7 DEF OwnerOK, RunningHasOwner
  <2>. QED
    BY <2>4, <2>6, <2>8 DEF OwnerOK
<1>. QED
  BY <1>1, <1>2, <1>3, <1>4, <1>5 DEF MaxMove

-----------------------------------------------------------------------------
(* dispatchReady, whoever runs it. *)

LEMMA DispatchOwner ==
  ASSUME TypeOK, OwnerOK, NEW th \in Threads, DispatchReady(th)
  PROVE  OwnerOK'
<1>. USE DEF Goto, history, flow, table
<1>. pc \in [Threads -> MaxLabels \cup LoopLabels \cup DispatchLabels]
  BY DEF TypeOK
<1>. ready \in [Threads -> SUBSET Tasks] /\ known \subseteq Tasks /\ status \in [Tasks -> Status]
  BY DEF TypeOK, TasksTypeOK
<1>0. \A S \in SUBSET Tasks : \A t, u \in S : Least(t, S) /\ Least(u, S) => t = u
  BY TasksAssumption DEF Least
<1>1. CASE List(th)
  <2>1. ready[th] = {}
    BY <1>1 DEF List, OwnerOK, ListOK
  <2>2. /\ UNCHANGED <<known, status, inbox, cur, busy, lost>>
        /\ \A u \in Threads : ready[u] \subseteq ready'[u]
        /\ \A u \in Threads \ {th} : pc'[u] = pc[u] /\ ready'[u] = ready[u]
        /\ pc[th] = "list" /\ pc'[th] # "assign"
    BY <1>1, <2>1 DEF List, Home
  <2>3. ListOK'
    BY <1>1, <2>2 DEF List, OwnerOK, ListOK
  <2>4. DispatchedOK'
    BY <2>1, <2>2 DEF OwnerOK, DispatchedOK, Awaits, Threads
  <2>5. \A t \in Tasks : HasOwner(t) => HasOwner(t)'
    BY <2>2 DEF HasOwner, InInbox, Threads
  <2>6. RunningHasOwner'
    BY <2>2, <2>5 DEF OwnerOK, RunningHasOwner
  <2>. QED
    BY <2>3, <2>4, <2>6 DEF OwnerOK
<1>2. CASE Inject(th)
  <2>1. /\ UNCHANGED <<known, status, ready, inbox, cur, busy, lost>>
        /\ pc' = [pc EXCEPT ![th] = "dispatch"] /\ pc[th] = "inject"
    BY <1>2 DEF Inject, InjectArtifacts
  <2>. QED
    BY <2>1, QuietOwner DEF InboxesKept, InInbox, Moving, Handling, Threads
<1>3. CASE MarkDispatched(th)
  <2>. PICK t \in ready[th] : Transition(t, "dispatched")
    BY <1>3 DEF MarkDispatched
  <2>1. /\ UNCHANGED <<known, ready, inbox, cur, busy, lost>>
        /\ pc' = [pc EXCEPT ![th] = "run"] /\ pc[th] = "dispatch"
    BY <1>3 DEF MarkDispatched, Transition
  <2>2. \A u \in Tasks \ {t} : status'[u] = status[u]
    BY DEF Transition
  <2>3. ListOK'
    BY <2>1 DEF OwnerOK, ListOK
  <2>4. DispatchedOK'
    BY <2>1, <2>2 DEF OwnerOK, DispatchedOK, Awaits, Least, Threads
  <2>5. \A u \in Tasks : HasOwner(u) => HasOwner(u)'
    BY <2>1 DEF HasOwner, InInbox, Threads
  <2>6. HasOwner(t)'
    BY <2>1 DEF HasOwner
  <2>7. RunningHasOwner'
    BY <2>1, <2>2, <2>5, <2>6 DEF OwnerOK, RunningHasOwner
  <2>. QED
    BY <2>3, <2>4, <2>7 DEF OwnerOK
<1>4. CASE MarkRunning(th)
  <2>. PICK t \in ready[th] : Least(t, ready[th]) /\ Transition(t, "running")
    BY <1>4 DEF MarkRunning
  <2>1. /\ UNCHANGED <<known, ready, inbox, cur, busy, lost>>
        /\ pc' = [pc EXCEPT ![th] = "assign"] /\ pc[th] = "run"
    BY <1>4 DEF MarkRunning, Transition
  <2>2. \A u \in Tasks \ {t} : status'[u] = status[u]
    BY DEF Transition
  <2>3. t \in known => status'[t] # "dispatched"
    BY DEF Transition, CanTransitionTo, validTransitions
  <2>4. ListOK'
    BY <2>1 DEF OwnerOK, ListOK
  <2>5. \A u \in ready[th] : Least(u, ready[th]) => u = t
    BY <1>0
  <2>6. DispatchedOK'
    BY <2>1, <2>2, <2>3, <2>5 DEF OwnerOK, DispatchedOK, Awaits, Least, Threads
  <2>7. \A u \in Tasks : HasOwner(u) => HasOwner(u)'
    BY <2>1 DEF HasOwner, InInbox, Threads
  <2>8. HasOwner(t)'
    BY <2>1 DEF HasOwner
  <2>9. RunningHasOwner'
    BY <2>1, <2>2, <2>7, <2>8 DEF OwnerOK, RunningHasOwner
  <2>. QED
    BY <2>4, <2>6, <2>9 DEF OwnerOK
<1>5. CASE Assign(th)
  <2>. PICK t \in ready[th] :
         /\ Least(t, ready[th])
         /\ SendAssign(t, th)
         /\ ready' = [ready EXCEPT ![th] = @ \ {t}]
         /\ Goto(th, IF ready[th] = {t} THEN Home(th) ELSE "inject")
    BY <1>5 DEF Assign
  <2>1. UNCHANGED <<known, status, cur, busy>> /\ pc[th] = "assign"
    BY <1>5 DEF Assign
  <2>2. pc'[th] # "assign" /\ \A u \in Threads \ {th} : pc'[u] = pc[u] /\ ready'[u] = ready[u]
    BY DEF Home
  <2>3. ready'[th] = ready[th] \ {t} /\ (pc'[th] \in {"idle", "recv"} => ready'[th] = {})
    BY DEF Home
  <2>4. ListOK'
    BY <2>2, <2>3 DEF OwnerOK, ListOK, Home
  <2>5. DispatchedOK'
    BY <2>1, <2>2, <2>3 DEF OwnerOK, DispatchedOK, Awaits, Threads
  <2>6. InboxOK /\ lost \subseteq lost'
    BY DEF TypeOK, InboxOK, SendAssign
  <2>7. InboxesKept
    BY <2>6, SendKeeps DEF InboxesKept, SendAssign
  <2>8. HasOwner(t)' \/ t \in lost'
    <3>1. CASE AgentName[t] \in Coders /\ Accepts(AgentName[t])
      <4>1. InInbox(AgentName[t], Message("assign", t))'
        BY <2>6, <3>1, SendDelivers DEF SendAssign
      <4>. QED
        BY <3>1, <4>1 DEF HasOwner
    <3>2. CASE ~(AgentName[t] \in Coders /\ Accepts(AgentName[t]))
      BY <3>2 DEF SendAssign
    <3>. QED
      BY <3>1, <3>2
  <2>9. \A u \in Tasks \ {t} : HasOwner(u) => HasOwner(u)'
    BY <2>1, <2>2, <2>3, <2>7 DEF HasOwner, InboxesKept, Threads
  <2>10. RunningHasOwner'
    BY <2>1, <2>6, <2>8, <2>9 DEF OwnerOK, RunningHasOwner
  <2>. QED
    BY <2>4, <2>5, <2>10 DEF OwnerOK
<1>. QED
  BY <1>1, <1>2, <1>3, <1>4, <1>5 DEF DispatchReady

-----------------------------------------------------------------------------
(* The loop and the agents. *)

\* A transition of the task at hand; next is a label of the loop.
LEMMA MarkOwner ==
  ASSUME TypeOK, LoopOK, OwnerOK, MarkDone \/ MarkRetry \/ MarkFailed
  PROVE  OwnerOK'
<1>. USE DEF Goto, history, MarkDone, MarkRetry, MarkFailed, Mark
<1>. pc \in [Threads -> MaxLabels \cup LoopLabels \cup DispatchLabels]
  BY DEF TypeOK
<1>. known \subseteq Tasks /\ status \in [Tasks -> Status]
  BY DEF TypeOK, TasksTypeOK
<1>1. UNCHANGED <<known, ready, inbox, cur, busy, lost>>
  BY DEF Transition
<1>2. \A u \in Tasks : u # cur => status'[u] = status[u]
  BY DEF Transition
<1>3. pc'["loop"] \notin {"inject", "dispatch", "run", "assign"} /\ pc'["max"] = pc["max"]
  BY DEF Threads
<1>4. pc["loop"] \notin {"inject", "dispatch", "run", "assign"}
  OBVIOUS
<1>5. ListOK'
  BY <1>1, <1>3, <1>4 DEF OwnerOK, ListOK, Threads
<1>6. \A th \in Threads, u \in Tasks : Awaits(th, u) => Awaits(th, u)'
  BY <1>1, <1>3, <1>4 DEF Awaits, Threads, Least
<1>7. cur \in known => status'[cur] \in {status[cur], "done", "failed"} \/ pc'["loop"] \in {"rerun", "resend"}
  BY DEF Transition, Threads
<1>8. DispatchedOK'
  <2>. SUFFICES ASSUME NEW t \in known', status'[t] = "dispatched"
                PROVE  \/ cur' = t /\ pc'["loop"] = "rerun"
                       \/ \E th \in Threads : Awaits(th, t)'
    BY DEF DispatchedOK, Awaits
  <2>1. CASE t # cur
    BY <1>1, <1>2, <1>6, <2>1 DEF OwnerOK, DispatchedOK
  <2>2. CASE t = cur /\ pc'["loop"] = "rerun"
    BY <1>1, <2>2
  <2>3. CASE t = cur /\ pc'["loop"] # "rerun"
    <3>1. status[cur] = "dispatched" /\ pc["loop"] # "rerun"
      BY <1>1, <2>3 DEF Transition, CanTransitionTo, validTransitions, Threads
    <3>. QED
      BY <1>1, <1>6, <2>3, <3>1 DEF OwnerOK, DispatchedOK
  <2>. QED
    BY <2>1, <2>2, <2>3
<1>9. \A u \in Tasks : u # cur => (HasOwner(u) => HasOwner(u)')
  BY <1>1 DEF HasOwner, InInbox, Threads
<1>10. cur \in known /\ status'[cur] = "running" => pc'["loop"] \in Moving
  BY DEF Transition, CanTransitionTo, validTransitions, Threads, Moving, Handling
<1>11. pc'["loop"] \in Moving => \A u \in Tasks : u = cur => HasOwner(u)'
  BY <1>1 DEF HasOwner, Moving, Handling
<1>12. \A u \in known' : status'[u] = "dispatched" => HasOwner(u)'
  BY <1>1, <1>8 DEF DispatchedOK, HasOwner, Awaits
<1>13. RunningHasOwner'
  BY <1>1, <1>2, <1>9, <1>10, <1>11, <1>12 DEF OwnerOK, RunningHasOwner
<1>. QED
  BY <1>5, <1>8, <1>13 DEF OwnerOK

LEMMA LoopOwner ==
  ASSUME TypeOK, LoopOK, OwnerOK, LoopStep
  PROVE  OwnerOK'
<1>. USE DEF Goto, history, table
<1>. pc \in [Threads -> MaxLabels \cup LoopLabels \cup DispatchLabels]
  BY DEF TypeOK
<1>. known \subseteq Tasks /\ status \in [Tasks -> Status]
  BY DEF TypeOK, TasksTypeOK
<1>0. InboxOK
  BY DEF TypeOK, InboxOK
<1>1. CASE LoopHears
  <2>. PICK t \in Tasks \cup {NoTask}, type \in MessageTypes,
            label \in {"recv", "result", "get"} :
         /\ LoopReceive(t, type, label)
         /\ type \in {"result", "failed"} => label # "recv"
    BY <1>1 DEF LoopHears, MessageTypes
  <2>1. /\ UNCHANGED <<known, status, ready, busy, lost>>
        /\ pc["loop"] = "recv" /\ pc'["loop"] = label /\ pc'["max"] = pc["max"] /\ cur' = t
        /\ Receive("scheduler", Message(type, t))
    BY DEF LoopReceive, Threads
  <2>2. ListOK'
    BY <2>1 DEF OwnerOK, ListOK, Threads
  <2>3. DispatchedOK'
    BY <2>1 DEF OwnerOK, DispatchedOK, Awaits, Least, Threads
  <2>4. "scheduler" \in Subscribers /\ "scheduler" \notin Coders
    BY PlansAssumption DEF Coders
  <2>5. \A a \in Coders, u \in Tasks :
          InInbox(a, Message("assign", u)) => InInbox(a, Message("assign", u))'
    BY <1>0, <2>1, <2>4, ReceiveLeaves
  <2>6. ASSUME NEW u \in Tasks, NEW k \in {"result", "failed"},
               InInbox("scheduler", Message(k, u))
        PROVE  HasOwner(u)'
    <3>1. CASE Message(k, u) = Message(type, t)
      <4>1. k = type /\ u = t
        BY <3>1 DEF Message
      <4>. QED
        BY <2>1, <4>1 DEF HasOwner
    <3>2. CASE Message(k, u) # Message(type, t)
      <4>1. Receive("scheduler", Message(type, t)) /\ "scheduler" \in Subscribers
        BY <2>1, <2>4
      <4>. DEFINE m == Message(k, u)
                  heard == Message(type, t)
      <4>2. InInbox("scheduler", m) /\ m # heard /\ Receive("scheduler", heard)
        BY <2>6, <3>2, <4>1
      <4>. HIDE DEF m, heard
      <4>3. InInbox("scheduler", m)'
        BY <1>0, <4>1, <4>2, ReceiveLeaves
      <4>. QED
        BY <4>3 DEF HasOwner, m
    <3>. QED
      BY <3>1, <3>2
  <2>7. \A u \in Tasks : HasOwner(u) => HasOwner(u)'
    BY <2>1, <2>5, <2>6 DEF HasOwner
  <2>8. RunningHasOwner'
    BY <2>1, <2>7 DEF OwnerOK, RunningHasOwner
  <2>. QED
    BY <2>2, <2>3, <2>8 DEF OwnerOK
<1>2. CASE StoreResult \/ StoreError \/ CountRetry \/ CheckAllDone
  BY <1>2, QuietOwner DEF StoreResult, StoreError, CountRetry, CheckAllDone, SetResult,
                          InboxesKept, InInbox, Moving, Handling, Threads
<1>3. CASE TellAllDone \/ Escalate
  <2>1. InboxesKept
    BY <1>0, <1>3, SendKeeps DEF TellAllDone, Escalate, TellMax, InboxesKept
  <2>. QED
    BY <1>3, <2>1, QuietOwner DEF TellAllDone, Escalate, TellMax, Moving, Handling, Threads
<1>4. CASE GetTask
  <2>1. CASE cur \in known
    BY <1>4, <2>1, QuietOwner DEF GetTask, InboxesKept, InInbox, Moving, Handling, Threads
  <2>2. CASE cur \notin known
    <3>1. /\ UNCHANGED <<known, status, ready, inbox, cur, busy, lost>>
          /\ pc' = [pc EXCEPT !["loop"] = "recv"] /\ pc["loop"] = "get"
      BY <1>4, <2>2 DEF GetTask
    <3>2. ListOK'
      BY <3>1 DEF OwnerOK, ListOK, Threads
    <3>3. DispatchedOK'
      BY <3>1 DEF OwnerOK, DispatchedOK, Awaits, Least, Threads
    <3>4. \A u \in known : HasOwner(u) => HasOwner(u)'
      BY <2>2, <3>1 DEF HasOwner, InInbox
    <3>5. RunningHasOwner'
      BY <3>1, <3>4 DEF OwnerOK, RunningHasOwner
    <3>. QED
      BY <3>2, <3>3, <3>5 DEF OwnerOK
  <2>. QED
    BY <2>1, <2>2
<1>5. CASE MarkDone \/ MarkRetry \/ MarkFailed
  BY <1>5, MarkOwner
<1>6. CASE Resend
  <2>1. /\ UNCHANGED <<known, status, ready, cur, busy>> /\ SendAssign(cur, "retry")
        /\ pc' = [pc EXCEPT !["loop"] = "recv"] /\ pc["loop"] = "resend"
    BY <1>6 DEF Resend
  <2>2. ListOK'
    BY <2>1 DEF OwnerOK, ListOK, Threads
  <2>3. DispatchedOK'
    BY <2>1 DEF OwnerOK, DispatchedOK, Awaits, Least, Threads
  <2>4. lost \subseteq lost' /\ InboxesKept
    BY <1>0, <2>1, SendKeeps DEF SendAssign, InboxesKept
  <2>5. HasOwner(cur)' \/ cur \in lost'
    <3>1. CASE AgentName[cur] \in Coders /\ Accepts(AgentName[cur])
      <4>1. InInbox(AgentName[cur], Message("assign", cur))'
        BY <1>0, <2>1, <3>1, SendDelivers DEF SendAssign
      <4>. QED
        BY <2>1, <3>1, <4>1 DEF HasOwner
    <3>2. CASE ~(AgentName[cur] \in Coders /\ Accepts(AgentName[cur]))
      BY <2>1, <3>2 DEF SendAssign
    <3>. QED
      BY <3>1, <3>2
  <2>6. \A u \in Tasks : u # cur => (HasOwner(u) => HasOwner(u)')
    BY <2>1, <2>4 DEF HasOwner, InboxesKept
  <2>7. RunningHasOwner'
    BY <2>1, <2>4, <2>5, <2>6 DEF OwnerOK, RunningHasOwner
  <2>. QED
    BY <2>2, <2>3, <2>7 DEF OwnerOK
<1>7. CASE DispatchReady("loop")
  BY <1>7, DispatchOwner DEF Threads
<1>. QED
  BY <1>1, <1>2, <1>3, <1>4, <1>5, <1>6, <1>7 DEF LoopStep

LEMMA AgentOwner ==
  ASSUME TypeOK, OwnerOK, NEW a \in Coders, AgentStep(a)
  PROVE  OwnerOK'
<1>. USE DEF history, table
<1>. known \subseteq Tasks /\ a \in Subscribers /\ a # "scheduler" /\ NoTask \notin Tasks
  BY TasksAssumption DEF TypeOK, TasksTypeOK, Coders
<1>0. InboxOK
  BY DEF TypeOK, InboxOK
<1>1. UNCHANGED <<known, status, pc, ready, cur>>
  BY DEF AgentStep, AgentReceive, AgentFinish
<1>2. ListOK' /\ DispatchedOK'
  BY <1>1 DEF OwnerOK, ListOK, DispatchedOK, Awaits, Least
<1>3. lost \subseteq lost'
  BY DEF AgentStep, AgentReceive, AgentFinish
<1>4. CASE AgentReceive(a)
  <2>. PICK t \in Tasks :
         Receive(a, Message("assign", t)) /\ busy' = [busy EXCEPT ![a] = t]
    BY <1>4 DEF AgentReceive
  <2>1. busy[a] = NoTask /\ busy'[a] = t /\ \A b \in Coders \ {a} : busy'[b] = busy[b]
    BY <1>4 DEF AgentReceive, TypeOK
  <2>2. \A b \in Coders, u \in Tasks :
          InInbox(b, Message("assign", u)) => InInbox(b, Message("assign", u))' \/ busy'[a] = u
    <3>. SUFFICES ASSUME NEW b \in Coders, NEW u \in Tasks, InInbox(b, Message("assign", u)), u # t
                  PROVE  InInbox(b, Message("assign", u))'
      BY <2>1
    <3>1. Message("assign", u) # Message("assign", t)
      BY DEF Message
    <3>. QED
      BY <1>0, <3>1, ReceiveLeaves
  <2>3. \A k \in {"result", "failed"}, u \in Tasks :
          InInbox("scheduler", Message(k, u)) => InInbox("scheduler", Message(k, u))'
    BY <1>0, ReceiveLeaves
  <2>4. \A u \in Tasks : HasOwner(u) => HasOwner(u)'
    BY <1>1, <2>1, <2>2, <2>3 DEF HasOwner
  <2>5. RunningHasOwner'
    BY <1>1, <1>3, <2>4 DEF OwnerOK, RunningHasOwner
  <2>. QED
    BY <1>2, <2>5 DEF OwnerOK
<1>5. ASSUME NEW type \in {"result", "failed"}, AgentFinish(a, type)
      PROVE  OwnerOK'
  <2>1. /\ Send("scheduler", Message(type, busy[a]))
        /\ lost' = IF Accepts("scheduler") THEN lost ELSE lost \cup {busy[a]}
        /\ \A b \in Coders \ {a} : busy'[b] = busy[b]
    BY <1>5 DEF AgentFinish, TypeOK
  <2>2. InboxesKept
    BY <1>0, <2>1, SendKeeps DEF InboxesKept
  <2>3. \A u \in Tasks : u = busy[a] => HasOwner(u)' \/ u \in lost'
    BY <1>0, <2>1, SendDelivers DEF HasOwner
  <2>4. \A u \in Tasks : u # busy[a] => (HasOwner(u) => HasOwner(u)')
    BY <1>1, <2>1, <2>2 DEF HasOwner, InboxesKept
  <2>5. RunningHasOwner'
    BY <1>1, <1>3, <2>3, <2>4 DEF OwnerOK, RunningHasOwner
  <2>. QED
    BY <1>2, <2>5 DEF OwnerOK
<1>. QED
  BY <1>4, <1>5 DEF AgentStep

-----------------------------------------------------------------------------

LEMMA InitOwner == Init => OwnerOK
  BY DEF Init, TasksInit, OwnerOK, DispatchedOK, ListOK, RunningHasOwner, Threads

LEMMA NextOwner == TypeOK /\ LoopOK /\ OwnerOK /\ [Next]_vars => OwnerOK'
<1>. SUFFICES ASSUME TypeOK, LoopOK, OwnerOK, [Next]_vars PROVE OwnerOK'
  OBVIOUS
<1>1. CASE UserTypes
  <2>1. InboxesKept
    BY <1>1, SendKeeps DEF UserTypes, TypeOK, InboxOK, InboxesKept
  <2>. QED
    BY <1>1, <2>1, QuietOwner DEF UserTypes, table, flow
<1>2. CASE UNCHANGED vars
  BY <1>2, QuietOwner DEF vars, table, flow, history, InboxesKept, InInbox
<1>3. CASE DispatchReady("max")
  BY <1>3, DispatchOwner DEF Threads
<1>. QED
  BY <1>1, <1>2, <1>3, MaxOwner, LoopOwner, AgentOwner DEF Next, MaxStep, MaxMove

\* Every task of the table that is dispatched or running is in somebody's hands,
\* unless a bus send dropped it: the errors of Transition that dispatchReady and
\* handleTaskFailed ignore strand no task.
THEOREM TasksHaveOwners == Spec => []RunningHasOwner
<1>1. OwnerOK => RunningHasOwner
  BY DEF OwnerOK
<1>. QED
  BY <1>1, InitType, NextType, InitOwner, NextOwner, PTL DEF Spec

-----------------------------------------------------------------------------
(* Part 2.  Scheduler implements PlanLifecycle; the bound on tries and that *)
(* no failure is silent come with it.  The inductive invariant:             *)

Listable == Started \cup {"approved"}

DepsDone(t) == \A d \in DependsOn[t] : d \in Tasks /\ status[d] = "done"

\* ReadyToDispatch will not list t again.
Spent(t) == status[t] \in Started \/ (status[t] = "approved" /\ t \notin known)

\* A thread assigns only what it has not assigned yet, and what the order of
\* the plan allows whatever has become of the table.
ListedOK ==
  \A th \in Threads : \A t \in ready[th] :
    assigns[t][th] = 0 /\ status[t] \in Listable /\ DepsDone(t)

AssignedOK ==
  \A t \in Tasks : Assigned(t) =>
    /\ \E th \in Threads : assigns[t][th] > 0
    /\ \A th \in Threads : assigns[t][th] <= 1
    /\ DepsDone(t)
    /\ Spent(t)

EndedOK == \A t \in Tasks : status[t] \in {"done", "failed"} => Assigned(t)

\* Between the mark and the send nobody can list the task once more.
MarkedOK ==
  \A th \in Threads : pc[th] \in {"run", "assign"} =>
    \A t \in ready[th] : Least(t, ready[th]) => Spent(t)

Counting == {"refail", "redispatch", "rerun", "resend"}

\* A retry is counted before it is sent, and Max is told when none is left.
RetryOK ==
  /\ \A t \in Tasks :
       retries[t] = assigns[t]["retry"] + (IF t = cur /\ pc["loop"] \in Counting THEN 1 ELSE 0)
  /\ pc["loop"] \in {"exhausted", "escalate"} => retries[cur] = MaxRetries

\* The user is asked about sound plans only.
AskedOK ==
  /\ pc["max"] \in {"create", "validate", "plan", "await"} => plan \in Plans
  /\ pc["max"] \in {"plan", "await"} => ValidPlan(plan, DependsOn)

TableOK == ListedOK /\ AssignedOK /\ EndedOK /\ MarkedOK

LifecycleOK == TableOK /\ RetryOK /\ AskedOK

-----------------------------------------------------------------------------
(* How single critical sections treat the table. *)

\* A step that moves no task may still empty the table.
LEMMA KeptTable ==
  ASSUME ListedOK, AssignedOK, EndedOK, UNCHANGED <<status, ready, assigns>>, known' \subseteq known
  PROVE  ListedOK' /\ AssignedOK' /\ EndedOK' /\ \A t : Spent(t) => Spent(t)'
  BY DEF ListedOK, AssignedOK, EndedOK, DepsDone, Spent, Assigned

LEMMA KeptMarked ==
  ASSUME TypeOK, MarkedOK, UNCHANGED ready, \A t \in Tasks : Spent(t) => Spent(t)',
         \A th \in Threads : pc'[th] \in {"run", "assign"} => pc[th] \in {"run", "assign"}
  PROVE  MarkedOK'
  BY DEF MarkedOK, Least, TypeOK

\* Transition takes no task back before its approval and none out of done.
LEMMA TransitionTable ==
  ASSUME TypeOK, ListedOK, AssignedOK, EndedOK, NEW t, NEW to, Transition(t, to),
         UNCHANGED <<ready, assigns>>, to \in {"done", "failed"} /\ t \in Tasks => Assigned(t)
  PROVE  ListedOK' /\ AssignedOK' /\ EndedOK' /\ \A u \in Tasks : Spent(u) => Spent(u)'
<1>1. known' = known /\ known \subseteq Tasks
  BY DEF Transition, TypeOK, TasksTypeOK
<1>2. \A u \in Tasks : status'[u] = status[u] \/ (u = t /\ u \in known /\ status'[u] = to
                                          /\ to \in validTransitions[status[u]])
  BY DEF Transition, CanTransitionTo, TypeOK, TasksTypeOK
<1>3. \A u \in Tasks : status[u] \in Status
  BY DEF TypeOK, TasksTypeOK
<1>4. \A u \in Tasks : /\ status[u] \in Started => status'[u] \in Started
                       /\ status[u] = "done" => status'[u] = "done"
                       /\ status[u] = "approved" /\ u \notin known => status'[u] = "approved"
                       /\ status[u] \in Listable => status'[u] \in Listable
  BY <1>1, <1>2, <1>3 DEF Status, Started, Listable, validTransitions
<1>5. \A u \in Tasks : Spent(u) => Spent(u)'
  BY <1>1, <1>4 DEF Spent
<1>6. \A u \in Tasks : DepsDone(u) => DepsDone(u)'
  BY <1>4 DEF DepsDone
<1>7. ListedOK'
  BY <1>4, <1>6 DEF ListedOK, TypeOK
<1>8. AssignedOK'
  BY <1>5, <1>6 DEF AssignedOK, Assigned
<1>9. EndedOK'
  BY <1>2 DEF EndedOK, Assigned
<1>. QED
  BY <1>5, <1>7, <1>8, <1>9

-----------------------------------------------------------------------------
(* dispatchReady, whoever runs it. *)

LEMMA DispatchTable ==
  ASSUME TypeOK, TableOK, NEW th \in Threads, DispatchReady(th)
  PROVE  TableOK'
<1>. USE DEF TableOK, history, table, Goto
<1>. pc \in [Threads -> MaxLabels \cup LoopLabels \cup DispatchLabels]
  BY DEF TypeOK
<1>1. CASE List(th)
  <2>1. \A t \in ready'[th] : /\ t \in Tasks /\ ~Spent(t)
                              /\ status[t] \in Listable /\ DepsDone(t)
    BY <1>1 DEF List, ReadyToDispatch, Spent, Started, Listable, DepsDone, DependencyDone, TypeOK,
                TasksTypeOK
  <2>2. \A t \in ready'[th] : assigns[t][th] = 0
    BY <2>1 DEF AssignedOK, Assigned, TypeOK, Sources, Threads
  <2>3. /\ UNCHANGED <<known, status, assigns>>
        /\ \A u \in Threads \ {th} : ready'[u] = ready[u]
    BY <1>1 DEF List, TypeOK
  <2>4. ListedOK'
    <3>. SUFFICES ASSUME NEW u \in Threads, NEW t \in ready'[u]
                  PROVE  (assigns[t][u] = 0 /\ status[t] \in Listable /\ DepsDone(t))'
      BY DEF ListedOK
    <3>1. CASE u = th
      BY <2>1, <2>2, <2>3, <3>1 DEF DepsDone
    <3>2. CASE u # th
      BY <2>3, <3>2 DEF ListedOK, DepsDone
    <3>. QED
      BY <3>1, <3>2
  <2>5. AssignedOK' /\ EndedOK'
    BY <2>3 DEF AssignedOK, EndedOK, DepsDone, Spent, Assigned
  <2>6. pc'[th] \notin {"run", "assign"} /\ \A u \in Threads \ {th} : pc'[u] = pc[u]
    BY <1>1 DEF List, Home, TypeOK
  <2>7. MarkedOK'
    BY <2>3, <2>6 DEF MarkedOK, Spent, Least
  <2>. QED
    BY <2>4, <2>5, <2>7
<1>2. CASE Inject(th)
  <2>1. UNCHANGED <<known, status, ready, assigns>> /\ pc'[th] = "dispatch"
    BY <1>2 DEF Inject, InjectArtifacts
  <2>2. \A u \in Threads \ {th} : pc'[u] = pc[u]
    BY <1>2 DEF Inject
  <2>. QED
    BY <2>1, <2>2, KeptTable, KeptMarked
<1>3. CASE MarkDispatched(th)
  <2>. PICK t \in ready[th] : Least(t, ready[th]) /\ Transition(t, "dispatched")
    BY <1>3 DEF MarkDispatched
  <2>. t \in Tasks
    BY DEF TypeOK
  <2>1. UNCHANGED <<ready, assigns>> /\ pc' = [pc EXCEPT ![th] = "run"]
    BY <1>3 DEF MarkDispatched
  <2>2. ListedOK' /\ AssignedOK' /\ EndedOK' /\ \A u \in Tasks : Spent(u) => Spent(u)'
    BY <2>1, TransitionTable
  <2>3. Spent(t)'
    BY DEF ListedOK, Listable, Started, Spent, Transition, CanTransitionTo, validTransitions, TypeOK,
           TasksTypeOK
  <2>4. \A u \in ready[th] : Least(u, ready[th]) => u = t
    BY TasksAssumption DEF Least, TypeOK
  <2>5. MarkedOK'
    BY <2>1, <2>2, <2>3, <2>4 DEF MarkedOK, Least, TypeOK
  <2>. QED
    BY <2>2, <2>5
<1>4. CASE MarkRunning(th)
  <2>. PICK t \in ready[th] : Transition(t, "running")
    BY <1>4 DEF MarkRunning
  <2>1. UNCHANGED <<ready, assigns>> /\ pc[th] = "run" /\ pc' = [pc EXCEPT ![th] = "assign"]
    BY <1>4 DEF MarkRunning
  <2>2. ListedOK' /\ AssignedOK' /\ EndedOK' /\ \A u \in Tasks : Spent(u) => Spent(u)'
    BY <2>1, TransitionTable
  <2>. QED
    BY <2>1, <2>2, KeptMarked
<1>5. CASE Assign(th)
  <2>. PICK t \in ready[th] :
         /\ Least(t, ready[th])
         /\ SendAssign(t, th)
         /\ ready' = [ready EXCEPT ![th] = @ \ {t}]
         /\ Goto(th, IF ready[th] = {t} THEN Home(th) ELSE "inject")
    BY <1>5 DEF Assign
  <2>. t \in Tasks
    BY DEF TypeOK
  <2>1. UNCHANGED <<known, status>> /\ pc[th] = "assign"
    BY <1>5 DEF Assign
  <2>2. assigns' = [assigns EXCEPT ![t][th] = @ + 1] /\ assigns[t][th] = 0
    BY DEF SendAssign, ListedOK
  <2>3. /\ assigns'[t] = [assigns[t] EXCEPT ![th] = 1]
        /\ \A u \in Tasks \ {t} : assigns'[u] = assigns[u]
    BY <2>2 DEF TypeOK, Sources, Threads
  <2>4. Spent(t) /\ DepsDone(t)
    BY <2>1 DEF MarkedOK, ListedOK
  <2>5. \A u \in Tasks : Spent(u) => Spent(u)'
    BY <2>1 DEF Spent
  <2>6. \A u \in Tasks : DepsDone(u) => DepsDone(u)'
    BY <2>1 DEF DepsDone
  <2>7. ListedOK'
    BY <2>1, <2>3, <2>6 DEF ListedOK, TypeOK, Sources, Threads
  <2>8. \A u \in Tasks \ {t} : Assigned(u)' => Assigned(u)
    BY <2>3 DEF Assigned
  <2>9. Assigned(t)' /\ \A s \in Threads : assigns'[t][s] <= 1
    <3>1. \A s \in Threads : assigns[t][s] <= 1
      BY DEF AssignedOK, Assigned, TypeOK, Sources, Threads
    <3>. QED
      BY <2>3, <3>1 DEF Assigned, TypeOK, Sources, Threads
  <2>10. assigns'[t][th] > 0
    BY <2>3 DEF TypeOK, Sources, Threads
  <2>11. AssignedOK'
    BY <2>3, <2>4, <2>5, <2>6, <2>8, <2>9, <2>10 DEF AssignedOK
  <2>12. EndedOK'
    BY <2>1, <2>3, <2>9 DEF EndedOK, Assigned
  <2>13. MarkedOK'
    <3>1. pc'[th] \notin {"run", "assign"} /\ \A u \in Threads \ {th} : pc'[u] = pc[u] /\ ready'[u] = ready[u]
      BY DEF Home, TypeOK
    <3>. QED
      BY <2>5, <3>1 DEF MarkedOK, Least, TypeOK
  <2>. QED
    BY <2>7, <2>11, <2>12, <2>13
<1>. QED
  BY <1>1, <1>2, <1>3, <1>4, <1>5 DEF DispatchReady

-----------------------------------------------------------------------------
(* Everybody else. *)

LEMMA KeptAll ==
  ASSUME TypeOK, TableOK, UNCHANGED <<status, ready, assigns>>, known' \subseteq known,
         \A th \in Threads : pc'[th] \in {"run", "assign"} => pc[th] \in {"run", "assign"}
  PROVE  TableOK'
  BY KeptTable, KeptMarked DEF TableOK

LEMMA TransitionAll ==
  ASSUME TypeOK, TableOK, NEW t, NEW to, Transition(t, to), UNCHANGED <<ready, assigns>>,
         to \in {"done", "failed"} /\ t \in Tasks => Assigned(t),
         \A th \in Threads : pc'[th] \in {"run", "assign"} => pc[th] \in {"run", "assign"}
  PROVE  TableOK'
  BY TransitionTable, KeptMarked DEF TableOK

LEMMA MaxTable ==
  ASSUME SafetyOK, FreshOK, TableOK, MaxMove
  PROVE  TableOK'
<1>. USE DEF SafetyOK, TypeOK, Goto, Threads, history, flow, table
<1>1. CASE \E t \in Tasks : CreateTask(t)
  <2>. PICK t \in Tasks : CreateTask(t)
    BY <1>1
  <2>1. t \in plan /\ ~Going(t)
    BY GoingApproved DEF CreateTask, NextOf, Least, FreshOK
  <2>2. /\ UNCHANGED <<ready, assigns>> /\ known' = known \cup {t} /\ status'[t] = "created"
        /\ \A u \in Tasks \ {t} : status'[u] = status[u]
        /\ \A th \in Threads : pc'[th] \in {"run", "assign"} => pc[th] \in {"run", "assign"}
    BY DEF CreateTask, NextOf, Create, TasksTypeOK
  <2>3. \A u \in Tasks : /\ DepsDone(u) => DepsDone(u)'
                         /\ Assigned(u)' => u # t /\ Assigned(u)
                         /\ Spent(u) /\ u # t => Spent(u)'
    BY <2>1, <2>2 DEF DepsDone, Going, Started, Assigned, Spent
  <2>4. \A th \in Threads : t \notin ready[th]
    BY <2>1 DEF Going
  <2>5. ListedOK'
    BY <2>2, <2>3, <2>4 DEF TableOK, ListedOK
  <2>6. AssignedOK'
    BY <2>2, <2>3 DEF TableOK, AssignedOK
  <2>7. EndedOK'
    BY <2>2 DEF TableOK, EndedOK, Assigned
  <2>8. MarkedOK'
    BY <2>2, <2>3, <2>4 DEF TableOK, MarkedOK, Least
  <2>. QED
    BY <2>5, <2>6, <2>7, <2>8 DEF TableOK
<1>2. CASE \E t \in Tasks : PlanTask(t) \/ ApproveTask(t)
  <2>. PICK t \in Tasks, to \in {"planned", "approved"} : Transition(t, to)
    BY <1>2 DEF PlanTask, ApproveTask
  <2>. /\ UNCHANGED <<ready, assigns>>
       /\ \A th \in Threads : pc'[th] \in {"run", "assign"} => pc[th] \in {"run", "assign"}
    BY <1>2 DEF PlanTask, ApproveTask, NextOf
  <2>. QED
    BY TransitionAll
<1>3. CASE \E p \in Plans : SubmitPlan(p)
  BY <1>3, KeptAll DEF SubmitPlan
<1>4. CASE MaxHearsInput \/ MaxHearsAllDone \/ MaxHearsOther \/ MaxReports
  BY <1>4, KeptAll DEF MaxHearsInput, Reset, MaxHearsAllDone, MaxHearsOther, MaxReports, TasksTypeOK
<1>5. CASE MaxAnswers \/ Validate \/ UserApproves \/ UserRejects \/ ApprovalTimeout
  BY <1>5, KeptAll DEF MaxAnswers, Validate, UserApproves, UserRejects, ApprovalTimeout
<1>. QED
  BY <1>1, <1>2, <1>3, <1>4, <1>5 DEF MaxMove

LEMMA LoopTable ==
  ASSUME SafetyOK, TableOK, LoopStep
  PROVE  TableOK'
<1>. USE DEF SafetyOK, TypeOK, Goto, Threads, history, table
<1>1. pc["loop"] \in Handling => cur \in Tasks /\ Assigned(cur)
  BY DEF FlightOK, InFlight, LoopOK
<1>2. CASE MarkDone \/ MarkRetry \/ MarkFailed
  <2>. PICK to : Transition(cur, to)
    BY <1>2 DEF MarkDone, MarkRetry, MarkFailed, Mark
  <2>. /\ UNCHANGED <<ready, assigns>> /\ pc["loop"] \in Handling
       /\ \A th \in Threads : pc'[th] \in {"run", "assign"} => pc[th] \in {"run", "assign"}
    BY <1>2 DEF MarkDone, MarkRetry, MarkFailed, Mark, Handling
  <2>. QED
    BY <1>1, TransitionAll
<1>3. CASE LoopHears \/ StoreResult \/ StoreError \/ TellAllDone \/ GetTask
  BY <1>3, KeptAll
  DEF LoopHears, LoopReceive, StoreResult, StoreError, SetResult, TellAllDone, GetTask
<1>4. CASE CheckAllDone \/ CountRetry \/ Escalate
  BY <1>4, KeptAll DEF CheckAllDone, CountRetry, Escalate
<1>5. CASE Resend
  <2>. cur \in Tasks /\ Assigned(cur)
    BY <1>1, <1>5 DEF Resend, Handling
  <2>1. /\ UNCHANGED <<known, status, ready, cur>>
        /\ assigns' = [assigns EXCEPT ![cur]["retry"] = @ + 1]
        /\ \A th \in Threads : pc'[th] \in {"run", "assign"} => pc[th] \in {"run", "assign"}
    BY <1>5 DEF Resend, SendAssign
  <2>2. \A u \in Tasks : /\ Assigned(u)' => Assigned(u)
                         /\ \A th \in Threads : assigns'[u][th] = assigns[u][th]
    BY <2>1 DEF Assigned, Sources
  <2>3. ListedOK'
    BY <2>1, <2>2 DEF TableOK, ListedOK, DepsDone
  <2>4. AssignedOK'
    BY <2>1, <2>2 DEF TableOK, AssignedOK, DepsDone, Spent
  <2>5. Assigned(cur)' /\ \A u \in Tasks \ {cur} : assigns'[u] = assigns[u]
    BY <2>1 DEF Assigned, Sources
  <2>6. EndedOK'
    BY <2>1, <2>5 DEF TableOK, EndedOK, Assigned
  <2>7. MarkedOK'
    BY <2>1, KeptMarked DEF TableOK, Spent
  <2>. QED
    BY <2>3, <2>4, <2>6, <2>7 DEF TableOK
<1>. QED
  BY <1>2, <1>3, <1>4, <1>5, DispatchTable DEF LoopStep

LEMMA NextTable == SafetyOK /\ FreshOK /\ TableOK /\ [Next]_vars => TableOK'
<1>. SUFFICES ASSUME SafetyOK, FreshOK, TableOK, [Next]_vars PROVE TableOK'
  OBVIOUS
<1>1. CASE UserTypes \/ UNCHANGED vars \/ \E a \in Coders : AgentStep(a)
  BY <1>1, KeptAll
  DEF SafetyOK, UserTypes, AgentStep, AgentReceive, AgentFinish, vars, table, flow, history
<1>2. CASE MaxStep
  BY <1>2, MaxTable, DispatchTable DEF MaxStep, MaxMove, SafetyOK, Threads
<1>. QED
  BY <1>1, <1>2, LoopTable DEF Next

-----------------------------------------------------------------------------
(* The count of retries, and the plan the user is asked about. *)

\* A step that neither counts a retry nor sends one.
LEMMA KeptRetry ==
  ASSUME RetryOK, retries' = retries,
         \A t \in Tasks : assigns'[t]["retry"] = assigns[t]["retry"],
         \/ cur' = cur /\ (pc'["loop"] \in Counting <=> pc["loop"] \in Counting)
         \/ pc["loop"] \notin Counting /\ pc'["loop"] \notin Counting,
         pc'["loop"] \in {"exhausted", "escalate"} =>
           cur' = cur /\ (pc["loop"] \in {"exhausted", "escalate"} \/ retries[cur] = MaxRetries)
  PROVE  RetryOK'
  BY DEF RetryOK

LEMMA DispatchRetry ==
  ASSUME TypeOK, RetryOK, NEW th \in Threads, DispatchReady(th)
  PROVE  RetryOK'
<1>. USE DEF TypeOK, Goto, Home, Threads, Counting, history, table
<1>1. CASE List(th)
  BY <1>1, KeptRetry DEF List
<1>2. CASE Inject(th) \/ MarkDispatched(th) \/ MarkRunning(th)
  BY <1>2, KeptRetry DEF Inject, InjectArtifacts, MarkDispatched, MarkRunning, Transition
<1>3. CASE Assign(th)
  <2>1. \A t \in Tasks : assigns'[t]["retry"] = assigns[t]["retry"]
    BY <1>3 DEF Assign, SendAssign, Sources
  <2>. QED
    BY <1>3, <2>1, KeptRetry DEF Assign
<1>. QED
  BY <1>1, <1>2, <1>3 DEF DispatchReady

LEMMA LoopRetry ==
  ASSUME TypeOK, LoopOK, RetryOK, LoopStep
  PROVE  RetryOK'
<1>. USE DEF TypeOK, TasksTypeOK, Goto, Threads, Counting, history, table
<1>1. CASE LoopHears
  BY <1>1, KeptRetry DEF LoopHears, LoopReceive
<1>2. CASE StoreError
  <2>1. retries[cur] < MaxRetries \/ retries[cur] = MaxRetries
    BY <1>2, TasksAssumption DEF StoreError, LoopOK, Handling
  <2>. QED
    BY <1>2, <2>1, KeptRetry DEF StoreError, SetResult, MayRetry
<1>3. CASE CountRetry
  <2>. cur \in Tasks
    BY <1>3 DEF CountRetry, LoopOK, Handling
  <2>1. /\ retries' = [retries EXCEPT ![cur] = @ + 1] /\ UNCHANGED <<cur, assigns>>
        /\ pc["loop"] = "count" /\ pc'["loop"] = "refail"
    BY <1>3 DEF CountRetry
  <2>2. \A t \in Tasks : retries'[t] = retries[t] + (IF t = cur THEN 1 ELSE 0)
    BY <2>1
  <2>. QED
    BY <2>1, <2>2 DEF RetryOK, Sources
<1>4. CASE MarkRetry
  BY <1>4, KeptRetry DEF MarkRetry, Mark, Transition
<1>5. CASE Resend
  <2>. cur \in Tasks
    BY <1>5 DEF Resend, LoopOK, Handling
  <2>1. /\ assigns' = [assigns EXCEPT ![cur]["retry"] = @ + 1] /\ UNCHANGED <<cur, retries>>
        /\ pc["loop"] = "resend" /\ pc'["loop"] = "recv"
    BY <1>5 DEF Resend, SendAssign
  <2>2. \A t \in Tasks :
          assigns'[t]["retry"] = assigns[t]["retry"] + (IF t = cur THEN 1 ELSE 0)
    BY <2>1 DEF Sources
  <2>. QED
    BY <2>1, <2>2 DEF RetryOK, Sources
<1>6. CASE MarkDone \/ MarkFailed
  BY <1>6, KeptRetry DEF MarkDone, MarkFailed, Mark, Transition
<1>7. CASE StoreResult \/ CheckAllDone \/ TellAllDone \/ GetTask \/ Escalate
  BY <1>7, KeptRetry DEF StoreResult, SetResult, CheckAllDone, TellAllDone, GetTask, Escalate
<1>. QED
  BY <1>1, <1>2, <1>3, <1>4, <1>5, <1>6, <1>7, DispatchRetry DEF LoopStep

LEMMA NextRetry == TypeOK /\ LoopOK /\ RetryOK /\ [Next]_vars => RetryOK'
<1>. SUFFICES ASSUME TypeOK, LoopOK, RetryOK, [Next]_vars PROVE RetryOK'
  OBVIOUS
<1>1. CASE UserTypes \/ UNCHANGED vars \/ \E a \in Coders : AgentStep(a)
  BY <1>1, KeptRetry
  DEF UserTypes, AgentStep, AgentReceive, AgentFinish, vars, table, flow, history
<1>2. CASE MaxMove
  <2>1. retries' = retries
    BY <1>2
    DEF MaxMove, MaxHearsInput, Reset, MaxHearsAllDone, MaxHearsOther, MaxReports, MaxAnswers,
        SubmitPlan, CreateTask, Create, PlanTask, ApproveTask, Transition, Validate,
        UserApproves, UserRejects, ApprovalTimeout, table
  <2>. QED
    BY <1>2, <2>1, MaxFrame, KeptRetry
<1>. QED
  BY <1>1, <1>2, LoopRetry, DispatchRetry DEF Next, MaxStep, MaxMove, Threads

LEMMA NextAsked == TypeOK /\ AskedOK /\ [Next]_vars => AskedOK'
<1>. SUFFICES ASSUME TypeOK, AskedOK, [Next]_vars PROVE AskedOK'
  OBVIOUS
<1>. USE DEF AskedOK, TypeOK, Goto, Home, Threads, history, flow, table
<1>1. CASE UserTypes \/ UNCHANGED vars \/ \E a \in Coders : AgentStep(a)
  BY <1>1 DEF UserTypes, AgentStep, AgentReceive, AgentFinish, vars
<1>2. CASE \E th \in Threads : DispatchReady(th)
  BY <1>2 DEF DispatchReady, List, Inject, MarkDispatched, MarkRunning, Assign
<1>3. CASE MaxMove
  BY <1>3
  DEF MaxMove, MaxHearsInput, MaxHearsAllDone, MaxHearsOther, MaxReports, MaxAnswers,
      SubmitPlan, CreateTask, PlanTask, ApproveTask, NextOf, Validate, UserApproves,
      UserRejects, ApprovalTimeout
<1>4. CASE LoopStep
  BY <1>2, <1>4
  DEF LoopStep, LoopHears, LoopReceive, StoreResult, MarkDone, CheckAllDone, TellAllDone,
      GetTask, StoreError, CountRetry, MarkRetry, Resend, MarkFailed, Escalate, Mark
<1>. QED
  BY <1>1, <1>2, <1>3, <1>4 DEF Next, MaxStep, MaxMove

-----------------------------------------------------------------------------
(* The invariant, and the bound on tries. *)

PromiseOK == SafetyOK /\ OrderOK /\ LifecycleOK

LEMMA InitPromise == Init => PromiseOK
<1>. SUFFICES ASSUME Init PROVE OrderOK /\ LifecycleOK
  BY InitSafety DEF PromiseOK
<1>1. OrderOK
  BY TasksAssumption DEF Init, TasksInit, OrderOK, DependenciesFirst, FreshOK, Home, Threads
<1>2. LifecycleOK
  BY DEF Init, TasksInit, LifecycleOK, TableOK, ListedOK, AssignedOK, EndedOK, MarkedOK, RetryOK,
         AskedOK, Assigned, Home, Threads, Sources, Counting
<1>. QED
  BY <1>1, <1>2

LEMMA NextPromise == PromiseOK /\ [Next]_vars => PromiseOK'
  BY NextSafety, NextOrder, NextTable, NextRetry, NextAsked
  DEF PromiseOK, SafetyOK, OrderOK, LifecycleOK

LEMMA Budget ==
  ASSUME PromiseOK
  PROVE  DispatchBudget
<1>. USE DEF PromiseOK, SafetyOK, TypeOK, TasksTypeOK, LifecycleOK
<1>1. ASSUME NEW t \in Tasks, NEW th \in Threads PROVE assigns[t][th] <= 1
  BY DEF TableOK, AssignedOK, Assigned, Sources, Threads
<1>2. ASSUME NEW t \in Tasks PROVE assigns[t]["retry"] <= retries[t] /\ retries[t] <= MaxRetries
  BY TasksAssumption DEF RetryOK, Sources
<1>. QED
  BY <1>1, <1>2 DEF DispatchBudget

\* Each thread assigns a task at most once and each retry is counted, through
\* every race and reset: no task is given out more than MaxRetries + 2 times.
THEOREM BudgetKept == Spec => []DispatchBudget
<1>. QED
  BY InitPromise, NextPromise, Budget, PTL DEF Spec

-----------------------------------------------------------------------------
(* No failure is silent. *)

\* A step after which no other task has failed, and the loop is where it was.
LEMMA KeptTold ==
  ASSUME FailureIsTold, retries' = retries,
         \A t \in known' : status'[t] = "failed" => t \in known /\ status[t] = "failed",
         told \subseteq told' \/ known' = {},
         pc["loop"] \in {"redispatch", "escalate"} => cur' = cur /\ pc'["loop"] = pc["loop"]
  PROVE  FailureIsTold'
  BY DEF FailureIsTold

\* Only the loop marks a task failed.
LEMMA TransitionTold ==
  ASSUME TypeOK, FailureIsTold, NEW t, NEW to, Transition(t, to), to # "failed", told' = told,
         pc["loop"] \in {"redispatch", "escalate"} => cur' = cur /\ pc'["loop"] = pc["loop"]
  PROVE  FailureIsTold'
<1>1. known' = known /\ retries' = retries
  BY DEF Transition
<1>2. \A u \in known' : status'[u] = "failed" => u \in known /\ status[u] = "failed"
  BY DEF Transition, TypeOK, TasksTypeOK
<1>. QED
  BY <1>1, <1>2, KeptTold

LEMMA DispatchTold ==
  ASSUME TypeOK, FailureIsTold, NEW th \in Threads, DispatchReady(th)
  PROVE  FailureIsTold'
<1>. USE DEF TypeOK, Goto, Home, Threads, DispatchLabels, history, table
<1>1. CASE List(th)
  BY <1>1, KeptTold DEF List
<1>2. CASE Inject(th)
  BY <1>2, KeptTold DEF Inject, InjectArtifacts
<1>3. CASE MarkDispatched(th) \/ MarkRunning(th)
  <2>. PICK t \in Tasks, to \in {"dispatched", "running"} : Transition(t, to)
    BY <1>3 DEF MarkDispatched, MarkRunning
  <2>. QED
    BY <1>3, TransitionTold DEF MarkDispatched, MarkRunning
<1>4. CASE Assign(th)
  BY <1>4, KeptTold DEF Assign
<1>. QED
  BY <1>1, <1>2, <1>3, <1>4 DEF DispatchReady

LEMMA LoopTold ==
  ASSUME TypeOK, LoopOK, RetryOK, FailureIsTold, LoopStep
  PROVE  FailureIsTold'
<1>. USE DEF TypeOK, TasksTypeOK, Goto, Threads, history, table
<1>1. CASE LoopHears \/ StoreResult \/ StoreError \/ CheckAllDone \/ TellAllDone \/ GetTask
  BY <1>1, KeptTold
  DEF LoopHears, LoopReceive, StoreResult, StoreError, SetResult, CheckAllDone, TellAllDone,
      TellMax, GetTask
<1>2. CASE CountRetry
  <2>1. cur \in Tasks /\ retries[cur] < MaxRetries
    BY <1>2 DEF CountRetry, LoopOK, Handling, MayRetry
  <2>2. cur \in known => status[cur] # "failed"
    BY <1>2, <2>1, TasksAssumption DEF CountRetry, FailureIsTold
  <2>. QED
    BY <1>2, <2>1, <2>2 DEF CountRetry, FailureIsTold
<1>3. CASE MarkDone \/ Mark("rerun", "running", "resend")
  <2>. PICK to \in {"done", "running"} : Transition(cur, to)
    BY <1>3 DEF MarkDone, Mark
  <2>. QED
    BY <1>3, TransitionTold DEF MarkDone, Mark
<1>4. CASE Mark("refail", "failed", "redispatch")
  BY <1>4 DEF Mark, Transition, FailureIsTold
<1>5. CASE Mark("redispatch", "dispatched", "rerun")
  <2>1. \A t \in known : status'[t] = "failed" => status[t] = "failed" /\ t # cur
    BY <1>5 DEF Mark, Transition, CanTransitionTo, validTransitions
  <2>. QED
    BY <1>5, <2>1 DEF Mark, Transition, FailureIsTold
<1>6. CASE MarkFailed
  BY <1>6 DEF MarkFailed, Mark, Transition, FailureIsTold
<1>7. CASE Resend
  BY <1>7, KeptTold DEF Resend
<1>8. CASE Escalate
  BY <1>8 DEF Escalate, TellMax, RetryOK, FailureIsTold
<1>. QED
  BY <1>1, <1>2, <1>3, <1>4, <1>5, <1>6, <1>7, <1>8, DispatchTold DEF LoopStep, MarkRetry

LEMMA NextTold == PromiseOK /\ FailureIsTold /\ [Next]_vars => FailureIsTold'
<1>. SUFFICES ASSUME PromiseOK, FailureIsTold, [Next]_vars PROVE FailureIsTold'
  OBVIOUS
<1>. USE DEF PromiseOK, SafetyOK, TypeOK, LifecycleOK, Goto, Threads, history, flow, table
<1>1. CASE UserTypes \/ UNCHANGED vars \/ \E a \in Coders : AgentStep(a)
  BY <1>1, KeptTold DEF UserTypes, AgentStep, AgentReceive, AgentFinish, vars
<1>2. CASE MaxHearsInput
  BY <1>2 DEF MaxHearsInput, Reset, FailureIsTold
<1>3. ASSUME NEW t \in Tasks, CreateTask(t) PROVE FailureIsTold'
  <2>1. \A u \in known' : status'[u] = "failed" => u \in known /\ status[u] = "failed"
    BY <1>3 DEF CreateTask, Create, TasksTypeOK
  <2>. QED
    BY <1>3, <2>1, KeptTold DEF CreateTask, NextOf, Create
<1>4. ASSUME NEW t \in Tasks, PlanTask(t) \/ ApproveTask(t) PROVE FailureIsTold'
  BY <1>4, TransitionTold DEF PlanTask, ApproveTask, NextOf
<1>5. CASE MaxMove /\ UNCHANGED <<known, status, retries, told>>
  BY <1>5, MaxFrame, KeptTold
<1>6. CASE MaxMove
  BY <1>2, <1>3, <1>4, <1>5, <1>6
  DEF MaxMove, MaxHearsAllDone, MaxHearsOther, MaxReports, MaxAnswers, SubmitPlan, Validate,
      UserApproves, UserRejects, ApprovalTimeout
<1>. QED
  BY <1>1, <1>6, LoopTold, DispatchTold DEF Next, MaxStep, MaxMove

\* No interleaving of Max, the loop and late answers ends with a task that
\* rests in StatusFailed while retries are left or Max has not been told.
THEOREM FailuresReported == Spec => []FailureIsTold
<1>1. Init => FailureIsTold
  BY DEF Init, TasksInit, FailureIsTold
<1>. QED
  BY <1>1, InitPromise, NextPromise, NextTold, PTL DEF Spec

-----------------------------------------------------------------------------
(* Every step of the scheduler is a step of PlanLifecycle, or none. *)

LEMMA NothingSeen ==
  ASSUME approved' = approved, assigns' = assigns,
         \A t \in Tasks : status'[t] = "done" <=> status[t] = "done",
         \A t \in Tasks : Message("failed", t) \in told' <=> Message("failed", t) \in told
  PROVE  UNCHANGED Lifecycle!vars
  BY DEF Lifecycle!vars

\* Done is final, so only the mark itself adds to what is done.
LEMMA DoneKept ==
  ASSUME TypeOK, NEW t, NEW to, Transition(t, to), to # "done"
  PROVE  \A u \in Tasks : status'[u] = "done" <=> status[u] = "done"
  BY DEF Transition, CanTransitionTo, validTransitions, TypeOK, TasksTypeOK

\* How often t was given out, and that one more time is allowed.
LEMMA Tried ==
  ASSUME PromiseOK, NEW t \in Tasks
  PROVE  /\ \A s \in Sources : assigns[t][s] \in Nat
         /\ \A th \in Threads : assigns[t][th] <= 1
         /\ assigns[t]["retry"] <= MaxRetries
         /\ MaxRetries \in Nat
<1>1. DispatchBudget
  BY Budget
<1>2. assigns[t]["retry"] <= retries[t] /\ retries[t] <= MaxRetries /\ retries[t] \in Nat
  BY <1>1 DEF DispatchBudget, PromiseOK, SafetyOK, TypeOK, TasksTypeOK
<1>3. \A s \in Sources : assigns[t][s] \in Nat
  BY DEF PromiseOK, SafetyOK, TypeOK
<1>. QED
  BY <1>1, <1>2, <1>3, TasksAssumption DEF DispatchBudget, Sources

\* A send of an assignment is a try.
LEMMA SendTries ==
  ASSUME PromiseOK, NEW t \in approved, NEW s \in Sources,
         assigns' = [assigns EXCEPT ![t][s] = @ + 1],
         assigns[t]["max"] + assigns[t]["loop"] + assigns[t]["retry"] < MaxRetries + 2,
         DepsDone(t), UNCHANGED <<status, approved, told>>
  PROVE  Lifecycle!Try(t)
<1>1. t \in Tasks /\ \A u \in Tasks : \A r \in Sources : assigns[u][r] \in Nat
  BY DEF PromiseOK, SafetyOK, TypeOK
<1>. DEFINE total(u) == assigns[u]["max"] + assigns[u]["loop"] + assigns[u]["retry"]
<1>. DEFINE sum == [u \in Tasks |-> total(u)]
<1>2. \A u \in Tasks : total(u)' = IF u = t THEN total(u) + 1 ELSE total(u)
  <2>1. assigns \in [Tasks -> [Sources -> Nat]]
    BY DEF PromiseOK, SafetyOK, TypeOK
  <2>. QED
    BY <1>1, <2>1 DEF Sources, Threads
<1>3. sum' = [sum EXCEPT ![t] = @ + 1]
  <2>1. sum' = [u \in Tasks |-> IF u = t THEN total(u) + 1 ELSE total(u)]
    BY <1>2
  <2>. QED
    BY <1>1, <2>1
<1>4. sum[t] < MaxRetries + 2
  BY <1>1
<1>5. DependsOn[t] \subseteq {u \in Tasks : status[u] = "done"}
  BY DEF DepsDone
<1>6. UNCHANGED <<approved, {u \in Tasks : status[u] = "done"},
                  {u \in Tasks : Message("failed", u) \in told}>>
  OBVIOUS
<1>. QED
  BY <1>3, <1>4, <1>5, <1>6 DEF Lifecycle!Try

LEMMA DispatchSeen ==
  ASSUME PromiseOK, NEW th \in Threads, DispatchReady(th)
  PROVE  Lifecycle!Next \/ UNCHANGED Lifecycle!vars
<1>. USE DEF PromiseOK, SafetyOK, LifecycleOK, TableOK, history, table
<1>1. CASE List(th)
  BY <1>1, NothingSeen DEF List
<1>2. CASE Inject(th)
  BY <1>2, NothingSeen DEF Inject, InjectArtifacts
<1>3. CASE MarkDispatched(th) \/ MarkRunning(th)
  <2>. PICK t \in Tasks, to \in {"dispatched", "running"} : Transition(t, to)
    BY <1>3 DEF MarkDispatched, MarkRunning, TypeOK
  <2>. QED
    BY <1>3, DoneKept, NothingSeen DEF MarkDispatched, MarkRunning
<1>4. CASE Assign(th)
  <2>. PICK t \in ready[th] : SendAssign(t, th)
    BY <1>4 DEF Assign
  <2>1. t \in Tasks /\ t \in approved
    BY TouchedApproved DEF TypeOK
  <2>2. assigns[t][th] = 0 /\ DepsDone(t)
    BY DEF ListedOK
  <2>3. assigns[t]["max"] + assigns[t]["loop"] + assigns[t]["retry"] < MaxRetries + 2
    BY <2>1, <2>2, Tried DEF Sources, Threads
  <2>4. Lifecycle!Try(t)
    BY <1>4, <2>1, <2>2, <2>3, SendTries DEF Assign, SendAssign, Sources
  <2>. QED
    BY <2>1, <2>4 DEF Lifecycle!Next
<1>. QED
  BY <1>1, <1>2, <1>3, <1>4 DEF DispatchReady

LEMMA MaxSeen ==
  ASSUME PromiseOK, MaxMove
  PROVE  Lifecycle!Next \/ UNCHANGED Lifecycle!vars
<1>. USE DEF PromiseOK, SafetyOK, TypeOK, history, flow, table
<1>1. CASE MaxHearsInput
  <2>1. Lifecycle!Replace
    BY <1>1 DEF MaxHearsInput, Reset, Lifecycle!Replace
  <2>. QED
    BY <2>1 DEF Lifecycle!Next
<1>2. CASE UserApproves
  <2>1. plan \in Plans /\ ValidPlan(plan, DependsOn) /\ plan \cap approved = {}
    BY <1>2 DEF UserApproves, LifecycleOK, AskedOK, OrderOK, FreshOK
  <2>2. Lifecycle!ValidPlan(plan, DependsOn)
    BY <2>1 DEF ValidPlan, Closed, Acyclic, Lifecycle!ValidPlan, Lifecycle!Closed, Lifecycle!Acyclic
  <2>3. Lifecycle!Agree(plan)
    BY <1>2, <2>1, <2>2 DEF UserApproves, Lifecycle!Agree
  <2>. QED
    BY <2>1, <2>3 DEF Lifecycle!Next
<1>3. CASE \E t \in Tasks : CreateTask(t)
  <2>. PICK t \in Tasks : CreateTask(t)
    BY <1>3
  <2>1. status[t] # "done"
    BY GoingApproved DEF CreateTask, NextOf, Least, OrderOK, FreshOK, Going, Started
  <2>2. \A u \in Tasks : status'[u] = "done" <=> status[u] = "done"
    BY <2>1 DEF CreateTask, Create, TasksTypeOK
  <2>. QED
    BY <2>2, NothingSeen DEF CreateTask
<1>4. CASE \E t \in Tasks : PlanTask(t) \/ ApproveTask(t)
  <2>. PICK t \in Tasks, to \in {"planned", "approved"} : Transition(t, to)
    BY <1>4 DEF PlanTask, ApproveTask
  <2>. QED
    BY <1>4, DoneKept, NothingSeen DEF PlanTask, ApproveTask
<1>5. CASE \E p \in Plans : SubmitPlan(p)
  BY <1>5, NothingSeen DEF SubmitPlan
<1>6. CASE MaxHearsAllDone \/ MaxHearsOther \/ MaxReports \/ MaxAnswers
  BY <1>6, NothingSeen DEF MaxHearsAllDone, MaxHearsOther, MaxReports, MaxAnswers
<1>7. CASE Validate \/ UserRejects \/ ApprovalTimeout
  BY <1>7, NothingSeen DEF Validate, UserRejects, ApprovalTimeout
<1>. QED
  BY <1>1, <1>2, <1>3, <1>4, <1>5, <1>6, <1>7 DEF MaxMove

LEMMA LoopSeen ==
  ASSUME PromiseOK, LoopStep
  PROVE  Lifecycle!Next \/ UNCHANGED Lifecycle!vars
<1>. USE DEF PromiseOK, SafetyOK, LifecycleOK, TableOK, history, table
<1>1. pc["loop"] \in Handling => cur \in Tasks /\ Assigned(cur) /\ cur \in approved
  BY TouchedApproved DEF FlightOK, InFlight, LoopOK
<1>2. CASE MarkDone
  <2>. cur \in Tasks /\ Assigned(cur) /\ Transition(cur, "done")
    BY <1>1, <1>2 DEF MarkDone, Mark, Handling
  <2>1. assigns[cur]["max"] + assigns[cur]["loop"] + assigns[cur]["retry"] > 0
    BY Tried DEF Assigned, Sources, Threads
  <2>2. CASE status' = [status EXCEPT ![cur] = "done"]
    <3>. PICK t \in Tasks : t = cur
      OBVIOUS
    <3>1. {u \in Tasks : status'[u] = "done"} = {u \in Tasks : status[u] = "done"} \cup {t}
      BY <2>2 DEF TypeOK, TasksTypeOK
    <3>2. Lifecycle!Finish(t)
      BY <1>2, <2>1, <3>1 DEF MarkDone, Mark, Lifecycle!Finish
    <3>. QED
      BY <3>2 DEF Lifecycle!Next
  <2>3. CASE status' = status
    BY <1>2, <2>3, NothingSeen DEF MarkDone, Mark
  <2>. QED
    BY <2>2, <2>3 DEF Transition
<1>3. CASE MarkRetry \/ MarkFailed
  <2>. PICK to \in {"failed", "dispatched", "running"} : Transition(cur, to)
    BY <1>3 DEF MarkRetry, MarkFailed, Mark
  <2>. QED
    BY <1>3, DoneKept, NothingSeen DEF MarkRetry, MarkFailed, Mark
<1>4. CASE Resend
  <2>. cur \in Tasks /\ Assigned(cur) /\ cur \in approved
    BY <1>1, <1>4 DEF Resend, Handling
  <2>1. assigns[cur]["retry"] + 1 <= MaxRetries
    <3>1. retries[cur] = assigns[cur]["retry"] + 1
      BY <1>4 DEF Resend, RetryOK, Counting
    <3>. QED
      BY <3>1, TasksAssumption DEF TypeOK, TasksTypeOK
  <2>2. assigns[cur]["max"] + assigns[cur]["loop"] + assigns[cur]["retry"] < MaxRetries + 2
    BY <2>1, Tried DEF Sources, Threads
  <2>. PICK t \in Tasks : t = cur
    OBVIOUS
  <2>3. Lifecycle!Try(t)
    BY <1>4, <2>2, SendTries DEF Resend, SendAssign, AssignedOK, Sources
  <2>. QED
    BY <2>3 DEF Lifecycle!Next
<1>5. CASE Escalate
  <2>. cur \in Tasks /\ Assigned(cur)
    BY <1>1, <1>5 DEF Escalate, Handling
  <2>1. assigns[cur]["retry"] = MaxRetries
    BY <1>5, Tried DEF Escalate, RetryOK, Counting, Sources
  <2>2. assigns[cur]["max"] + assigns[cur]["loop"] + assigns[cur]["retry"] >= MaxRetries + 1
    BY <2>1, Tried DEF AssignedOK, Sources, Threads
  <2>. PICK t \in Tasks : t = cur
    OBVIOUS
  <2>3. {u \in Tasks : Message("failed", u) \in told'} =
        {u \in Tasks : Message("failed", u) \in told} \cup {t}
    BY <1>5 DEF Escalate, TellMax, Message
  <2>4. Lifecycle!GiveUp(t)
    BY <1>5, <2>2, <2>3 DEF Escalate, TellMax, Lifecycle!GiveUp
  <2>. QED
    BY <2>4 DEF Lifecycle!Next
<1>6. CASE TellAllDone
  <2>1. \A t \in Tasks : Message("failed", t) \in told' <=> Message("failed", t) \in told
    BY <1>6 DEF TellAllDone, TellMax, Message
  <2>. QED
    BY <1>6, <2>1, NothingSeen DEF TellAllDone
<1>7. CASE LoopHears \/ StoreResult \/ StoreError \/ CheckAllDone \/ GetTask \/ CountRetry
  BY <1>7, NothingSeen
  DEF LoopHears, LoopReceive, StoreResult, StoreError, SetResult, CheckAllDone, GetTask, CountRetry
<1>8. CASE DispatchReady("loop")
  BY <1>8, DispatchSeen DEF Threads
<1>. QED
  BY <1>2, <1>3, <1>4, <1>5, <1>6, <1>7, <1>8 DEF LoopStep

LEMMA NextSeen == PromiseOK /\ [Next]_vars => [Lifecycle!Next]_(Lifecycle!vars)
<1>. SUFFICES ASSUME PromiseOK, [Next]_vars
              PROVE  Lifecycle!Next \/ UNCHANGED Lifecycle!vars
  OBVIOUS
<1>1. CASE UserTypes \/ UNCHANGED vars \/ \E a \in Coders : AgentStep(a)
  BY <1>1, NothingSeen
  DEF UserTypes, AgentStep, AgentReceive, AgentFinish, vars, table, flow, history
<1>. QED
  BY <1>1, MaxSeen, LoopSeen, DispatchSeen DEF Next, MaxStep, MaxMove, Threads

\* What the user is promised is kept by the detailed design: every behaviour of
\* Max, the loop and the coders is, seen from outside, one of PlanLifecycle.
THEOREM PromisesKept == Spec => LifecycleKept
<1>1. Init => Lifecycle!Init
  BY DEF Init, TasksInit, Lifecycle!Init, Sources, Threads
<1>. QED
  BY <1>1, InitPromise, NextPromise, NextSeen, PTL DEF Spec, LifecycleKept, Lifecycle!Spec

-----------------------------------------------------------------------------
(* Part 3.  No outcome is lost or counted twice.  Where a task is between *)
(* its assignment and its outcome:                                        *)

\* The message hands t to whoever reads n's inbox.
Carries(n, msg, t) ==
  IF n = "scheduler" THEN msg \in {Message("result", t), Message("failed", t)}
                     ELSE n \in Coders /\ msg = Message("assign", t)

\* n works on t.
Hands(n, t) ==
  IF n = "scheduler" THEN cur = t /\ pc["loop"] \in Moving
                     ELSE n \in Coders /\ busy[n] = t

\* t is at place k of n's line: 0 is the place of the task n works on, the
\* others are those of its inbox, so that a receive moves the line up by one.
Holds(n, k, t) ==
  \/ k = 0 /\ Hands(n, t)
  \/ k \in 1..Len(inbox[n]) /\ Carries(n, inbox[n][k], t)

Held(t) == \E n \in Subscribers, k \in Nat : Holds(n, k, t)

OnePlace(t) ==
  \A n, m \in Subscribers, j, k \in Nat : Holds(n, j, t) /\ Holds(m, k, t) => n = m /\ j = k

\* A step that neither doubles a task nor brings one into play.
KeepsPlace(t) == (OnePlace(t) => OnePlace(t)') /\ (Held(t)' => Held(t))

LEMMA ShrinkPlace ==
  ASSUME NEW t, \A n \in Subscribers, k \in Nat : Holds(n, k, t)' => Holds(n, k, t)
  PROVE  KeepsPlace(t)
  BY DEF KeepsPlace, OnePlace, Held

LEMMA ShiftPlace ==
  ASSUME NEW t, NEW name,
         \A n \in Subscribers, k \in Nat : Holds(n, k, t)' => Holds(n, IF n = name THEN k + 1 ELSE k, t)
  PROVE  KeepsPlace(t)
<1>. DEFINE was(n, k) == IF n = name THEN k + 1 ELSE k
<1>1. \A n \in Subscribers, k \in Nat : was(n, k) \in Nat /\ (Holds(n, k, t)' => Holds(n, was(n, k), t))
  OBVIOUS
<1>2. \A n \in Subscribers, j, k \in Nat : was(n, j) = was(n, k) => j = k
  OBVIOUS
<1>. HIDE DEF was
<1>3. Held(t)' => Held(t)
  BY <1>1 DEF Held
<1>4. OnePlace(t) => OnePlace(t)'
  BY <1>1, <1>2 DEF OnePlace
<1>. QED
  BY <1>3, <1>4 DEF KeepsPlace

-----------------------------------------------------------------------------
(* How the bus moves a line. *)

LEMMA SendPlaces ==
  ASSUME InboxOK, NEW to, NEW msg, Send(to, msg), NEW n \in Subscribers, NEW k \in 1..Len(inbox'[n])
  PROVE  \/ k \in 1..Len(inbox[n]) /\ inbox'[n][k] = inbox[n][k]
         \/ n = to /\ k = Len(inbox[n]) + 1 /\ inbox'[n][k] = msg
<1>. inbox[n] \in Seq(Messages)
  BY DEF InboxOK
<1>1. CASE inbox'[n] = inbox[n]
  BY <1>1
<1>2. CASE n = to /\ inbox'[n] = Append(inbox[n], msg)
  BY <1>2
<1>. QED
  BY <1>1, <1>2 DEF InboxOK, Send

LEMMA ReceivePlaces ==
  ASSUME InboxOK, NEW name \in Subscribers, NEW msg, Receive(name, msg)
  PROVE  /\ 1 \in 1..Len(inbox[name]) /\ inbox[name][1] = msg
         /\ \A k \in 1..Len(inbox'[name]) :
              k + 1 \in 1..Len(inbox[name]) /\ inbox'[name][k] = inbox[name][k + 1]
         /\ \A n \in Subscribers : n # name => inbox'[n] = inbox[n]
<1>1. inbox[name] \in Seq(Messages) /\ inbox[name] # <<>>
  BY DEF InboxOK, Receive
<1>2. inbox'[name] = Tail(inbox[name]) /\ msg = Head(inbox[name])
  BY DEF InboxOK, Receive
<1>3. \A n \in Subscribers : n # name => inbox'[n] = inbox[n]
  BY DEF InboxOK, Receive
<1>. QED
  BY <1>1, <1>2, <1>3

\* Nobody takes up a task, and nothing is sent that carries one.
LEMMA QuietPlaces ==
  ASSUME InboxOK, NEW to, NEW msg, inbox' = inbox \/ Send(to, msg), NEW t \in Tasks,
         ~Carries(to, msg, t), \A n \in Subscribers : Hands(n, t)' => Hands(n, t)
  PROVE  KeepsPlace(t)
<1>1. \A n, m : Carries(n, m, t)' <=> Carries(n, m, t)
  BY DEF Carries
<1>2. ASSUME NEW n \in Subscribers, NEW k \in Nat, Holds(n, k, t)'
      PROVE  Holds(n, k, t)
  <2>1. CASE k = 0 /\ Hands(n, t)'
    BY <2>1 DEF Holds
  <2>2. CASE k \in 1..Len(inbox'[n]) /\ Carries(n, inbox'[n][k], t)
    BY <2>2, SendPlaces DEF Holds
  <2>. QED
    BY <1>1, <1>2, <2>1, <2>2 DEF Holds
<1>. QED
  BY <1>2, ShrinkPlace

LEMMA StillPlaces ==
  ASSUME InboxOK, inbox' = inbox, NEW t \in Tasks,
         \A n \in Subscribers : Hands(n, t)' => Hands(n, t)
  PROVE  KeepsPlace(t)
<1>1. ~Carries("max", Message("input", NoTask), t)
  BY DEF Carries, Coders
<1>. QED
  BY <1>1, QuietPlaces

\* Whoever works on t sends it on, or drops it.
LEMMA HandOver ==
  ASSUME InboxOK, NEW t \in Tasks, NEW from \in Subscribers, Hands(from, t), ~Hands(from, t)',
         NEW to, NEW msg, Send(to, msg), \A n \in Subscribers : Hands(n, t)' => Hands(n, t)
  PROVE  KeepsPlace(t)
<1>1. Holds(from, 0, t) /\ ~Holds(from, 0, t)'
  BY DEF Holds
<1>2. Held(t)
  BY <1>1 DEF Held
<1>3. ASSUME OnePlace(t), NEW n \in Subscribers, NEW k \in Nat, Holds(n, k, t)'
      PROVE  n = to /\ k = Len(inbox[to]) + 1
  <2>1. Holds(n, k, t) => n = from /\ k = 0
    BY <1>1, <1>3 DEF OnePlace
  <2>2. ~Holds(n, k, t)
    BY <1>1, <1>3, <2>1
  <2>3. k \in 1..Len(inbox'[n]) /\ Carries(n, inbox'[n][k], t)
    BY <1>3, <2>2 DEF Holds, Carries
  <2>. QED
    BY <2>2, <2>3, SendPlaces DEF Holds
<1>. DEFINE last == Len(inbox[to]) + 1
<1>4. OnePlace(t) => \A n \in Subscribers, k \in Nat : Holds(n, k, t)' => n = to /\ k = last
  BY <1>3
<1>. HIDE DEF last
<1>. QED
  BY <1>2, <1>4 DEF KeepsPlace, OnePlace

\* The head of a line is taken up.
LEMMA TakeUp ==
  ASSUME InboxOK, NEW t \in Tasks, NEW name \in Subscribers, NEW msg, Receive(name, msg),
         \A n \in Subscribers : Hands(n, t)' => IF n = name THEN Carries(n, msg, t) ELSE Hands(n, t)
  PROVE  KeepsPlace(t)
<1>1. \A n, m : Carries(n, m, t)' <=> Carries(n, m, t)
  BY DEF Carries
<1>2. ASSUME NEW n \in Subscribers, NEW k \in Nat, Holds(n, k, t)'
      PROVE  Holds(n, IF n = name THEN k + 1 ELSE k, t)
  <2>1. CASE k = 0 /\ Hands(n, t)'
    BY <2>1, ReceivePlaces DEF Holds
  <2>2. CASE k \in 1..Len(inbox'[n]) /\ Carries(n, inbox'[n][k], t)
    BY <2>2, ReceivePlaces DEF Holds
  <2>. QED
    BY <1>1, <1>2, <2>1, <2>2 DEF Holds
<1>. QED
  BY <1>2, ShiftPlace

-----------------------------------------------------------------------------
(* Only Assign brings a task into play, or doubles it. *)

LEMMA MaxPlaces ==
  ASSUME TypeOK, MaxMove, NEW t \in Tasks
  PROVE  KeepsPlace(t)
<1>0. InboxOK /\ "max" \in Subscribers /\ "max" \notin Coders
  BY PlansAssumption DEF TypeOK, InboxOK, Coders
<1>1. \A n \in Subscribers : Hands(n, t)' => Hands(n, t)
  BY MaxFrame DEF Hands
<1>2. CASE MaxHearsInput \/ MaxHearsAllDone \/ MaxHearsOther
  <2>. PICK msg : Receive("max", msg)
    BY <1>2 DEF MaxHearsInput, MaxHearsAllDone, MaxHearsOther
  <2>1. ~Hands("max", t)
    BY <1>0 DEF Hands
  <2>. QED
    BY <1>0, <1>1, <2>1, TakeUp
<1>3. CASE UserApproves \/ UserRejects
  <2>1. Send("scheduler", Message("approval", NoTask))
    BY <1>3 DEF UserApproves, UserRejects
  <2>2. ~Carries("scheduler", Message("approval", NoTask), t)
    BY DEF Carries, Message
  <2>. QED
    BY <1>0, <1>1, <2>1, <2>2, QuietPlaces
<1>4. CASE inbox' = inbox
  BY <1>0, <1>1, <1>4, StillPlaces
<1>5. CASE \E u \in Tasks : CreateTask(u) \/ PlanTask(u) \/ ApproveTask(u)
  BY <1>4, <1>5 DEF CreateTask, PlanTask, ApproveTask
<1>6. CASE \E p \in Plans : SubmitPlan(p)
  BY <1>4, <1>6 DEF SubmitPlan
<1>7. CASE MaxReports \/ MaxAnswers \/ Validate \/ ApprovalTimeout
  BY <1>4, <1>7 DEF MaxReports, MaxAnswers, Validate, ApprovalTimeout
<1>. QED
  BY <1>2, <1>3, <1>5, <1>6, <1>7 DEF MaxMove

\* The first send of a task finds it nowhere.
FirstPlace(th, t) ==
  /\ Assign(th)
  /\ t \in ready[th]
  /\ assigns' = [assigns EXCEPT ![t][th] = @ + 1]
  /\ Held(t) \/ OnePlace(t)'

LEMMA DispatchPlaces ==
  ASSUME TypeOK, NEW th \in Threads, DispatchReady(th), NEW t \in Tasks
  PROVE  KeepsPlace(t) \/ FirstPlace(th, t)
<1>0. InboxOK
  BY DEF TypeOK, InboxOK
<1>1. \A n \in Subscribers : Hands(n, t)' => Hands(n, t)
  BY DEF DispatchReady, List, Inject, MarkDispatched, MarkRunning, Assign, Goto, Home, Hands,
         TypeOK, Threads, Moving, Handling, history
<1>2. CASE inbox' = inbox
  BY <1>0, <1>1, <1>2, StillPlaces
<1>3. CASE Assign(th)
  <2>. PICK u \in ready[th] : SendAssign(u, th)
    BY <1>3 DEF Assign
  <2>. DEFINE to == AgentName[u]
              msg == Message("assign", u)
  <2>1. Send(to, msg) /\ assigns' = [assigns EXCEPT ![u][th] = @ + 1]
    BY DEF SendAssign
  <2>2. CASE ~Carries(to, msg, t)
    <3>. HIDE DEF to, msg
    <3>. QED
      BY <1>0, <1>1, <2>1, <2>2, QuietPlaces
  <2>3. CASE Carries(to, msg, t)
    <3>1. t = u
      BY <2>3 DEF Carries, Message
    <3>2. ASSUME ~Held(t) PROVE OnePlace(t)'
      <4>1. ASSUME NEW n \in Subscribers, NEW k \in Nat, Holds(n, k, t)'
            PROVE  n = to /\ k = Len(inbox[to]) + 1
        <5>1. ~Holds(n, k, t)
          BY <3>2 DEF Held
        <5>2. k \in 1..Len(inbox'[n]) /\ Carries(n, inbox'[n][k], t)
          BY <1>1, <4>1, <5>1 DEF Holds, Carries
        <5>. HIDE DEF to, msg
        <5>. QED
          BY <1>0, <2>1, <5>1, <5>2, SendPlaces DEF Holds
      <4>. DEFINE last == Len(inbox[to]) + 1
      <4>2. \A n \in Subscribers, k \in Nat : Holds(n, k, t)' => n = to /\ k = last
        BY <4>1
      <4>. HIDE DEF last, to
      <4>. QED
        BY <4>2 DEF OnePlace
    <3>. QED
      BY <1>3, <2>1, <3>1, <3>2 DEF FirstPlace
  <2>. QED
    BY <2>2, <2>3
<1>. QED
  BY <1>2, <1>3 DEF DispatchReady, List, Inject, MarkDispatched, MarkRunning

LEMMA LoopPlaces ==
  ASSUME TypeOK, LoopOK, LoopStep, ~DispatchReady("loop"), NEW t \in Tasks
  PROVE  KeepsPlace(t)
<1>. USE DEF Goto, Threads, history, table
<1>0. InboxOK /\ "scheduler" \in Subscribers
  BY PlansAssumption DEF TypeOK, InboxOK
<1>. pc \in [Threads -> MaxLabels \cup LoopLabels \cup DispatchLabels]
  BY DEF TypeOK
<1>1. CASE LoopHears
  <2>. PICK u \in Tasks \cup {NoTask}, type \in MessageTypes,
            label \in {"recv", "result", "get"} :
         /\ LoopReceive(u, type, label)
         /\ label = "recv" \/ type \in {"result", "failed"}
    BY <1>1 DEF LoopHears, MessageTypes
  <2>. DEFINE msg == Message(type, u)
  <2>1. Receive("scheduler", msg)
    BY DEF LoopReceive
  <2>2. Hands("scheduler", t)' => Carries("scheduler", msg, t)
    BY DEF LoopReceive, Hands, Carries, Moving, Handling
  <2>3. \A n \in Subscribers : n # "scheduler" => (Hands(n, t)' => Hands(n, t))
    BY DEF LoopReceive, Hands
  <2>. HIDE DEF msg
  <2>. QED
    BY <1>0, <2>1, <2>2, <2>3, TakeUp
<1>2. CASE TellAllDone \/ Escalate
  <2>. PICK type, u : type \in {"alldone", "failed"} /\ TellMax(Message(type, u))
    BY <1>2 DEF TellAllDone, Escalate
  <2>. DEFINE msg == Message(type, u)
  <2>1. Send("max", msg)
    BY DEF TellMax
  <2>2. ~Carries("max", msg, t)
    BY DEF Carries, Message, Coders
  <2>3. \A n \in Subscribers : Hands(n, t)' => Hands(n, t)
    BY <1>2 DEF TellAllDone, Escalate, Hands, Moving, Handling
  <2>. HIDE DEF msg
  <2>. QED
    BY <1>0, <2>1, <2>2, <2>3, QuietPlaces
<1>3. CASE Resend
  <2>. PICK u \in Tasks : u = cur
    BY <1>3 DEF Resend, LoopOK, Handling
  <2>. DEFINE to == AgentName[u]
              msg == Message("assign", u)
  <2>1. Send(to, msg)
    BY <1>3 DEF Resend, SendAssign
  <2>2. \A n \in Subscribers : Hands(n, t)' => Hands(n, t)
    BY <1>3 DEF Resend, Hands, Moving, Handling
  <2>3. CASE t = u
    <3>1. Hands("scheduler", t) /\ ~Hands("scheduler", t)'
      BY <1>3, <2>3 DEF Resend, Hands, Moving, Handling
    <3>. HIDE DEF to, msg
    <3>. QED
      BY <1>0, <2>1, <2>2, <3>1, HandOver
  <2>4. CASE t # u
    <3>1. ~Carries(to, msg, t)
      BY <2>4 DEF Carries, Message
    <3>. HIDE DEF to, msg
    <3>. QED
      BY <1>0, <2>1, <2>2, <3>1, QuietPlaces
  <2>. QED
    BY <2>3, <2>4
<1>4. CASE /\ inbox' = inbox /\ busy' = busy /\ cur' = cur
           /\ pc'["loop"] \in Moving => pc["loop"] \in Moving
  BY <1>0, <1>4, StillPlaces DEF Hands
<1>5. CASE StoreResult \/ CheckAllDone \/ GetTask \/ StoreError \/ CountRetry
  BY <1>4, <1>5 DEF StoreResult, CheckAllDone, GetTask, StoreError, CountRetry, Moving, Handling
<1>6. CASE MarkDone \/ MarkRetry \/ MarkFailed
  BY <1>4, <1>6 DEF MarkDone, MarkRetry, MarkFailed, Mark, Moving, Handling
<1>. QED
  BY <1>1, <1>2, <1>3, <1>5, <1>6 DEF LoopStep

LEMMA AgentPlaces ==
  ASSUME TypeOK, NEW a \in Coders, AgentStep(a), NEW t \in Tasks
  PROVE  KeepsPlace(t)
<1>0. /\ InboxOK /\ a \in Subscribers /\ a # "scheduler" /\ "scheduler" \in Subscribers
      /\ busy \in [Coders -> Tasks \cup {NoTask}] /\ NoTask \notin Tasks
  BY PlansAssumption, TasksAssumption DEF TypeOK, InboxOK, Coders
<1>1. CASE AgentReceive(a)
  <2>. PICK u \in Tasks : Receive(a, Message("assign", u)) /\ busy' = [busy EXCEPT ![a] = u]
    BY <1>1 DEF AgentReceive
  <2>1. \A n \in Subscribers :
          Hands(n, t)' => IF n = a THEN Carries(n, Message("assign", u), t) ELSE Hands(n, t)
    BY <1>0, <1>1 DEF AgentReceive, Hands, Carries
  <2>. QED
    BY <1>0, <2>1, TakeUp
<1>2. ASSUME NEW type \in {"result", "failed"}, AgentFinish(a, type) PROVE KeepsPlace(t)
  <2>. PICK u \in Tasks : u = busy[a]
    BY <1>0, <1>2 DEF AgentFinish
  <2>. DEFINE msg == Message(type, u)
  <2>1. Send("scheduler", msg)
    BY <1>2 DEF AgentFinish
  <2>2. \A n \in Subscribers : Hands(n, t)' => Hands(n, t)
    BY <1>0, <1>2 DEF AgentFinish, Hands
  <2>3. CASE t = u
    <3>1. Hands(a, t) /\ ~Hands(a, t)'
      BY <1>0, <1>2, <2>3 DEF AgentFinish, Hands
    <3>. HIDE DEF msg
    <3>. QED
      BY <1>0, <2>1, <2>2, <3>1, HandOver
  <2>4. CASE t # u
    <3>1. ~Carries("scheduler", msg, t)
      BY <2>4 DEF Carries, Message
    <3>. HIDE DEF msg
    <3>. QED
      BY <1>0, <2>1, <2>2, <3>1, QuietPlaces
  <2>. QED
    BY <2>3, <2>4
<1>. QED
  BY <1>1, <1>2 DEF AgentStep

LEMMA NextPlaces ==
  ASSUME TypeOK, LoopOK, [Next]_vars, NEW t \in Tasks
  PROVE  KeepsPlace(t) \/ \E th \in Threads : FirstPlace(th, t)
<1>0. InboxOK
  BY DEF TypeOK, InboxOK
<1>1. CASE UserTypes
  <2>1. Send("max", Message("input", NoTask)) /\ \A n \in Subscribers : Hands(n, t)' => Hands(n, t)
    BY <1>1 DEF UserTypes, flow, Hands
  <2>2. ~Carries("max", Message("input", NoTask), t)
    BY DEF Carries, Message
  <2>. QED
    BY <1>0, <2>1, <2>2, QuietPlaces
<1>2. CASE UNCHANGED vars
  BY <1>0, <1>2, StillPlaces DEF vars, flow, Hands
<1>3. CASE MaxStep
  BY <1>3, MaxPlaces, DispatchPlaces DEF MaxStep, MaxMove, Threads
<1>4. CASE LoopStep
  BY <1>4, LoopPlaces, DispatchPlaces DEF Threads
<1>. QED
  BY <1>1, <1>2, <1>3, <1>4, AgentPlaces DEF Next

-----------------------------------------------------------------------------
(* A task that one thread dispatched is in one place, and in none once it is  *)
(* done or has failed for good.                                               *)

Settled(t) ==
  \/ status[t] = "done"
  \/ status[t] = "failed" /\ ~(cur = t /\ pc["loop"] = "redispatch")

PlaceOK == \A t \in Tasks : DoubleDispatched(t) \/ OnePlace(t)

SettledOK == \A t \in known : Settled(t) => DoubleDispatched(t) \/ ~Held(t)

LEMMA HeldAssigned ==
  ASSUME FlightOK, NEW t \in Tasks, Held(t)
  PROVE  Assigned(t)
<1>1. InFlight(t)
  BY DEF Held, Holds, Hands, Carries, InFlight, InInbox, Moving, Coders
<1>. QED
  BY <1>1 DEF FlightOK

\* The counts of sends only grow.
LEMMA AssignsGrow ==
  ASSUME TypeOK, LoopOK, [Next]_vars, NEW t \in Tasks, NEW s \in Sources
  PROVE  assigns'[t][s] >= assigns[t][s]
<1>. USE DEF table, flow, history
<1>. assigns \in [Tasks -> [Sources -> Nat]] /\ Threads \subseteq Sources
  BY DEF TypeOK, Sources
<1>1. CASE assigns' = assigns
  BY <1>1
<1>2. CASE \E u \in Tasks, r \in Sources : assigns' = [assigns EXCEPT ![u][r] = @ + 1]
  BY <1>2
<1>3. CASE \E th \in Threads : DispatchReady(th)
  BY <1>1, <1>2, <1>3
  DEF DispatchReady, List, Inject, MarkDispatched, MarkRunning, Assign, SendAssign, TypeOK
<1>4. CASE MaxMove
  BY <1>1, <1>4, MaxFrame
<1>5. CASE Resend
  BY <1>2, <1>5 DEF Resend, SendAssign, LoopOK, Handling, Sources
<1>6. CASE LoopStep
  BY <1>1, <1>3, <1>5, <1>6
  DEF LoopStep, LoopHears, LoopReceive, StoreResult, MarkDone, CheckAllDone, TellAllDone, GetTask,
      StoreError, CountRetry, MarkRetry, MarkFailed, Escalate, Mark, Threads
<1>7. CASE UserTypes \/ UNCHANGED vars \/ \E a \in Coders : AgentStep(a)
  BY <1>1, <1>7 DEF UserTypes, AgentStep, AgentReceive, AgentFinish, vars
<1>. QED
  BY <1>3, <1>4, <1>6, <1>7 DEF Next, MaxStep, MaxMove, Threads

LEMMA StaysDouble ==
  ASSUME TypeOK, LoopOK, [Next]_vars, NEW t \in Tasks, DoubleDispatched(t)
  PROVE  DoubleDispatched(t)'
<1>1. \A th \in Threads : assigns[t][th] \in Nat /\ assigns[t][th] > 0
  BY DEF DoubleDispatched, TypeOK, Sources
<1>2. \A th \in Threads : assigns'[t][th] >= assigns[t][th]
  BY AssignsGrow DEF Sources
<1>3. TypeOK'
  BY NextType
<1>4. \A th \in Threads : assigns'[t][th] \in Nat
  BY <1>3 DEF TypeOK, Sources
<1>. QED
  BY <1>1, <1>2, <1>4 DEF DoubleDispatched

\* What was assigned before the other thread's send is doubled by it.
LEMMA FirstOrDouble ==
  ASSUME PromiseOK, NEW th \in Threads, NEW t \in Tasks, FirstPlace(th, t), Assigned(t)
  PROVE  DoubleDispatched(t)'
<1>1. assigns[t][th] = 0
  BY DEF FirstPlace, PromiseOK, LifecycleOK, TableOK, ListedOK
<1>2. \A s \in Threads \ {th} : assigns[t][s] > 0
  BY <1>1 DEF PromiseOK, LifecycleOK, TableOK, AssignedOK, Threads
<1>3. assigns' = [assigns EXCEPT ![t][th] = @ + 1] /\ assigns \in [Tasks -> [Sources -> Nat]]
  BY DEF FirstPlace, PromiseOK, SafetyOK, TypeOK
<1>. QED
  BY <1>1, <1>2, <1>3 DEF DoubleDispatched, Sources, Threads

LEMMA NextPlace == PromiseOK /\ PlaceOK /\ [Next]_vars => PlaceOK'
<1>. SUFFICES ASSUME PromiseOK, PlaceOK, [Next]_vars, NEW t \in Tasks
              PROVE  DoubleDispatched(t)' \/ OnePlace(t)'
  BY DEF PlaceOK
<1>. USE DEF PromiseOK, SafetyOK
<1>1. CASE KeepsPlace(t)
  BY <1>1, StaysDouble DEF PlaceOK, KeepsPlace
<1>2. ASSUME NEW th \in Threads, FirstPlace(th, t) PROVE DoubleDispatched(t)' \/ OnePlace(t)'
  BY <1>2, HeldAssigned, FirstOrDouble DEF FirstPlace
<1>. QED
  BY <1>1, <1>2, NextPlaces

\* Steps that end no task.
LEMMA SettledKept ==
  ASSUME PromiseOK, SettledOK, [Next]_vars, NEW t \in known, Settled(t)
  PROVE  DoubleDispatched(t)' \/ ~Held(t)'
<1>. USE DEF PromiseOK, SafetyOK
<1>. t \in Tasks
  BY DEF TypeOK, TasksTypeOK
<1>1. Assigned(t)
  BY DEF Settled, LifecycleOK, TableOK, EndedOK
<1>2. CASE KeepsPlace(t)
  BY <1>2, StaysDouble DEF SettledOK, KeepsPlace
<1>. QED
  BY <1>1, <1>2, NextPlaces, FirstOrDouble

\* The loop is done with its task.
LEMMA LetGo ==
  ASSUME PlaceOK, UNCHANGED <<inbox, busy>>, NEW t \in Tasks, cur = t, pc["loop"] \in Moving,
         pc'["loop"] \notin Moving, "scheduler" \in Subscribers
  PROVE  DoubleDispatched(t) \/ ~Held(t)'
<1>1. Holds("scheduler", 0, t)
  BY DEF Holds, Hands
<1>2. \A n \in Subscribers, k \in Nat :
        Holds(n, k, t)' => Holds(n, k, t) /\ ~(n = "scheduler" /\ k = 0)
  BY DEF Holds, Hands, Carries
<1>3. OnePlace(t) => ~Held(t)'
  BY <1>1, <1>2 DEF OnePlace, Held
<1>. QED
  BY <1>3 DEF PlaceOK

\* Only the loop ends tasks.
LEMMA MaxEnds ==
  ASSUME TypeOK, MaxMove, NEW t \in known', status'[t] \in {"done", "failed"}
  PROVE  t \in known /\ status'[t] = status[t]
  BY DEF MaxMove, MaxHearsInput, Reset, MaxHearsAllDone, MaxHearsOther, MaxReports, MaxAnswers,
         SubmitPlan, CreateTask, Create, PlanTask, ApproveTask, Transition, Validate,
         UserApproves, UserRejects, ApprovalTimeout, table, flow, TypeOK, TasksTypeOK

LEMMA DispatchEnds ==
  ASSUME TypeOK, NEW th \in Threads, DispatchReady(th)
  PROVE  /\ known' = known /\ cur' = cur
         /\ \A t \in known : status'[t] \in {"done", "failed"} => status'[t] = status[t]
         /\ pc'["loop"] = pc["loop"] \/ pc["loop"] \in DispatchLabels
  BY DEF DispatchReady, List, Inject, InjectArtifacts, MarkDispatched, MarkRunning, Assign,
         Transition, Goto, DispatchLabels, Threads, table, TypeOK, TasksTypeOK

LEMMA LoopSettled ==
  ASSUME PromiseOK, PlaceOK, SettledOK, LoopStep, NEW t \in known', Settled(t)'
  PROVE  DoubleDispatched(t)' \/ ~Held(t)'
<1>. USE DEF PromiseOK, SafetyOK, Goto, Threads, history, table
<1>. pc \in [Threads -> MaxLabels \cup LoopLabels \cup DispatchLabels]
  BY DEF TypeOK
<1>0. [Next]_vars
  BY DEF Next
<1>1. t \in Tasks /\ "scheduler" \in Subscribers /\ known \subseteq Tasks /\ status \in [Tasks -> Status]
  BY <1>0, NextType, PlansAssumption DEF TypeOK, TasksTypeOK
<1>2. CASE t \in known /\ Settled(t)
  BY <1>0, <1>2, SettledKept
<1>3. CASE DispatchReady("loop")
  BY <1>2, <1>3, DispatchEnds DEF Settled, DispatchLabels
<1>4. CASE MarkDone \/ MarkFailed
  <2>1. CASE t = cur
    <3>1. UNCHANGED <<inbox, busy>> /\ pc["loop"] \in Moving /\ pc'["loop"] \notin Moving
      BY <1>4 DEF MarkDone, MarkFailed, Mark, Moving, Handling
    <3>. QED
      BY <1>0, <1>1, <2>1, <3>1, LetGo, StaysDouble
  <2>2. CASE t # cur
    BY <1>1, <1>2, <1>4, <2>2 DEF MarkDone, MarkFailed, Mark, Transition, Settled
  <2>. QED
    BY <2>1, <2>2
<1>5. CASE MarkRetry
  <2>1. known' = known /\ cur' = cur
    BY <1>5 DEF MarkRetry, Mark, Transition
  <2>2. status'[t] = "done" => status[t] = "done"
    BY <1>1, <1>5 DEF MarkRetry, Mark, Transition
  <2>3. status'[t] = "failed" /\ ~(cur = t /\ pc'["loop"] = "redispatch") =>
          status[t] = "failed" /\ ~(cur = t /\ pc["loop"] = "redispatch")
    BY <1>1, <1>5, <2>1 DEF MarkRetry, Mark, Transition, CanTransitionTo, validTransitions
  <2>. QED
    BY <1>2, <2>1, <2>2, <2>3 DEF Settled
<1>6. CASE UNCHANGED <<known, status>> /\ pc["loop"] # "redispatch"
  BY <1>2, <1>6 DEF Settled
<1>7. CASE LoopHears \/ StoreResult \/ StoreError \/ CheckAllDone \/ TellAllDone
           \/ GetTask \/ CountRetry \/ Resend \/ Escalate
  BY <1>6, <1>7 DEF LoopHears, LoopReceive, StoreResult, StoreError, SetResult, CheckAllDone, TellAllDone,
                    GetTask, CountRetry, Resend, Escalate
<1>. QED
  BY <1>3, <1>4, <1>5, <1>7 DEF LoopStep

LEMMA NextSettled == PromiseOK /\ PlaceOK /\ SettledOK /\ [Next]_vars => SettledOK'
<1>. SUFFICES ASSUME PromiseOK, PlaceOK, SettledOK, [Next]_vars, NEW t \in known', Settled(t)'
              PROVE  DoubleDispatched(t)' \/ ~Held(t)'
  BY DEF SettledOK
<1>. USE DEF PromiseOK, SafetyOK
<1>1. CASE t \in known /\ Settled(t)
  BY <1>1, SettledKept
<1>2. CASE UserTypes \/ UNCHANGED vars \/ \E a \in Coders : AgentStep(a)
  BY <1>1, <1>2
  DEF Settled, UserTypes, AgentStep, AgentReceive, AgentFinish, vars, table, flow, history
<1>3. CASE MaxMove
  BY <1>1, <1>3, MaxFrame, MaxEnds DEF Settled
<1>4. CASE DispatchReady("max")
  BY <1>1, <1>4, DispatchEnds DEF Settled, DispatchLabels, Threads
<1>. QED
  BY <1>2, <1>3, <1>4, LoopSettled DEF Next, MaxStep, MaxMove

-----------------------------------------------------------------------------
(* What is done keeps its result. *)

ResultOK ==
  /\ pc["loop"] = "done" /\ cur \in known => result[cur] = "ok"
  /\ DoneKeepsResult

\* The task the loop handles is no task of a new plan.
LEMMA CurIsOld ==
  ASSUME PromiseOK, pc["loop"] \in Handling, MaxMove
  PROVE  cur \in known' => cur \in known
<1>. USE DEF PromiseOK, SafetyOK
<1>1. \A u \in Tasks : u = cur => Going(u)
  BY DEF FlightOK, InFlight, Going
<1>2. ASSUME NEW u \in Tasks, CreateTask(u) PROVE u # cur
  BY <1>1, <1>2, GoingApproved DEF CreateTask, NextOf, Least, OrderOK, FreshOK, TypeOK
<1>3. known' \subseteq known \/ \E u \in Tasks : CreateTask(u)
  BY DEF MaxMove, MaxHearsInput, Reset, MaxHearsAllDone, MaxHearsOther, MaxReports, MaxAnswers,
         SubmitPlan, PlanTask, ApproveTask, Transition, Validate, UserApproves, UserRejects,
         ApprovalTimeout, table, flow
<1>. QED
  BY <1>2, <1>3 DEF CreateTask, Create

\* Steps that finish no task.
LEMMA KeptResult ==
  ASSUME PromiseOK, ResultOK, [Next]_vars, result' = result,
         \A t \in known' : status'[t] = "done" => t \in known /\ status[t] = "done",
         pc'["loop"] = "done" => pc["loop"] = "done" /\ cur' = cur /\ (cur \in known' => cur \in known)
  PROVE  ResultOK'
<1>1. \A t \in known' : t \in Tasks
  BY NextType DEF PromiseOK, SafetyOK, TypeOK, TasksTypeOK
<1>2. \A t \in known' : DoubleDispatched(t) => DoubleDispatched(t)'
  BY <1>1, StaysDouble DEF PromiseOK, SafetyOK
<1>3. DoneKeepsResult'
  BY <1>2 DEF ResultOK, DoneKeepsResult
<1>. QED
  BY <1>3 DEF ResultOK

LEMMA LoopResult ==
  ASSUME PromiseOK, SettledOK, ResultOK, LoopStep
  PROVE  ResultOK'
<1>. USE DEF PromiseOK, SafetyOK, Goto, Threads, history, table
<1>. pc \in [Threads -> MaxLabels \cup LoopLabels \cup DispatchLabels]
  BY DEF TypeOK
<1>0. [Next]_vars
  BY DEF Next
<1>1. /\ known \subseteq Tasks /\ status \in [Tasks -> Status] /\ "scheduler" \in Subscribers
      /\ result \in [Tasks -> {"none", "ok", "error"}]
  BY PlansAssumption DEF TypeOK, TasksTypeOK
<1>2. \A t \in known : DoubleDispatched(t) => DoubleDispatched(t)'
  BY <1>0, <1>1, StaysDouble
<1>3. CASE StoreResult
  <2>1. result' = IF cur \in known THEN [result EXCEPT ![cur] = "ok"] ELSE result
    BY <1>3 DEF StoreResult, SetResult
  <2>2. UNCHANGED <<known, status, cur>>
    BY <1>3 DEF StoreResult, SetResult
  <2>3. \A t \in known : result[t] = "ok" => result'[t] = "ok"
    BY <1>1, <2>1
  <2>4. DoneKeepsResult'
    BY <1>2, <2>2, <2>3 DEF ResultOK, DoneKeepsResult
  <2>. QED
    BY <1>1, <2>1, <2>2, <2>4 DEF ResultOK
<1>4. CASE StoreError
  <2>1. result' = IF cur \in known THEN [result EXCEPT ![cur] = "error"] ELSE result
    BY <1>4 DEF StoreError, SetResult
  <2>2. UNCHANGED <<known, status>> /\ pc["loop"] = "error" /\ pc'["loop"] # "done"
    BY <1>4 DEF StoreError, SetResult
  <2>3. cur \in known /\ status[cur] = "done" => DoubleDispatched(cur)
    <3>. SUFFICES ASSUME NEW t \in known, t = cur, status[t] = "done"
                  PROVE  DoubleDispatched(t)
      BY DEF DoubleDispatched
    <3>1. Holds("scheduler", 0, t)
      BY <2>2 DEF Holds, Hands, Moving, Handling
    <3>2. Held(t)
      BY <1>1, <3>1 DEF Held
    <3>. QED
      BY <3>2 DEF SettledOK, Settled
  <2>4. DoneKeepsResult'
    BY <1>1, <1>2, <2>1, <2>2, <2>3 DEF ResultOK, DoneKeepsResult
  <2>. QED
    BY <2>2, <2>4 DEF ResultOK
<1>5. CASE MarkDone
  <2>1. UNCHANGED <<known, result>> /\ pc["loop"] = "done" /\ pc'["loop"] # "done"
    BY <1>5 DEF MarkDone, Mark, Transition
  <2>2. \A t \in known : status'[t] = "done" => status[t] = "done" \/ t = cur
    BY <1>1, <1>5 DEF MarkDone, Mark, Transition
  <2>3. DoneKeepsResult'
    BY <1>2, <2>1, <2>2 DEF ResultOK, DoneKeepsResult
  <2>. QED
    BY <2>1, <2>3 DEF ResultOK
<1>6. CASE MarkRetry \/ MarkFailed
  <2>1. UNCHANGED <<known, result>> /\ pc'["loop"] # "done"
    BY <1>6 DEF MarkRetry, MarkFailed, Mark, Transition
  <2>2. \A t \in known : status'[t] = "done" => status[t] = "done"
    BY <1>1, <1>6 DEF MarkRetry, MarkFailed, Mark, Transition
  <2>. QED
    BY <1>0, <2>1, <2>2, KeptResult
<1>7. CASE DispatchReady("loop")
  <2>1. result' = result /\ pc'["loop"] # "done"
    BY <1>7 DEF DispatchReady, List, Inject, InjectArtifacts, MarkDispatched, MarkRunning, Assign,
                Transition, Home
  <2>. QED
    BY <1>0, <1>7, <2>1, DispatchEnds, KeptResult
<1>8. CASE LoopHears \/ CheckAllDone \/ TellAllDone \/ GetTask \/ CountRetry \/ Resend \/ Escalate
  <2>1. UNCHANGED <<known, status, result>> /\ pc'["loop"] # "done"
    BY <1>8 DEF LoopHears, LoopReceive, CheckAllDone, TellAllDone, GetTask, CountRetry, Resend, Escalate
  <2>. QED
    BY <1>0, <2>1, KeptResult
<1>. QED
  BY <1>3, <1>4, <1>5, <1>6, <1>7, <1>8 DEF LoopStep

LEMMA NextResult == PromiseOK /\ SettledOK /\ ResultOK /\ [Next]_vars => ResultOK'
<1>. SUFFICES ASSUME PromiseOK, SettledOK, ResultOK, [Next]_vars PROVE ResultOK'
  OBVIOUS
<1>. USE DEF PromiseOK, SafetyOK
<1>1. CASE UserTypes \/ UNCHANGED vars \/ \E a \in Coders : AgentStep(a)
  <2>1. UNCHANGED <<table, cur, pc>>
    BY <1>1 DEF UserTypes, AgentStep, AgentReceive, AgentFinish, vars, flow
  <2>. QED
    BY <2>1, KeptResult DEF table
<1>2. CASE MaxMove
  <2>1. result' = result
    BY <1>2 DEF MaxMove, MaxHearsInput, Reset, MaxHearsAllDone, MaxHearsOther, MaxReports, MaxAnswers,
         SubmitPlan, CreateTask, Create, PlanTask, ApproveTask, Transition, Validate,
         UserApproves, UserRejects, ApprovalTimeout, table, flow
  <2>. QED
    BY <1>2, <2>1, MaxFrame, MaxEnds, CurIsOld, KeptResult DEF Handling
<1>3. CASE DispatchReady("max")
  <2>1. result' = result /\ pc'["loop"] = pc["loop"]
    BY <1>3 DEF DispatchReady, List, Inject, InjectArtifacts, MarkDispatched, MarkRunning, Assign,
                Transition, Goto, table, Threads, TypeOK
  <2>. QED
    BY <1>3, <2>1, DispatchEnds, KeptResult DEF Threads
<1>. QED
  BY <1>1, <1>2, <1>3, LoopResult DEF Next, MaxStep, MaxMove

-----------------------------------------------------------------------------
(* What a task is given of the tasks before it. *)

Delivered(t) == \A d \in DependsOn[t] : artifacts[t][d] > 0 \/ DoubleDispatched(d)

\* Between the injection and the send nothing is taken back.
DeliveredOK ==
  \A th \in Threads : pc[th] \in {"dispatch", "run", "assign"} =>
    \A t \in ready[th] : t \in known /\ Least(t, ready[th]) => Delivered(t)

UpstreamOK == DeliveredOK /\ UpstreamDelivered

\* DependencyDone says that d is a task of the table.
LEMMA DepsAreTasks ==
  ASSUME PromiseOK, NEW t \in known, Going(t), NEW d \in DependsOn[t]
  PROVE  d \in known /\ d \in Tasks /\ status[d] = "done"
  BY DEF PromiseOK, SafetyOK, OrderOK, DependenciesFirst, DependencyDone, Going, TypeOK, TasksTypeOK

\* Artifacts are only added.
LEMMA ArtifactsGrow ==
  ASSUME PromiseOK, [Next]_vars, NEW t \in Tasks, NEW d \in Tasks
  PROVE  artifacts'[t][d] >= artifacts[t][d]
<1>. USE DEF PromiseOK, SafetyOK, table, flow, history
<1>. artifacts \in [Tasks -> [Tasks -> Nat]]
  BY DEF TypeOK, TasksTypeOK
<1>1. CASE artifacts' = artifacts
  BY <1>1
<1>2. CASE \E u \in Tasks : InjectArtifacts(u)
  BY <1>2 DEF InjectArtifacts
<1>3. CASE \E th \in Threads : DispatchReady(th)
  BY <1>1, <1>2, <1>3
  DEF DispatchReady, List, Inject, MarkDispatched, MarkRunning, Assign, Transition, TypeOK
<1>4. CASE MaxMove
  BY <1>1, <1>4
  DEF MaxMove, MaxHearsInput, Reset, MaxHearsAllDone, MaxHearsOther, MaxReports, MaxAnswers,
      SubmitPlan, CreateTask, Create, PlanTask, ApproveTask, Transition, Validate, UserApproves,
      UserRejects, ApprovalTimeout
<1>5. CASE LoopStep
  BY <1>1, <1>3, <1>5
  DEF LoopStep, LoopHears, LoopReceive, StoreResult, SetResult, MarkDone, CheckAllDone, TellAllDone,
      GetTask, StoreError, CountRetry, MarkRetry, MarkFailed, Escalate, Mark, Resend, Transition, Threads
<1>6. CASE UserTypes \/ UNCHANGED vars \/ \E a \in Coders : AgentStep(a)
  BY <1>1, <1>6 DEF UserTypes, AgentStep, AgentReceive, AgentFinish, vars
<1>. QED
  BY <1>3, <1>4, <1>5, <1>6 DEF Next, MaxStep, MaxMove, Threads

\* What going tasks were given, they keep.
LEMMA StaysDelivered ==
  ASSUME PromiseOK, [Next]_vars, NEW t \in known, Going(t), Delivered(t)
  PROVE  Delivered(t)'
<1>. SUFFICES ASSUME NEW d \in DependsOn[t]
              PROVE  artifacts'[t][d] > 0 \/ DoubleDispatched(d)'
  BY DEF Delivered
<1>. USE DEF PromiseOK, SafetyOK
<1>1. d \in Tasks /\ t \in Tasks /\ artifacts[t][d] \in Nat
  BY DepsAreTasks DEF TypeOK, TasksTypeOK
<1>2. artifacts'[t][d] >= artifacts[t][d] /\ artifacts'[t][d] \in Nat
  BY <1>1, ArtifactsGrow, NextType DEF TypeOK, TasksTypeOK
<1>3. artifacts[t][d] > 0 \/ DoubleDispatched(d)
  BY DEF Delivered
<1>. QED
  BY <1>1, <1>2, <1>3, StaysDouble

\* Steps that give no task to anybody.
LEMMA KeptUpstream ==
  ASSUME PromiseOK, UpstreamOK, [Next]_vars, UNCHANGED <<ready, assigns>>,
         \A t \in known' : Going(t) => t \in known,
         \A th \in Threads :
           pc'[th] \in {"dispatch", "run", "assign"} => pc[th] \in {"dispatch", "run", "assign"}
  PROVE  UpstreamOK'
<1>1. ASSUME NEW t \in known', Assigned(t)' PROVE Delivered(t)'
  BY <1>1, StaysDelivered DEF UpstreamOK, UpstreamDelivered, Delivered, Assigned, Going
<1>2. ASSUME NEW th \in Threads, pc'[th] \in {"dispatch", "run", "assign"}, NEW t \in ready[th],
             t \in known', Least(t, ready[th])
      PROVE  Delivered(t)'
  BY <1>2, StaysDelivered DEF UpstreamOK, DeliveredOK, Going
<1>. QED
  BY <1>1, <1>2 DEF UpstreamOK, DeliveredOK, UpstreamDelivered, Delivered, Least

\* Whoever injects finds the results of all dependencies in the table.
LEMMA InjectDelivers ==
  ASSUME PromiseOK, ResultOK, NEW t \in known, Going(t), InjectArtifacts(t), assigns' = assigns
  PROVE  Delivered(t)'
<1>. SUFFICES ASSUME NEW d \in DependsOn[t]
              PROVE  artifacts'[t][d] > 0 \/ DoubleDispatched(d)'
  BY DEF Delivered
<1>1. d \in known /\ d \in Tasks /\ status[d] = "done"
  BY DepsAreTasks
<1>2. result[d] = "ok" \/ DoubleDispatched(d)
  BY <1>1 DEF ResultOK, DoneKeepsResult
<1>3. t \in Tasks /\ artifacts \in [Tasks -> [Tasks -> Nat]]
  BY DEF PromiseOK, SafetyOK, TypeOK, TasksTypeOK
<1>4. result[d] = "ok" => artifacts'[t][d] = artifacts[t][d] + 1
  BY <1>1, <1>3 DEF InjectArtifacts
<1>. QED
  BY <1>1, <1>2, <1>3, <1>4 DEF DoubleDispatched

LEMMA DispatchUpstream ==
  ASSUME PromiseOK, ResultOK, UpstreamOK, NEW th \in Threads, DispatchReady(th)
  PROVE  UpstreamOK'
<1>. USE DEF PromiseOK, SafetyOK, Goto, history, table
<1>. /\ pc \in [Threads -> MaxLabels \cup LoopLabels \cup DispatchLabels]
     /\ ready \in [Threads -> SUBSET Tasks]
  BY DEF TypeOK
<1>0. /\ [Next]_vars /\ known' = known
      /\ \A u \in Threads \ {th} : pc'[u] = pc[u] /\ ready'[u] = ready[u]
  BY DispatchEnds DEF Next, MaxStep, LoopStep, Threads, DispatchReady, List, Inject, MarkDispatched,
     MarkRunning, Assign
<1>. DEFINE Sending(label) == label \in {"dispatch", "run", "assign"}
<1>1. ASSUME NEW u \in Threads, NEW t \in known, u # th \/ Sending(pc[th]), Sending(pc[u]), t \in ready[u],
             Least(t, ready[u])
      PROVE  Delivered(t)'
  BY <1>0, <1>1, StaysDelivered DEF UpstreamOK, DeliveredOK, Going
<1>2. ASSUME NEW t \in known, Assigned(t) PROVE Delivered(t)'
  BY <1>0, <1>2, StaysDelivered DEF UpstreamOK, UpstreamDelivered, Delivered, Going
<1>3. CASE List(th)
  <2>1. assigns' = assigns /\ ~Sending(pc'[th])
    BY <1>3 DEF List, Home
  <2>. QED
    BY <1>0, <1>1, <1>2, <2>1 DEF UpstreamOK, DeliveredOK, UpstreamDelivered, Assigned, Delivered
<1>4. CASE Inject(th)
  <2>. PICK t \in ready[th] : Least(t, ready[th]) /\ InjectArtifacts(t)
    BY <1>4 DEF Inject
  <2>1. ready' = ready /\ assigns' = assigns
    BY <1>4 DEF Inject
  <2>2. t \in known => Delivered(t)'
    BY <2>1, InjectDelivers DEF Going
  <2>3. \A u \in ready[th] : Least(u, ready[th]) => u = t
    BY TasksAssumption DEF Least
  <2>4. DeliveredOK'
    BY <1>0, <1>1, <2>1, <2>2, <2>3 DEF DeliveredOK, Least
  <2>. QED
    BY <1>0, <1>2, <2>1, <2>4 DEF UpstreamOK, UpstreamDelivered, Assigned, Delivered
<1>5. CASE MarkDispatched(th) \/ MarkRunning(th)
  <2>1. UNCHANGED <<ready, assigns>> /\ Sending(pc[th])
    BY <1>5 DEF MarkDispatched, MarkRunning
  <2>2. DeliveredOK'
    BY <1>0, <1>1, <2>1 DEF DeliveredOK, Least
  <2>. QED
    BY <1>0, <1>2, <2>1, <2>2 DEF UpstreamOK, UpstreamDelivered, Assigned, Delivered
<1>6. CASE Assign(th)
  <2>. PICK t \in ready[th] :
         /\ Least(t, ready[th])
         /\ SendAssign(t, th)
         /\ Goto(th, IF ready[th] = {t} THEN Home(th) ELSE "inject")
    BY <1>6 DEF Assign
  <2>1. pc[th] = "assign" /\ ~Sending(pc'[th])
    BY <1>6 DEF Assign, Home
  <2>2. t \in known => Delivered(t)'
    BY <1>1, <2>1
  <2>3. \A u \in Tasks : Assigned(u)' => Assigned(u) \/ u = t
    BY DEF SendAssign, Assigned, Sources, TypeOK
  <2>4. DeliveredOK'
    BY <1>0, <1>1, <2>1 DEF DeliveredOK
  <2>. QED
    BY <1>0, <1>2, <2>2, <2>3, <2>4 DEF UpstreamOK, UpstreamDelivered, Delivered, TypeOK, TasksTypeOK
<1>. QED
  BY <1>3, <1>4, <1>5, <1>6 DEF DispatchReady

LEMMA NextUpstream == PromiseOK /\ ResultOK /\ UpstreamOK /\ [Next]_vars => UpstreamOK'
<1>. SUFFICES ASSUME PromiseOK, ResultOK, UpstreamOK, [Next]_vars PROVE UpstreamOK'
  OBVIOUS
<1>. USE DEF PromiseOK, SafetyOK, Goto, Threads, history, flow, table
<1>. pc \in [Threads -> MaxLabels \cup LoopLabels \cup DispatchLabels]
  BY DEF TypeOK
<1>1. CASE UserTypes \/ UNCHANGED vars \/ \E a \in Coders : AgentStep(a)
  <2>1. UNCHANGED <<known, pc, ready, assigns>>
    BY <1>1 DEF UserTypes, AgentStep, AgentReceive, AgentFinish, vars
  <2>. QED
    BY <2>1, KeptUpstream
<1>2. CASE MaxMove
  <2>1. \A th \in Threads :
          pc'[th] \in {"dispatch", "run", "assign"} => pc[th] \in {"dispatch", "run", "assign"}
    BY <1>2
    DEF MaxMove, MaxHearsInput, MaxHearsAllDone, MaxHearsOther, MaxReports, MaxAnswers,
        SubmitPlan, CreateTask, PlanTask, ApproveTask, NextOf, Validate, UserApproves, UserRejects,
        ApprovalTimeout
  <2>2. ASSUME NEW u \in Tasks, CreateTask(u) PROVE ~Going(u)
    BY <2>2, GoingApproved DEF CreateTask, NextOf, Least, OrderOK, FreshOK, TypeOK
  <2>3. known' \subseteq known \/ \E u \in Tasks : CreateTask(u)
    BY <1>2 DEF MaxMove, MaxHearsInput, Reset, MaxHearsAllDone, MaxHearsOther, MaxReports, MaxAnswers,
           SubmitPlan, PlanTask, ApproveTask, Transition, Validate, UserApproves, UserRejects,
           ApprovalTimeout
  <2>4. \A t \in known' : Going(t) => t \in known
    BY <2>2, <2>3 DEF CreateTask, Create
  <2>. QED
    BY <1>2, <2>1, <2>4, MaxFrame, KeptUpstream
<1>3. CASE \E th \in Threads : DispatchReady(th)
  BY <1>3, DispatchUpstream
<1>4. CASE Resend
  <2>1. \A u \in Tasks : Assigned(u)' => Assigned(u)
    <3>1. cur \in Tasks /\ Assigned(cur)
      BY <1>4 DEF Resend, LoopOK, Handling, FlightOK, InFlight
    <3>2. assigns' = [assigns EXCEPT ![cur]["retry"] = @ + 1]
      BY <1>4 DEF Resend, SendAssign
    <3>. QED
      BY <3>1, <3>2 DEF Assigned, Sources, TypeOK
  <2>2. /\ UNCHANGED <<known, ready>>
        /\ \A th \in Threads : pc'[th] \in {"dispatch", "run", "assign"} => pc[th] = pc'[th]
    BY <1>4 DEF Resend
  <2>3. \A t \in known : Going(t) /\ Delivered(t) => Delivered(t)'
    BY StaysDelivered
  <2>4. known \subseteq Tasks
    BY DEF TypeOK, TasksTypeOK
  <2>. QED
    BY <2>1, <2>2, <2>3, <2>4 DEF UpstreamOK, DeliveredOK, UpstreamDelivered, Delivered, Going, Least
<1>5. CASE LoopStep
  <2>1. CASE UNCHANGED <<known, ready, assigns>> /\ pc'["loop"] \notin {"dispatch", "run", "assign"}
             /\ pc'["max"] = pc["max"]
    BY <2>1, KeptUpstream
  <2>. QED
    BY <1>3, <1>4, <1>5, <2>1
    DEF LoopStep, LoopHears, LoopReceive, StoreResult, SetResult, MarkDone, CheckAllDone, TellAllDone,
        GetTask, StoreError, CountRetry, MarkRetry, MarkFailed, Escalate, Mark, Transition
<1>. QED
  BY <1>1, <1>2, <1>3, <1>5 DEF Next, MaxStep, MaxMove

-----------------------------------------------------------------------------
(* What Max reports. *)

\* t has ended, unless its other thread has sent it or will send it again.
Finished(t) ==
  \/ status[t] \in {"done", "failed"} /\ t \notin ready["loop"] /\ ~Held(t)
  \/ DoubleDispatched(t)
  \/ t \in ready["max"] /\ assigns[t]["loop"] > 0

FinishedOK == concluded # {} /\ known = concluded => \A t \in known : Finished(t)

\* The loop found a table all done before anybody hears of it.
ConcludedOK ==
  /\ \A t \in concluded : Assigned(t)
  /\ \/ pc["loop"] = "alldone"
     \/ InInbox("max", Message("alldone", NoTask))
     \/ pc["max"] = "report"
     => concluded # {}

LEMMA StaysAssigned ==
  ASSUME TypeOK, LoopOK, [Next]_vars, NEW t \in Tasks, Assigned(t)
  PROVE  Assigned(t)'
<1>. PICK s \in Sources : assigns[t][s] > 0
  BY DEF Assigned
<1>1. assigns'[t][s] >= assigns[t][s]
  BY AssignsGrow
<1>2. TypeOK'
  BY NextType
<1>3. assigns[t][s] \in Nat /\ assigns'[t][s] \in Nat
  BY <1>2 DEF TypeOK
<1>. QED
  BY <1>1, <1>3 DEF Assigned

\* Only the loop says that all are done.
LEMMA AllDoneSaid ==
  ASSUME TypeOK, [Next]_vars, InInbox("max", Message("alldone", NoTask))'
  PROVE  InInbox("max", Message("alldone", NoTask)) \/ pc["loop"] = "alldone"
<1>. USE DEF history, table, flow
<1>0. InboxOK /\ "max" \in Subscribers /\ "scheduler" \in Subscribers
  BY PlansAssumption DEF TypeOK, InboxOK
<1>1. CASE inbox' = inbox
  BY <1>1 DEF InInbox
<1>2. ASSUME NEW to, NEW type, NEW u, Send(to, Message(type, u)), type # "alldone"
      PROVE  InInbox("max", Message("alldone", NoTask))
  BY <1>0, <1>2, SendInbox DEF Message
<1>3. ASSUME NEW name \in Subscribers, NEW msg, Receive(name, msg)
      PROVE  InInbox("max", Message("alldone", NoTask))
  BY <1>0, <1>3, ReceiveInbox
<1>4. CASE UserTypes \/ UNCHANGED vars \/ \E a \in Coders : AgentStep(a)
  BY <1>1, <1>2, <1>3, <1>4
  DEF UserTypes, vars, AgentStep, AgentReceive, AgentFinish, Coders
<1>5. CASE \E th \in Threads : DispatchReady(th)
  BY <1>1, <1>2, <1>5
  DEF DispatchReady, List, Inject, MarkDispatched, MarkRunning, Assign, SendAssign
<1>6. CASE MaxMove
  <2>1. CASE MaxHearsInput \/ MaxHearsAllDone \/ MaxHearsOther
    BY <1>0, <1>3, <2>1 DEF MaxHearsInput, MaxHearsAllDone, MaxHearsOther
  <2>2. CASE UserApproves \/ UserRejects
    BY <1>2, <2>2 DEF UserApproves, UserRejects
  <2>. QED
    BY <1>1, <1>6, <2>1, <2>2
    DEF MaxMove, MaxReports, MaxAnswers, SubmitPlan, CreateTask, PlanTask, ApproveTask, Validate,
        ApprovalTimeout
<1>7. CASE LoopStep
  <2>1. CASE LoopHears
    BY <1>0, <1>3, <2>1 DEF LoopHears, LoopReceive
  <2>2. CASE Resend \/ Escalate
    BY <1>2, <2>2 DEF Resend, SendAssign, Escalate, TellMax
  <2>. QED
    BY <1>1, <1>5, <1>7, <2>1, <2>2
    DEF LoopStep, StoreResult, MarkDone, CheckAllDone, TellAllDone, GetTask, StoreError, CountRetry,
        MarkRetry, MarkFailed, Mark, Threads
<1>. QED
  BY <1>4, <1>5, <1>6, <1>7 DEF Next, MaxStep, MaxMove, Threads

\* Who starts telling it, and who hears of it.
LEMMA AllDoneHeard ==
  ASSUME TypeOK, [Next]_vars
  PROVE  /\ pc'["loop"] = "alldone" => pc["loop"] = "alldone" \/ (CheckAllDone /\ AllDone)
         /\ pc'["max"] = "report" =>
              pc["max"] = "report" \/ InInbox("max", Message("alldone", NoTask))
         /\ concluded' = concluded \/ (CheckAllDone /\ AllDone /\ concluded' = known)
<1>. USE DEF Goto, Threads, Home, history, flow
<1>. pc \in [Threads -> MaxLabels \cup LoopLabels \cup DispatchLabels] /\ InboxOK
  BY DEF TypeOK, InboxOK
<1>1. CASE UserTypes \/ UNCHANGED vars \/ \E a \in Coders : AgentStep(a)
  BY <1>1 DEF UserTypes, vars, AgentStep, AgentReceive, AgentFinish
<1>2. CASE \E th \in Threads : DispatchReady(th)
  BY <1>2 DEF DispatchReady, List, Inject, MarkDispatched, MarkRunning, Assign
<1>3. CASE MaxHearsAllDone
  BY <1>3, ReceiveInbox, PlansAssumption DEF MaxHearsAllDone
<1>4. CASE MaxMove
  BY <1>3, <1>4
  DEF MaxMove, MaxHearsInput, MaxHearsOther, MaxReports, MaxAnswers, SubmitPlan, CreateTask,
      PlanTask, ApproveTask, NextOf, Validate, UserApproves, UserRejects, ApprovalTimeout
<1>5. CASE CheckAllDone
  BY <1>5 DEF CheckAllDone
<1>6. CASE LoopStep
  BY <1>2, <1>5, <1>6
  DEF LoopStep, LoopHears, LoopReceive, StoreResult, MarkDone, TellAllDone, GetTask,
      StoreError, CountRetry, MarkRetry, MarkFailed, Mark, Resend, Escalate
<1>. QED
  BY <1>1, <1>2, <1>4, <1>6 DEF Next, MaxStep, MaxMove

LEMMA NextConcluded == PromiseOK /\ ConcludedOK /\ [Next]_vars => ConcludedOK'
<1>. SUFFICES ASSUME PromiseOK, ConcludedOK, [Next]_vars PROVE ConcludedOK'
  OBVIOUS
<1>. USE DEF PromiseOK, SafetyOK
<1>1. AllDone => known # {} /\ \A t \in known : Assigned(t)
  BY DEF AllDone, LifecycleOK, TableOK, EndedOK, TypeOK, TasksTypeOK
<1>2. concluded' # {} \/ concluded' = concluded
  BY <1>1, AllDoneHeard
<1>3. \A t \in concluded' : Assigned(t)
  BY <1>1, AllDoneHeard DEF ConcludedOK
<1>4. concluded' \subseteq Tasks
  BY NextType DEF TypeOK
<1>5. \A t \in concluded' : Assigned(t)'
  BY <1>3, <1>4, StaysAssigned
<1>6. \/ pc'["loop"] = "alldone"
      \/ InInbox("max", Message("alldone", NoTask))'
      \/ pc'["max"] = "report"
      => concluded' # {}
  <2>1. CASE CheckAllDone /\ AllDone
    BY <1>1, <2>1 DEF CheckAllDone
  <2>2. CASE ~(CheckAllDone /\ AllDone)
    <3>1. pc'["loop"] = "alldone" => pc["loop"] = "alldone"
      BY <2>2, AllDoneHeard
    <3>2. pc'["max"] = "report" => pc["max"] = "report" \/ InInbox("max", Message("alldone", NoTask))
      BY AllDoneHeard
    <3>. QED
      BY <1>2, <3>1, <3>2, AllDoneSaid DEF ConcludedOK
  <2>. QED
    BY <2>1, <2>2
<1>. QED
  BY <1>5, <1>6 DEF ConcludedOK

\* Nobody moves a task that has ended and that nobody works on or lists.
LEMMA EndedStays ==
  ASSUME PromiseOK, [Next]_vars, NEW t \in known, status[t] \in {"done", "failed"}, ~Held(t),
         \A th \in Threads : t \notin ready[th]
  PROVE  status'[t] = status[t] /\ \A th \in Threads : t \notin ready'[th]
<1>. USE DEF PromiseOK, SafetyOK, table, flow, history
<1>0. /\ t \in Tasks /\ status \in [Tasks -> Status] /\ ready \in [Threads -> SUBSET Tasks]
      /\ "scheduler" \in Subscribers
  BY PlansAssumption DEF TypeOK, TasksTypeOK
<1>1. CASE UNCHANGED <<status, ready>>
  BY <1>1
<1>2. CASE UserTypes \/ UNCHANGED vars \/ \E a \in Coders : AgentStep(a)
  BY <1>1, <1>2 DEF UserTypes, vars, AgentStep, AgentReceive, AgentFinish
<1>3. CASE \E th \in Threads : DispatchReady(th)
  <2>. PICK th \in Threads : DispatchReady(th)
    BY <1>3
  <2>1. CASE List(th)
    BY <1>0, <2>1 DEF List, ReadyToDispatch
  <2>2. CASE Inject(th) \/ MarkDispatched(th) \/ MarkRunning(th) \/ Assign(th)
    BY <1>0, <2>2 DEF Inject, InjectArtifacts, MarkDispatched, MarkRunning, Assign, Transition
  <2>. QED
    BY <2>1, <2>2 DEF DispatchReady
<1>4. CASE MaxMove
  <2>1. ASSUME NEW u \in Tasks, CreateTask(u) PROVE status'[t] = status[t]
    <3>1. t # u
      BY <1>0, <2>1, GoingApproved
      DEF CreateTask, NextOf, Least, OrderOK, FreshOK, Going, Started, TypeOK
    <3>. QED
      BY <1>0, <2>1, <3>1 DEF CreateTask, Create
  <2>2. ASSUME NEW u \in Tasks, PlanTask(u) \/ ApproveTask(u) PROVE status'[t] = status[t]
    BY <1>0, <2>2 DEF PlanTask, ApproveTask, Transition, CanTransitionTo, validTransitions
  <2>3. status'[t] = status[t]
    BY <1>4, <2>1, <2>2
    DEF MaxMove, MaxHearsInput, Reset, MaxHearsAllDone, MaxHearsOther, MaxReports, MaxAnswers,
        SubmitPlan, Validate, UserApproves, UserRejects, ApprovalTimeout
  <2>. QED
    BY <1>4, <2>3, MaxFrame
<1>5. CASE LoopStep
  <2>1. pc["loop"] \in Moving => t # cur
    BY <1>0 DEF Held, Holds, Hands
  <2>2. ASSUME NEW here \in Moving, NEW to, NEW next, Mark(here, to, next) PROVE status'[t] = status[t]
    BY <1>0, <2>1, <2>2 DEF Mark, Transition
  <2>3. CASE MarkDone \/ MarkRetry \/ MarkFailed
    <3>1. ready' = ready
      BY <2>3 DEF MarkDone, MarkRetry, MarkFailed, Mark
    <3>. QED
      BY <2>2, <2>3, <3>1 DEF MarkDone, MarkRetry, MarkFailed, Moving, Handling
  <2>. QED
    BY <1>1, <1>3, <1>5, <2>3
    DEF LoopStep, LoopHears, LoopReceive, StoreResult, SetResult, CheckAllDone, TellAllDone, GetTask,
        StoreError, CountRetry, Resend, Escalate, Threads
<1>. QED
  BY <1>2, <1>3, <1>4, <1>5 DEF Next, MaxStep, MaxMove, Threads

\* The loop sends once: what Max still lists when it has ended, the loop sent.
LEMMA EndedListed ==
  ASSUME PromiseOK, NEW t \in Tasks, status[t] \in {"done", "failed"}, t \in ready["max"]
  PROVE  assigns[t]["loop"] > 0
<1>. USE DEF PromiseOK, LifecycleOK, TableOK
<1>1. Assigned(t) /\ assigns[t]["max"] = 0
  BY DEF EndedOK, ListedOK, Threads
<1>2. \E th \in Threads : assigns[t][th] > 0
  BY <1>1 DEF AssignedOK
<1>. QED
  BY <1>1, <1>2 DEF Threads

\* Only Assign takes a task off a list.
LEMMA StaysListed ==
  ASSUME TypeOK, LoopOK, ListOK, [Next]_vars, NEW t \in ready["max"], assigns[t]["loop"] > 0
  PROVE  (t \in ready'["max"] /\ assigns'[t]["loop"] > 0) \/ DoubleDispatched(t)'
<1>. USE DEF table, flow, history
<1>0. /\ t \in Tasks /\ assigns \in [Tasks -> [Sources -> Nat]]
      /\ ready \in [Threads -> SUBSET Tasks]
  BY DEF TypeOK, Threads
<1>1. assigns'[t]["loop"] > 0
  <2>1. TypeOK'
    BY NextType
  <2>. QED
    BY <1>0, <2>1, AssignsGrow DEF TypeOK, Sources, Threads
<1>2. CASE ready'["max"] = ready["max"]
  BY <1>1, <1>2
<1>3. CASE DispatchReady("max")
  <2>1. ~List("max")
    BY DEF List, ListOK, Threads
  <2>2. CASE Assign("max")
    <3>. PICK u \in ready["max"] :
           /\ SendAssign(u, "max")
           /\ ready' = [ready EXCEPT !["max"] = @ \ {u}]
      BY <2>2 DEF Assign
    <3>1. CASE u = t
      <4>1. assigns'[t]["max"] > 0
        BY <1>0, <3>1 DEF SendAssign, Sources, Threads
      <4>. QED
        BY <1>1, <4>1 DEF DoubleDispatched, Threads
    <3>2. CASE u # t
      BY <1>0, <1>1, <3>2 DEF Threads
    <3>. QED
      BY <3>1, <3>2
  <2>. QED
    BY <1>2, <1>3, <2>1, <2>2 DEF DispatchReady, Inject, MarkDispatched, MarkRunning
<1>4. CASE DispatchReady("loop")
  BY <1>0, <1>2, <1>4 DEF DispatchReady, List, Inject, MarkDispatched, MarkRunning, Assign, Threads
<1>5. CASE MaxMove
  BY <1>2, <1>5, MaxFrame
<1>6. CASE LoopStep
  BY <1>2, <1>4, <1>6
  DEF LoopStep, LoopHears, LoopReceive, StoreResult, MarkDone, CheckAllDone, TellAllDone, GetTask,
      StoreError, CountRetry, MarkRetry, MarkFailed, Mark, Resend, Escalate
<1>7. CASE UserTypes \/ UNCHANGED vars \/ \E a \in Coders : AgentStep(a)
  BY <1>2, <1>7 DEF UserTypes, vars, AgentStep, AgentReceive, AgentFinish
<1>. QED
  BY <1>3, <1>5, <1>6, <1>7 DEF Next, MaxStep, MaxMove

LEMMA StaysFinished ==
  ASSUME PromiseOK, ListOK, [Next]_vars, NEW t \in known, Finished(t)
  PROVE  Finished(t)'
<1>. USE DEF PromiseOK, SafetyOK
<1>0. t \in Tasks
  BY DEF TypeOK, TasksTypeOK
<1>1. CASE DoubleDispatched(t)
  BY <1>0, <1>1, StaysDouble DEF Finished
<1>2. CASE t \in ready["max"] /\ assigns[t]["loop"] > 0
  BY <1>2, StaysListed DEF Finished
<1>3. CASE status[t] \in {"done", "failed"} /\ t \notin ready["loop"] /\ ~Held(t) /\ t \notin ready["max"]
  <2>1. status'[t] = status[t] /\ \A th \in Threads : t \notin ready[th] /\ t \notin ready'[th]
    BY <1>3, EndedStays DEF Threads
  <2>2. ~Held(t)'
    BY <1>0, <1>3, <2>1, NextPlaces DEF KeepsPlace, FirstPlace
  <2>. QED
    BY <1>3, <2>1, <2>2 DEF Finished, Threads
<1>. QED
  BY <1>0, <1>1, <1>2, <1>3, EndedListed DEF Finished

\* What the loop finds all done has ended.
LEMMA AllDoneFinished ==
  ASSUME PromiseOK, ListOK, SettledOK, CheckAllDone, AllDone, NEW t \in known
  PROVE  Finished(t)'
<1>. USE DEF PromiseOK, SafetyOK
<1>1. /\ t \in Tasks /\ status[t] \in {"done", "failed"} /\ pc["loop"] = "check"
      /\ UNCHANGED <<status, ready, inbox, busy, cur, assigns>>
  BY DEF AllDone, CheckAllDone, TypeOK, TasksTypeOK, table, history
<1>2. t \notin ready["loop"]
  BY <1>1 DEF ListOK, Threads
<1>3. DoubleDispatched(t) \/ ~Held(t)
  BY <1>1 DEF SettledOK, Settled
<1>4. Held(t)' => Held(t)
  <2>1. LoopStep /\ ~DispatchReady("loop")
    BY <1>1 DEF LoopStep, DispatchReady, List, Inject, MarkDispatched, MarkRunning, Assign
  <2>. QED
    BY <1>1, <2>1, LoopPlaces DEF KeepsPlace
<1>. QED
  BY <1>1, <1>2, <1>3, <1>4 DEF Finished, DoubleDispatched

LEMMA NextFinished ==
  PromiseOK /\ ListOK /\ SettledOK /\ ConcludedOK /\ FinishedOK /\ [Next]_vars => FinishedOK'
<1>. SUFFICES ASSUME PromiseOK, ListOK, SettledOK, ConcludedOK, FinishedOK, [Next]_vars,
                     concluded' # {}, known' = concluded', NEW t \in known'
              PROVE  Finished(t)'
  BY DEF FinishedOK
<1>. USE DEF PromiseOK, SafetyOK
<1>1. CASE CheckAllDone /\ AllDone
  BY <1>1, AllDoneFinished DEF CheckAllDone, table
<1>2. CASE concluded' = concluded
  <2>1. ASSUME NEW u \in Tasks, CreateTask(u) PROVE FALSE
    <3>1. u \in known'
      BY <2>1 DEF CreateTask, Create
    <3>2. Assigned(u)
      BY <1>2, <3>1 DEF ConcludedOK
    <3>. QED
      BY <2>1, <3>2, GoingApproved DEF CreateTask, NextOf, Least, OrderOK, FreshOK, Going, TypeOK
  <2>2. known' = known \/ known' = {}
    <3>1. CASE MaxMove
      BY <2>1, <3>1
      DEF MaxMove, MaxHearsInput, Reset, MaxHearsAllDone, MaxHearsOther, MaxReports, MaxAnswers,
          SubmitPlan, PlanTask, ApproveTask, Transition, Validate, UserApproves, UserRejects,
          ApprovalTimeout, table, flow
    <3>2. CASE LoopStep
      BY <3>2, DispatchEnds
      DEF LoopStep, LoopHears, LoopReceive, StoreResult, SetResult, MarkDone, CheckAllDone, TellAllDone,
          GetTask, StoreError, CountRetry, MarkRetry, MarkFailed, Mark, Transition, Resend, Escalate,
          table, Threads
    <3>3. CASE UserTypes \/ UNCHANGED vars \/ \E a \in Coders : AgentStep(a)
      BY <3>3 DEF UserTypes, vars, AgentStep, AgentReceive, AgentFinish, table
    <3>. QED
      BY <3>1, <3>2, <3>3, DispatchEnds DEF Next, MaxStep, MaxMove, Threads
  <2>. QED
    BY <1>2, <2>2, StaysFinished DEF FinishedOK
<1>. QED
  BY <1>1, <1>2, AllDoneHeard

-----------------------------------------------------------------------------
(* Together. *)

ResultsOK ==
  /\ PromiseOK /\ OwnerOK
  /\ PlaceOK /\ SettledOK
  /\ ResultOK /\ UpstreamOK
  /\ ConcludedOK /\ FinishedOK

LEMMA InitResults == Init => ResultsOK
<1>. SUFFICES ASSUME Init PROVE ResultsOK
  OBVIOUS
<1>1. \A t \in Tasks : ~Held(t)
  <2>1. \A n \in Subscribers, t \in Tasks : ~Hands(n, t)
    BY TasksAssumption DEF Init, Hands, Home, Threads, Moving, Handling
  <2>2. \A n \in Subscribers : 1..Len(inbox[n]) = {}
    BY DEF Init, BusInit
  <2>. QED
    BY <2>1, <2>2 DEF Held, Holds
<1>2. PlaceOK /\ SettledOK
  BY <1>1 DEF Init, TasksInit, PlaceOK, SettledOK, OnePlace, Held
<1>3. ResultOK /\ UpstreamOK /\ ConcludedOK /\ FinishedOK
  BY DEF Init, TasksInit, BusInit, ResultOK, DoneKeepsResult, UpstreamOK, DeliveredOK,
         UpstreamDelivered, ConcludedOK, FinishedOK, InInbox, Home, Threads
<1>. QED
  BY <1>2, <1>3, InitPromise, InitOwner DEF ResultsOK

LEMMA NextResults == ResultsOK /\ [Next]_vars => ResultsOK'
  BY NextPromise, NextOwner, NextPlace, NextSettled, NextResult, NextUpstream, NextConcluded, NextFinished
  DEF ResultsOK, PromiseOK, SafetyOK, OwnerOK

LEMMA ReportTrue ==
  ASSUME ResultsOK
  PROVE  ReportIsTrue
<1>. SUFFICES ASSUME pc["max"] = "report", known = concluded,
                     \A t \in known : ~DoubleDispatched(t)
              PROVE  AllDone
  BY DEF ReportIsTrue
<1>1. known # {} /\ \A t \in known : Finished(t)
  BY DEF ResultsOK, ConcludedOK, FinishedOK
<1>2. ready["max"] = {}
  BY DEF ResultsOK, OwnerOK, ListOK, Threads
<1>. QED
  BY <1>1, <1>2 DEF Finished, AllDone

\* A result that reached the table is not lost: no late error, second outcome or
\* retry overwrites the success of a task that one thread dispatched, although
\* SetResult asks nothing of the status and comes before the transition that is
\* refused (handleTaskResult and handleTaskFailed).
THEOREM ResultsStay == Spec => []DoneKeepsResult
<1>1. ResultsOK => DoneKeepsResult
  BY DEF ResultsOK, ResultOK
<1>. QED
  BY <1>1, InitResults, NextResults, PTL DEF Spec

\* An agent that gets a task gets with it what the tasks before it produced: the
\* artifacts are injected into the table's own task after the list was read and
\* before the send, and nothing that Max does to the table in between lets a task
\* of the table go out without them (dispatchReady and InjectArtifacts).
THEOREM ArtifactsArrive == Spec => []UpstreamDelivered
<1>1. ResultsOK => UpstreamDelivered
  BY DEF ResultsOK, UpstreamOK
<1>. QED
  BY <1>1, InitResults, NextResults, PTL DEF Spec

\* What Max tells the user is so when he tells it: the message waited in his inbox
\* and the table is read anew, but a table found all done stays so unless it is
\* replaced or a task of it was dispatched by both threads (AllDone in
\* handleTaskResult, handleAllDone in max.go).
THEOREM ReportsTrue == Spec => []ReportIsTrue
  BY ReportTrue, InitResults, NextResults, PTL DEF Spec
=============================================================================
