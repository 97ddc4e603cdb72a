# Verification of max-team

max-team is a terminal and web program in which one agent, Max, splits a
request into tasks, asks the user to approve them, and has coder agents carry
them out. These TLA+ modules model the goroutines of the Go program, the table
and the channels they share, and the algorithms they use. TLC checks them on
small instances, and TLAPS proves the most important properties for every value
of the constants.

Sources are under `src/`; the module map is in `PROJECT.json` ("map").

## 1. Inventory of the system

| Component | State | Operations | Interacts with | Hard behaviour | Correct when |
|---|---|---|---|---|---|
| Task table, `internal/task` | tasks by ID, their order; status, result, artifacts, retries of each | Create, Transition, SetResult, ReadyToDispatch, InjectArtifacts, AllDone, Reset | Max and the scheduler loop write it, web handlers read it | pointers leave the lock; a refused transition returns an error that all callers ignore | statuses follow the state machine whatever the interleaving |
| Message bus, `internal/bus` | one channel of 32 per subscriber; reply channels by message ID; observers | Subscribe, Send, SendAndWait | everybody | full or missing channels drop silently; an answer may cross a timeout | answers reach the request they were given to; nothing is left in `pending` |
| Scheduler, `internal/scheduler` | none of its own | SubmitPlan, Run, dispatchReady, handleTaskResult, handleTaskFailed | called by Max; receives results; sends assignments and verdicts | dispatchReady runs in two goroutines | approval before execution, dependencies before dependents, bounded retries, every failure told |
| validateDAG | local | Kahn's algorithm over lists that may hold duplicates and unknown IDs | called by SubmitPlan | duplicates, self-dependency, empty ID | accepts exactly the closed acyclic plans |
| Approval gate, `internal/gate` | none | RequestApproval | bus; terminal and browsers answer | several humans, timeouts | outcome is an answer to that request or a timeout |
| Max, `internal/agent/max.go` | history | handleUserInput, handleAllDone, handleTaskFailed, handleClarify, parseTasks | terminal, scheduler | resets the table while tasks run; reports late | every handler ends in a reply; plans keep their dependencies |
| Coder agents, `internal/agent/leo.go` | history, emptied for each task | handleTask | scheduler, tools | one task at a time | each assignment has one outcome |
| Agent base and router, `internal/agent/agent.go`, `internal/llm` | history of 20 entries; loop counters | RunLLM, RunToolLoop, chatWithRetry, NewRouter, getProvider | providers, tools | nested loops with bounds, errors half-way | bounded requests, well-formed conversations |
| Runtime and terminal, `internal/runtime` | state, pendingMsg, the input channel | runCLI, handleInput, handleMessage, Start, Stop | Max through the bus; signal handler | stale messages; end of input; Stop while Max waits | the user can always answer, is never left waiting, and can leave |
| Web hub, `internal/web/ws.go` | clients, send channels, broadcast channel | Run, BroadcastMessage, readPump, writePump, Stop | observers of the bus, browsers | several goroutines unregister one client; slow clients | channels are closed once; dead and slow clients go |
| Web handlers, `internal/web` | none | handleChat, handleApproval, reads | bus, task table | unlocked reads | (reads) |
| Configuration, `internal/config`, `cmd/max-team` | settings | load, migrate, override | router | map iteration | flags take precedence |
| Tools, `internal/tool` | files, the git index and commits, one directory for all agents | write_file, git_commit; reads | agents, through RunToolLoop | two commands or two system calls per tool, nothing held between them | what is reported as committed is; a task's diff shows its work |
| MCP client, `internal/mcp` | a process, two pipes, `nextID`, a mutex | NewClient, call, CallTool, Close | agents, through MCPTool | the server may be silent, talk unasked or die | answers reach their calls; every call of a dead server comes back |
| Audit log, page | a file; a page | appends; presentation | all components write to the log | I/O | see section 7 |

Max's goroutine, the scheduler loop, one goroutine per coder, the terminal (or
one goroutine per HTTP request) and the hub run concurrently. They share the
task table under its lock and otherwise meet in the bus. `SubmitPlan` runs in
Max's goroutine, so Max waits there for the user, up to five minutes, and then
dispatches, while the loop may dispatch too. The coders work in one directory.

## 2. Modules

| Module | Models | State and actions |
|---|---|---|
| `TaskManager` | `task/task.go`, `task/manager.go` | one operator per critical section of `Manager.mu` (`Create`, `Transition`, `SetResult`, `InjectArtifacts`, `Reset`; reads `ReadyToDispatch`, `AllDone`). `known` is the table; the fields of tasks live on after `Reset`, as the Go objects do |
| `MessageBus` | delivery in `bus/bus.go` | `inbox`; `Send` drops when `Accepts` is false; `Receive` |
| `PlanGraph` | what validateDAG means by a valid plan | `Closed`, `Acyclic`, `ValidPlan`: no algorithm |
| `PlanLifecycle` | abstract specification of what the scheduler promises about tasks | `Agree`, `Try`, `Finish`, `GiveUp`, `Replace`: no table, threads or inboxes |
| `Scheduler` | Max, `SubmitPlan`, `Scheduler.Run`, the coders | extends `TaskManager`, `MessageBus` and `PlanGraph`, implements `PlanLifecycle`. `pc` has one label per critical section or send, so every interleaving the locks allow is a behaviour. `DispatchReady(th)` is shared by both threads |
| `ValidateDAG` | `scheduler/dag.go` | one step per turn of the queue's loop |
| `PlanParsing` | `parseTasks`, `Create`, `validateDAG` in sequence | positions become IDs, then IDs are given out |
| `HumanDecision` | abstract specification of the gate | `Say`, `Decide` |
| `ApprovalGate` | `RequestApproval`, `SendAndWait`, the reply half of `Send` | the waiter and any number of humans, one step per lock or channel operation; implements `HumanDecision` |
| `Dialogue` | `runtime.go`, Max's handlers as the terminal sees them, `main`'s signal handler | `cli` is `Runtime.state`; `max` is where Max's goroutine is; the loop's verdicts are an environment |
| `Hub` | `web/ws.go` | Run's four cases, the pumps and the goroutines for slow clients |
| `ToolLoop` | `RunLLM`, `RunToolLoop`, `chatWithRetry` | loop counters; the conversation as roles, the IDs of tool calls and results; `todo` are the calls still to run, `results` what those that ran left, appended one by one as in `router.go:126` |
| `LLMSetup` | configuration, flags, `NewRouter`, `getProvider` | settings as records; "first entry of a map" is any entry; `Names` is what a file may call a provider, `Clients` the two names `NewRouter` knows |
| `MCPClient` | `mcp/client.go` | `step` is where each caller stands in `call`; the server is an environment that answers in order, speaks unasked or dies |
| `WorkTree` | the directory and its git repository, as write_file, git_commit and collectDiff use them | `tree`, `index`, `head`: the text of each file on disk, staged and committed; `Truncate` and `Write` are the two halves of `os.WriteFile`, `CutShort` its failure |
| `Toolbox` | `handleTask` of several coders with their tools: `leo.go`, `tool/file.go`, `tool/git.go`, `MCPTool` | extends the two above; one step per system call or git command |
| `SchedulerProofs`, `ValidateDAGProofs`, `ApprovalGateProofs`, `DialogueProofs`, `HubProofs`, `ToolLoopProofs`, `LLMSetupProofs`, `ToolboxProofs` | | theorems and their proofs, one module for each component |
| `MCScheduler*`, `MCToolbox` | | instances for TLC |

Operators with a suffix (`MayRetry_OneMore`, ...) are deliberate mistakes. They
are used by no specification: each one, put in place of the operator it is named
for, makes TLC report the property listed with it in `PROJECT.json`.

### Choices a reader should know

* A task ID is a number in the order of the plan, so ascending order is the order
  of `Manager.order`. A plan is a set of fresh tasks; two plans share none.
* `Scheduler` lets a plan have real dependencies, as the interface of
  `SubmitPlan` does. `PlanParsing` shows that `parseTasks` never produces one:
  today only plans without dependencies, or with the empty ID, get there.
* The errors of `Transition` are dropped, as in the code: a refused transition
  is a step that changes nothing, and the thread goes on.
* A call of the model is one nondeterministic step for its caller; `ToolLoop`
  opens it.
* `Dialogue` merges looking up and filling the reply channel, which
  `ApprovalGate` keeps apart, and lets the loop tell Max up to `Verdicts` things
  about an accepted plan, in any order, or nothing: more than `Scheduler` allows.
  A line typed in state `stateWaitingReply`, and an empty one, change nothing.
* `WorkTree` keeps what a file holds: one of `Texts`, so that a text may come back,
  or `Torn`, pieces of texts nobody meant, or `Missing`. `os.WriteFile` is two
  steps, as others can read the emptied file, and may write over what somebody else
  wrote in between (`Overlay`: the end of a longer text stays). A git command is
  atomic: it takes `index.lock` or fails. `Toolbox` lets a model write any text, and
  lets `git diff` fail, which `collectDiff` takes for no changes.
* In `ToolLoop` the calls of one answer have different IDs, as both services
  give them. A request is one call of the SDK: the repetitions that the SDKs make of
  their own (neither provider sets a limit for them) are not counted by
  `RequestsAreBounded`.
* `Stop` of `Dialogue` waits for Max's goroutine only; the real one waits for all of
  them, and Max is the one who may be waiting for a person.
* A tool call that is refused before it touches anything, and one that only
  reads, is no step of `Toolbox`; which calls a model asks for is free.
* `MCPClient` lets a line be an answer (its ID) or not (0). Whether an answer holds
  a result or an error does not matter to anybody but the model.
* Nothing under `src/` sends `MsgNeedClarify`, so `handleClarify` and
  `stateWaitingClarify` are unreachable and left out.
* Variables whose comment starts with "history:" are history variables: the
  properties read them, and of the guards only those of the bounds do (and
  `SubmitPlan`, which never reuses a task).

## 3. Runs

| Run | Instance | Shows |
|---|---|---|
| `sched_race` | plans {1,2}, {3,4}, {5}, {6} and {7}; 1 and 2 for one coder, 3 for `scheduler`, 4 for a name nobody subscribed, 5 for `max`; 6 depends on the empty ID, 7 on itself; 1 retry, capacity 2, 2 requests | both threads list the second task of one plan; the second request resets the table under running tasks; sends are dropped; bad plans stop at validateDAG. `TypeOK`, `HumanInTheLoop`, `DispatchBudget`, `RunningHasOwner`, `FailureIsTold`, `DoneKeepsResult`, `ReportIsTrue` |
| `sched_flow` | a plan {1,2,3} in which 2 needs 1 and 3 needs both, and {4} that may replace it; capacity 6, so nothing is dropped | `DependenciesFirst`, `UpstreamDelivered`, the refinement `LifecycleKept`, and under fairness `RunningEnds` (a running task is done, or failed with Max told: the failure that a retry passes through does not count as an end) and `PlanConcludes` |
| `sched_tries` | plans {1,2} and {3}, one coder, capacity 3 | violated: more tries than 1 + MaxRetries |
| `validate_dag` | 3 tasks, every list of up to 2 entries over 4 IDs | verdict against `ValidPlan`; visits are tasks, each after its dependencies; it ends |
| `plan_deps` | 3 items, every set of positions from -1 to 3 | violated: a plan that could run is refused |
| `approval_gate` | 2 requests, 2 humans | refinement of `HumanDecision`, no leak, no late answer, the first answer stands, every wait ends |
| `dialogue` | 3 plans, 5 lines, 2 verdicts a plan, capacity 2 | `RequestIsOnScreen`, `ConsentIsInformed`, `ReplyIsOwed`, `ReplyComes`, `ShutdownEnds` |
| `hub` | 2 browsers, channels of 1, 4 messages | `ChannelsCloseOnce`, `MissedMeansLeaving`, `DeadAreForgotten`, `SlowAreDropped` |
| `tool_loop` | 3 turns, 1 repetition, history of 4, 4 runs, answers of up to 2 calls | `CallsHaveResults`, `RequestsAreBounded`, `HistoryInExchanges`, `EveryRunEnds` |
| `toolbox` | two coders with write_file and git_commit on a tracked and a new file, with the original, a new and the empty text, or two on one server; 4 calls, 2 stray lines | `ShiftedByStrays`, `SuccessIsCommitted`, `WorkIsShown`, `CallsEnd` |
| `llm_setup`, `llm_flags` | every file, flag and agent setting over the two known names and one that `NewRouter` skips | `FlagKeyIsUsed`, `DefaultIsServed`; violated: `FlagsTakePrecedence` |

### Bounds, and why they are enough

Two tasks of one plan are the least for a double dispatch (the loop's dispatch
starts when the first one ends), and a third in another plan the least for a
reset under running tasks. One retry (`MaxRetries = 1`,
2 in the code) reaches both branches of `handleTaskFailed`; the proofs hold for
every value. Capacity 2 in `sched_race` and `dialogue` gives behaviours with and
without drops; with 6 in `sched_flow` no plan fills an inbox, which liveness
needs: a dropped assignment leaves its task running for ever. Its ladder is the
smallest plan with a task that waits for two others, one of which waits itself.
Three tasks hold every shape of small circle, including a circle beside a free
task; two entries per list hold a duplicate. Two requests for approval are the
least for an answer to miss its own and meet the next; in `Dialogue` three are
needed before a second request of the user can wait in Max's inbox while an older
approval is on the screen. A history of 4 entries and four runs trim whole exchanges
twice, or half of one after a failed run; two calls in one answer are the least for
one to fail and the other not, and three turns for results to be sent twice.
Two coders are the least for one to stage between the two commands of the other;
four calls let both write and both commit, or one stage a text that two later writes
replace and restore. Three texts are the original, another and the empty one that
truncating makes. Two coders on a server are the
least for a caller that waits for the mutex, and the handshake of `NewClient` comes
first. Coders on files and coders on the server share no state, so the two teams
are separate initial states. The
counters bounded in guards are `MaxRequests`, `MaxLines`, `MaxPlans`,
`Verdicts`, `MaxMessages`, `MaxRuns`, `MaxCalls`, `MaxStrays`.

Type invariants are part of what is proved (section 5) in every module that has a
proof; `sched_race` is the one run that also evaluates one.

`CHECK_DEADLOCK FALSE` is set everywhere: the user may stop typing, and the
modelled algorithms end.

### Fairness

Weak fairness of each goroutine's next step: the Go scheduler runs a goroutine
that can run, calls of the model and tools return (they carry a context), and
`time.After` ends the wait for approval. In `Hub`, strong fairness of the senders
on `register` and `unregister`, since Go's `select` picks among the ready cases
at random; a write to an open connection may block for ever, as it has no
deadline. In `MCPClient`, strong fairness of taking the mutex (`sync.Mutex` hands
itself to a goroutine that has waited long) and weak fairness of reads and writes
that can be done; nothing obliges the server to answer or anybody to call
`Close`, and the coders' own steps need no fairness. Nothing obliges the user to type, the model to answer in any
particular way, or a browser to connect or leave.

## 4. What the disagreements are

Three runs expect a violation, and `PROJECT.json` "findings" quotes the text each
one contradicts:

1. `plan_deps`: dependencies are copied before IDs exist, so every plan with one
   is refused.
2. `llm_flags`: the flags override a random provider's settings; the command of
   `README.md:59` can lose its base URL.
3. `sched_tries`: a task dispatched twice exceeds one try plus its retries.

Others were met while modelling and have no run of their own:

* Any reply of Max makes the terminal idle (`runtime.go:280`), the one right after
  an approval included, so it takes a new request, which empties the table, while
  `runtime.go:272` has the user wait for the current task (`ShowReply`).
* `isOpenAIRetryable` (`openai.go:172`) asks for a method the SDK error does not
  have and repeats nothing; `isAnthropicRetryable` repeats HTTP statuses only, while
  `docs/detailed-design.html:2210` has network errors repeated (`Retryable`).

* With providers in the file, no default among them and no `--provider`, `--api-key` ends
  under the empty name (`main.go:70`), `NewRouter` skips it (`router.go:48`), and the
  agents are served with the key of the file, against `README.md:52` and line 76.
  `FlagKeyIsUsed` says exactly when the key is used, and this is one of the cases in
  which it is not; `llm_flags` already shows the flags losing to the file.
* The diff a task reports may lack its work without a word: another coder's
  write_file that restores the staged text, or a truncated file whose staged text is
  empty, leaves `git diff` nothing to show. `WorkIsShown` counts this as work that
  somebody wrote over. A git_commit takes in what other coders staged, files left by
  a refused commit included; `SuccessIsCommitted` says that it is some text the
  index held, and whole unless two calls met at the file, no more.
* The history of an agent may begin with an answer, when `trimHistory` cuts after a
  failed run left its question unanswered (`HistoryInExchanges` says only then).
* `docs/detailed-design.html:2220` has a lost MCP server reconnected up to three
  times, and line 1801 has each agent's servers started: `client.go` has no
  second attempt, and nothing calls `NewClient` (`MCPClient` has no such action).
* The handlers that read the audit log (`audit_reader.go:24`, `stats.go:51`) use a
  `bufio.Scanner` with a limit of 1 MiB a line and stop at a longer one.
* The router records its calls without the agent's name (`router.go:114`, `131`), so
  statistics by agent (`docs/detailed-design.html:1835`) cannot tell them apart.

The safety properties of the passing runs name what holds all the same:
`DispatchBudget` bounds the tries by MaxRetries + 2, `DoneKeepsResult` and
`UpstreamDelivered` except exactly the tasks dispatched twice; `ReportIsTrue` says
when `handleAllDone` (`max.go:121`), which quotes the table as it is when Max gets
to the message, may report as done what is not: after a new request, or after a
second dispatch.

## 5. What is proved

All theorems hold for any value of the constants that satisfies the assumptions
named in the modules (`TasksAssumption`, `CapacityAssumption`,
`PlansAssumption`, `DAGAssumption`, `GateAssumption`, `HubAssumption`,
`ToolLoopAssumption`, `EvenAssumption`, `UsersAssumption`, `FilesAssumption`,
`TeamsAssumption`, `NamesAssumption`), which TLC evaluates in every run of a module that has them.

**`SchedulerProofs!TypeCorrect`**, `Spec => []TypeOK`. `TypeOK` is not inductive
alone: `retries` stays in bounds because the loop counts a retry only where one is
left, and what it tells and resends is about a task because its label says that
it handles one (`LoopOK`).

**`SchedulerProofs!HumanAgrees`**, `Spec => []HumanInTheLoop`: no task is listed,
started, assigned or worked on unless its plan was approved. The inductive
invariant is `SafetyOK`, the conjunction of

* `TypeOK` and `LoopOK`;
* `FlightOK`: whatever is on its way (an assignment in an inbox, a result or a
  failure on the way back, the task the loop handles) was assigned before. Without
  it a stray message could make the loop or a coder start a task; it is what makes
  the retry, which never looks at the approval, safe;
* `ApprovingOK`: while `SubmitPlan` runs its approving loop, its plan is approved,
  and what the loop has left is part of it. Without it `ApproveTask` could approve
  anything;
* `HumanInTheLoop` itself.

There is one lemma per thread and conjunct, and in each one step per action.

**`SchedulerProofs!DependenciesRespected`**, `Spec => []DependenciesFirst`. To
`SafetyOK` it adds `FreshOK`: a plan not approved yet shares no task with an
approved one. So by `HumanInTheLoop` nothing is going on with a task that
`CreateTask` sets back to created, neither as a task nor as somebody's
dependency; done is final otherwise, and every task a thread marks or assigns was
going before or was just listed by `ReadyToDispatch`.

**`SchedulerProofs!TasksHaveOwners`**, `Spec => []RunningHasOwner`. Nine calls of
`Transition` drop its error, so what is to be shown is that a refusal strands no
task. `OwnerOK` adds to the property that a dispatched task has the transition to
running still ahead of it, in a list of some thread that is not already at its send
or in the retry (`DispatchedOK`), and that a thread finishes a list before it
reads the next (`ListOK`). The bus lemmas say that a send keeps what is in the
inboxes and a receive takes exactly one message, which the receiver then owns.

**`SchedulerProofs`, part 2**: `BudgetKept`, `FailuresReported` and `PromisesKept`,
`Spec => LifecycleKept`, the refinement of `PlanLifecycle`. The bound comes from
a thread listing a task only if it has not assigned it, and from the retry counter
running one ahead of the retries sent while the loop handles a failure
(`RetryOK`). That a failure is told needs that the loop alone leaves a task failed
(`NextTold`, from the invariants before it). For the refinement these are joined by what `SubmitPlan` asks about: the
plan was validated and shares nothing with an agreed one (`AskedOK`), so
`UserApproves` is `Agree`; each send of an assignment is `Try`, `MarkDone` is
`Finish`, `Escalate` is `GiveUp`, a request is `Replace`, and every other step, the
refused transitions among them, changes nothing the user is promised.

**`SchedulerProofs`, part 3**: `ResultsStay` (`Spec => []DoneKeepsResult`),
`ArtifactsArrive` (`Spec => []UpstreamDelivered`) and `ReportsTrue`
(`Spec => []ReportIsTrue`). All three rest on where a task is between its assignment
and its outcome. Each coder and the loop have a line: what it works on, then its
inbox (`Holds`). Every step but `Assign` moves a task from one place of a line to
another, or drops it (`KeepsPlace`, lemma `NextPlaces`), so a task that only one
thread dispatched is in at most one place (`PlaceOK`), and in none once it is done
or has failed for good (`SettledOK`): the loop has let go of the only one. On these,

* `SetResult` with an error, which asks nothing of the status, can meet a task that
  is done only if both threads dispatched it; and `MarkDone` follows the storing of
  a success (`ResultOK`);
* an injection finds the results of all dependencies, which `DependenciesFirst`
  has in the table and done, and until the send nothing is taken back
  (`DeliveredOK`);
* the table that `CheckAllDone` finds all done has nobody left to move a task of it
  (`FinishedOK`, with `ListOK` from the owners' invariant for the loop's own list),
  unless Max still lists one that the loop has sent, which is how a task is
  dispatched by both; and it is not empty and only started tasks are in it
  (`ConcludedOK`), so neither an empty table nor one that is being created is taken
  for it.

The exceptions for tasks dispatched twice are needed. TLC refutes `DoneKeepsResult`
without its exception on the instance of `sched_race` and `UpstreamDelivered` without
its exception on that of `sched_flow`. For `ReportIsTrue` it takes three independent
tasks in one plan, more than either instance has: Max lists all three, the loop
dispatches one that then fails for good, the plan is announced, and Max, still going
through his list, sets the failed task going again.

**`ValidateDAGProofs!VerdictCorrect`**, `Spec => []VerdictRight`: for any finite set
of tasks and any finite lists of dependencies, with duplicates and unknown IDs,
`validateDAG` answers "ok" exactly for the closed and acyclic plans. One
direction shows that the visited tasks never stop short of an acyclic plan: if
the queue is empty and tasks are left, each of those waits for another one of
them (degrees count the listings not yet visited), which is a circle. The other
shows that a set in which each task waits for a member is never entered.
`VisitedInOrder` and `VisitsOnce` come from the same invariant: the order and the
count that the verdict rests on.

**`ApprovalGateProofs`**: `OutcomeSaid`, `NothingLeaks`, `FirstStands`, and
`KeepsPromise`, `Spec => PromiseKept`, the refinement of `HumanDecision`. The
inductive invariant `GateOK` follows an answer through every place it passes: a
human's Send between look-up and put (`SendingOK`), the reply channel
(`ChannelOK`), Max's goroutine (`WaiterOK`); at each it was said to the request
that the place belongs to. `Return` is then `Decide`, `Answer` is `Say`, and
everything else stutters.

**`DialogueProofs`**: `RequestStays`, `ConsentInformed` and `ReplyOwed`. Max sends
nothing while he waits, so his request is the last message in the terminal's inbox
until it is on the screen (`ScreenOK`): older replies are shown before it. A yes in the
channel he reads was typed while that request was shown (`ConsentOK`). A request
that is the last message comes from a handler that is not over, and so owes a
reply (`OwedOK`), which is also what the user is owed while the request is shown:
without this second half an answer could leave him waiting for nothing.

**`HubProofs`**: `NoDoubleClose` and `MissedLeave`, from `HubOK`, which adds
`FreshOK`: a client that Run has not met has no goroutine that could unregister
it, so no client is registered after its channel was closed or a message missed.

**`ToolLoopProofs`**: `RequestsBounded`, `CallsAnswered` and `ExchangesKept`. The first counts the
requests of finished turns and of this one (`SentOK`); the second keeps, while
tools run, all entries paired but the last answer, and of that one that the results so
far are those of its first calls and `todo` the rest (`PairsOK`, `Underway`): so the pairs
come from each call leaving one result, failed or not. The third rests on `HistoryOK`,
which adds to the property that the question is the last entry while a run lasts, and
on `Parity`: without an unanswered question an entry is told by its distance from the
last one, so trimming an even number leaves whole exchanges (`WholeExchanges`, from
`EvenAssumption`); with one, what is cut is a suffix, and either the question is still in
it or what is left alternates.

**`LLMSetupProofs`**: `FlagKeyArrives` and `DefaultServes`, for any set of names a file
may list. `FlagKeyIsUsed` says both when the key arrives and when it does not, so its
invariant has to know both: `FreshOK`, that nothing holds the key before `main` sets
it; `KeyOK`, that whatever entry the loop copied, the key is in that of the default
provider, the empty name included, and in no other; `RouterOK`, what `NewRouter` made of the
configuration, on either of its branches, and whom it chose where no default was
named; `ListedOK`, that no entry is without a key, so that a client that was found
is told from none.

**`ToolboxProofs`**: `AnswersMatch`, from `ClientOK`: the mutex makes one caller
write and read at a time (`Exclusive`), what is unread is a window of consecutive
IDs that ends at the last request (`Window`, `Ordered`), and each stray line taken
moves the window by one. `CommitsHold` and `DiffsShowWork`, from `TreeOK`. Texts may
come back, so nothing is concluded from a text alone: `PlacesOK` keeps places in the
list of what the index held, the commit's being no older than any claimed success;
`WholeOK` says that a file whose write_file met no other call is whole on disk, in
the index and in the commit, or empty on disk while its one writer has it open
(`OpenOK`); `WroteOK` that a file nobody wrote over holds what its task wrote. If the
diff then lacks it, the index holds that very text, and so did `stagings`.

## 6. What is only model-checked

Liveness (all `~>` and `<>` properties) is left to TLC, as the prover has no
support for fairness: `RunningEnds`, `PlanConcludes`, `Terminates`, `EveryWaitEnds`,
`ReplyComes`, `ShutdownEnds`, `DeadAreForgotten`, `SlowAreDropped`, `EveryRunEnds` and
`CallsEnd`. Every safety property of a passing run is proved.

## 7. What is not modelled, and why

* Tools that only read (read_file, list_dir, search_code, git_diff, git_status):
  they change nothing. run_shell runs any command, so nothing can be said of what
  it leaves behind. The rules on paths and patterns are conditions on texts.
* The audit log: one locked append per event; a torn last line is skipped by the
  readers.
* `handleChat` and the other web handlers but `handleApproval`: a Send, like the
  terminal's request, or reads.
* SDK conversions, prompts, formatting, JSON, audit records, the page.
* Reading and expanding the configuration file, and defaults that are single
  assignments.
* Unlocked reads of `*Task` by the web handlers: they change no state.

## 8. Plan

Done, in this order: `TaskManager`, `MessageBus`, `Scheduler` with its runs and
first theorems; `ValidateDAG` with its theorem; `ApprovalGate` under
`HumanDecision`; `Dialogue`; `PlanParsing`; `Hub`; `ToolLoop`; `LLMSetup`; then
`PlanLifecycle` and the refinement, `MCPClient`, `WorkTree` and `Toolbox`, and the
proofs of section 5.

Next, to extend the model:

* the scheduler behind `Dialogue` instead of the free environment, for one task
  per plan, and the web conversation (`handleChat` queues requests without a
  state of its own);
* audit log and statistics: a crash between two appends, a torn last line.

Next, to prove:

* what the liveness properties rest on and fairness has no part in: a measure that
  every step of a task's way through coders and loop decreases;
* the theorems of what the model is extended with.
