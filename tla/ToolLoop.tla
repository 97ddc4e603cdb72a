------------------------------ MODULE ToolLoop ------------------------------
(***************************************************************************)
(* One agent and its model: RunLLM of internal/agent/agent.go, which keeps *)
(* the history, RunToolLoop of internal/llm/router.go, which goes back and *)
(* forth between model and tools, and chatWithRetry of the two providers   *)
(* (internal/llm/anthropic.go and openai.go).  All of it is one goroutine; *)
(* the model, the network and the end of the context choose.               *)
(***************************************************************************)
EXTENDS Naturals, Sequences, Functions

CONSTANTS
  MaxTurns,       \* turns of the loop: 20
  MaxRetries,     \* repetitions of a failed call: 3 by default
  MaxHistoryLen,  \* 20
  CallIDs,        \* the IDs of tool calls
  MaxCalls,       \* bound: the tool calls in one answer
  MaxRuns         \* bound: how often the agent is asked

ASSUME ToolLoopAssumption ==
  /\ MaxTurns \in Nat \ {0} /\ MaxRetries \in Nat
  /\ MaxHistoryLen \in Nat \ {0} /\ MaxCalls \in Nat /\ MaxRuns \in Nat

\* maxHistoryLen is a constant of the code, 20: whole exchanges.
ASSUME EvenAssumption == MaxHistoryLen % 2 = 0

VARIABLES
  provider,   \* which implementation of Provider
  history,    \* BaseAgent.history: the roles
  messages,   \* what the next request holds
  pc,
  turn,       \* the loop variable of RunToolLoop
  attempt,    \* the loop variable of chatWithRetry
  todo,       \* tool calls of the last answer still to run
  results,    \* results of those that ran
  cancelled,  \* the context
  runs,       \* history: how often the agent was asked
  sent,       \* history: requests sent in this run
  outcome     \* history: how the last run ended

vars == <<provider, history, messages, pc, turn, attempt, todo, results, cancelled, runs, sent, outcome>>

Entry(role, calls, given) == [role |-> role, calls |-> calls, results |-> given]
User == Entry("user", <<>>, <<>>)
Assistant == Entry("assistant", <<>>, <<>>)

ToolResult(call, isError) == [id |-> call, isError |-> isError]

\* The calls an answer may hold, each with an ID of its own.
CallLists ==
  {calls \in UNION {[1..n -> CallIDs] : n \in 1..MaxCalls} : IsInjective(calls)}

Errors == {"busy", "network", "refused"}

\* The SDK error of OpenAI has no method StatusCode, so its providers repeat
\* nothing; Anthropic's repeat what the server was too busy for.
Retryable(err) == provider = "anthropic" /\ err = "busy"

Init ==
  /\ provider \in {"anthropic", "openai"}
  /\ history = <<>>
  /\ messages = <<>>
  /\ pc = "idle"
  /\ turn = 0
  /\ attempt = 0
  /\ todo = <<>>
  /\ results = <<>>
  /\ cancelled = FALSE
  /\ runs = 0
  /\ sent = 0
  /\ outcome = "none"

\* A mistake: the entry at the limit goes too.
Trimmed_OneMore(h) ==
  IF Len(h) > MaxHistoryLen THEN SubSeq(h, Len(h) - MaxHistoryLen + 2, Len(h)) ELSE h

Trimmed(h) ==
  IF Len(h) > MaxHistoryLen THEN SubSeq(h, Len(h) - MaxHistoryLen + 1, Len(h)) ELSE h

\* A coder forgets before each task, Max before a report.
RunLLM(forget) ==
  /\ pc = "idle"
  /\ runs < MaxRuns
  /\ runs' = runs + 1
  /\ history' = Append(IF forget THEN <<>> ELSE history, User)
  /\ messages' = history'
  /\ sent' = 0
  /\ outcome' = "none"
  /\ pc' = "chat"
  /\ UNCHANGED <<provider, turn, attempt, todo, results, cancelled>>

\* The loop returns, and its variables are gone.
Leave(how) ==
  /\ pc' = "idle"
  /\ outcome' = how
  /\ turn' = 0
  /\ attempt' = 0
  /\ messages' = <<>>
  /\ results' = <<>>

\* A failed run leaves the question in the history, and the history untrimmed.
Fail(err) == Leave(err) /\ UNCHANGED history

\* The model is done, by its own word or for want of a call.
Finish ==
  /\ pc = "chat"
  /\ sent' = sent + 1
  /\ history' = Trimmed(Append(history, Assistant))
  /\ Leave("ok")
  /\ UNCHANGED <<provider, todo, cancelled, runs>>

CallTools(calls) ==
  /\ pc = "chat"
  /\ sent' = sent + 1
  /\ messages' = Append(messages, Entry("assistant", calls, <<>>))
  /\ todo' = calls
  /\ results' = <<>>
  /\ pc' = "tools"
  /\ UNCHANGED <<provider, history, turn, attempt, cancelled, runs, outcome>>

ChatFails(err) ==
  /\ pc = "chat"
  /\ sent' = sent + 1
  /\ IF Retryable(err) /\ attempt < MaxRetries
     THEN pc' = "backoff" /\ UNCHANGED <<history, messages, turn, attempt, results, outcome>>
     ELSE Fail(err)
  /\ UNCHANGED <<provider, todo, cancelled, runs>>

\* A mistake: each repetition starts the count again.
Backoff_Restarts ==
  /\ pc = "backoff"
  /\ pc' = "chat"
  /\ UNCHANGED <<provider, history, messages, turn, attempt, todo, results, cancelled, runs, sent, outcome>>

Backoff ==
  /\ pc = "backoff"
  /\ attempt' = attempt + 1
  /\ pc' = "chat"
  /\ UNCHANGED <<provider, history, messages, turn, todo, results, cancelled, runs, sent, outcome>>

BackoffCancelled ==
  /\ pc = "backoff"
  /\ cancelled
  /\ Fail("cancelled")
  /\ UNCHANGED <<provider, todo, cancelled, runs, sent>>

\* A mistake: a tool that failed leaves no result.
RunTool_Silent ==
  /\ pc = "tools"
  /\ todo # <<>>
  /\ todo' = Tail(todo)
  /\ results' \in {results, Append(results, ToolResult(Head(todo), FALSE))}
  /\ UNCHANGED <<provider, history, messages, pc, turn, attempt, cancelled, runs, sent, outcome>>

\* The calls run one after the other; one that fails, or whose tool nobody has,
\* leaves the error as its result.
RunTool ==
  /\ pc = "tools"
  /\ todo # <<>>
  /\ todo' = Tail(todo)
  /\ \/ results' = Append(results, ToolResult(Head(todo), TRUE))
     \/ results' = Append(results, ToolResult(Head(todo), FALSE))
  /\ UNCHANGED <<provider, history, messages, pc, turn, attempt, cancelled, runs, sent, outcome>>

\* A mistake: a run whose context has ended never gets out of its tools.
SendResults_Stuck ==
  /\ pc = "tools"
  /\ todo = <<>> /\ ~cancelled
  /\ Fail("exceeded")
  /\ UNCHANGED <<provider, todo, cancelled, runs, sent>>

\* What the calls left goes back together.
SendResults ==
  /\ pc = "tools"
  /\ todo = <<>>
  /\ IF turn + 1 < MaxTurns
     THEN /\ messages' = Append(messages, Entry("user", <<>>, results))
          /\ turn' = turn + 1
          /\ attempt' = 0
          /\ pc' = "chat"
          /\ UNCHANGED <<history, results, outcome>>
     ELSE Fail("exceeded")
  /\ UNCHANGED <<provider, todo, cancelled, runs, sent>>

Cancel ==
  /\ ~cancelled
  /\ cancelled' = TRUE
  /\ UNCHANGED <<provider, history, messages, pc, turn, attempt, todo, results, runs, sent, outcome>>

Step ==
  \/ Finish
  \/ \E calls \in CallLists : CallTools(calls)
  \/ \E err \in Errors : ChatFails(err)
  \/ Backoff \/ BackoffCancelled
  \/ RunTool \/ SendResults

Next == Step \/ Cancel \/ \E forget \in BOOLEAN : RunLLM(forget)

\* A call and a tool return, and a backoff ends.
Spec == Init /\ [][Next]_vars /\ WF_vars(Step)

-----------------------------------------------------------------------------
(* Correctness. *)

Results == [id : CallIDs, isError : BOOLEAN]
Entries == [role : {"user", "assistant"}, calls : Seq(CallIDs), results : Seq(Results)]

TypeOK ==
  /\ provider \in {"anthropic", "openai"}
  /\ history \in Seq({User, Assistant})
  /\ Len(history) <= MaxHistoryLen + MaxRuns
  /\ messages \in Seq(Entries)
  /\ pc \in {"idle", "chat", "backoff", "tools"}
  /\ turn \in 0..MaxTurns
  /\ attempt \in 0..MaxRetries
  /\ todo \in Seq(CallIDs)
  /\ results \in Seq(Results)
  /\ cancelled \in BOOLEAN
  /\ runs \in 0..MaxRuns
  /\ sent \in Nat
  /\ outcome \in {"none", "ok", "cancelled", "exceeded"} \cup Errors

\* Entry r gives one result to each call of entry m, in the same order.
Gives(r, m) ==
  /\ r.role = "user" /\ m.role = "assistant"
  /\ Len(r.results) = Len(m.calls)
  /\ \A i \in 1..Len(m.calls) : r.results[i].id = m.calls[i]

\* In every request each answer with tool calls is followed by their results,
\* one for each call under the ID of that call, and nothing else gives results,
\* however many turns there were and whichever of the tools failed (both
\* providers refuse a request in which a call has no result).
CallsHaveResults ==
  pc = "chat" =>
    \A k \in 1..Len(messages) :
      /\ messages[k].calls # <<>> => k < Len(messages) /\ Gives(messages[k + 1], messages[k])
      /\ messages[k].results # <<>> => k > 1 /\ Gives(messages[k], messages[k - 1])

\* One question costs a bounded number of requests, errors and turns together.
RequestsAreBounded == sent <= MaxTurns * (MaxRetries + 1)

\* No two answers follow each other in the history, and it begins with an answer,
\* whose question trimHistory cut, only while a question that a failed run left
\* unanswered is still in it: without such a question trimHistory cuts whole
\* exchanges (maxHistoryLen is even), and one costs the first question only.
HistoryInExchanges ==
  /\ \A k \in 1..Len(history) - 1 : history[k] = User \/ history[k + 1] = User
  /\ history # <<>> /\ history[1] = Assistant
       => \E k \in 1..Len(history) - 1 : history[k] = User /\ history[k + 1] = User

\* RunLLM returns.
EveryRunEnds == pc # "idle" ~> pc = "idle"
=============================================================================
