--------------------------- MODULE ToolLoopProofs ---------------------------
(* Theorems about ToolLoop, for any bounds.                                  *)
EXTENDS ToolLoop, SequenceTheorems, TLAPS

-----------------------------------------------------------------------------
(* Types, and the loops' counters. *)

\* A loop variable is below its bound while its loop runs, every run leaves at
\* most one question too many behind, and tools run for an answer.
CountersOK ==
  /\ pc # "idle" => turn < MaxTurns
  /\ pc = "idle" => turn = 0 /\ attempt = 0
  /\ pc = "backoff" => attempt < MaxRetries
  /\ Len(history) <= MaxHistoryLen + runs
  /\ pc = "tools" => messages # <<>>

LEMMA TrimmedType ==
  ASSUME NEW h \in Seq({User, Assistant})
  PROVE  Trimmed(h) \in Seq({User, Assistant}) /\ Len(Trimmed(h)) <= MaxHistoryLen
<1>1. CASE Len(h) > MaxHistoryLen
  <2>. DEFINE m == Len(h) - MaxHistoryLen + 1
  <2>1. m \in 1..Len(h) /\ Len(h) \in Nat
    BY <1>1, ToolLoopAssumption
  <2>2. SubSeq(h, m, Len(h)) \in Seq({User, Assistant})
    BY <2>1
  <2>3. Len(SubSeq(h, m, Len(h))) = MaxHistoryLen
    BY <2>1, <1>1, ToolLoopAssumption
  <2>. QED
    BY <1>1, <2>2, <2>3, ToolLoopAssumption DEF Trimmed
<1>2. CASE ~(Len(h) > MaxHistoryLen)
  BY <1>2, ToolLoopAssumption DEF Trimmed
<1>. QED
  BY <1>1, <1>2

LEMMA ExchangeType == {User, Assistant} \subseteq Entries
<1>1. <<>> \in Seq(CallIDs) /\ <<>> \in Seq(Results)
  OBVIOUS
<1>. QED
  BY <1>1 DEF User, Assistant, Entry, Entries

LEMMA HistoryIsMessages == Seq({User, Assistant}) \subseteq Seq(Entries)
  BY ExchangeType

LEMMA EmptyType == <<>> \in Seq(Entries) /\ <<>> \in Seq(CallIDs) /\ <<>> \in Seq(Results)
  OBVIOUS

LEMMA CallListType ==
  ASSUME NEW calls \in CallLists
  PROVE  calls \in Seq(CallIDs) /\ calls # <<>>
<1>1. PICK n \in 1..MaxCalls : calls \in [1..n -> CallIDs]
  BY DEF CallLists
<1>2. n \in Nat /\ 1 \in 1..n
  BY ToolLoopAssumption
<1>3. calls \in Seq(CallIDs)
  BY <1>1, <1>2, SeqDef
<1>4. DOMAIN calls # {}
  BY <1>1, <1>2
<1>. QED
  BY <1>3, <1>4

LEMMA ResultType ==
  ASSUME NEW call \in CallIDs, NEW isError \in BOOLEAN
  PROVE  ToolResult(call, isError) \in Results /\ ToolResult(call, isError).id = call
  BY DEF ToolResult, Results

LEMMA InitType == Init => TypeOK /\ CountersOK
<1>. SUFFICES ASSUME Init PROVE TypeOK /\ CountersOK
  OBVIOUS
<1>1. history \in Seq({User, Assistant}) /\ messages \in Seq(Entries) /\ Len(history) = 0
  BY DEF Init
<1>2. Len(history) <= MaxHistoryLen + MaxRuns /\ Len(history) <= MaxHistoryLen + runs
  BY <1>1, ToolLoopAssumption DEF Init
<1>3. /\ provider \in {"anthropic", "openai"} /\ pc = "idle" /\ outcome = "none"
      /\ turn = 0 /\ attempt = 0 /\ turn \in 0..MaxTurns /\ attempt \in 0..MaxRetries /\ todo \in Seq(CallIDs) /\ results \in Seq(Results)
      /\ runs \in 0..MaxRuns /\ sent \in Nat
  BY ToolLoopAssumption DEF Init
<1>4. cancelled \in BOOLEAN
  BY Zenon DEF Init
<1>. QED
  BY <1>1, <1>2, <1>3, <1>4 DEF TypeOK, CountersOK

LEMMA StepType ==
  ASSUME TypeOK, CountersOK, Step
  PROVE  TypeOK' /\ CountersOK'
<1>. USE ToolLoopAssumption DEF TypeOK, CountersOK
<1>1. CASE Finish
  <2>. DEFINE h == Append(history, Assistant)
  <2>0. h \in Seq({User, Assistant}) /\ history' = Trimmed(h)
    BY <1>1 DEF Finish
  <2>1. history' \in Seq({User, Assistant}) /\ Len(history') <= MaxHistoryLen
    BY <2>0, TrimmedType
  <2>. QED
    BY <1>1, <2>1 DEF Finish, Leave
<1>2. ASSUME NEW calls \in CallLists, CallTools(calls) PROVE TypeOK' /\ CountersOK'
  <2>1. calls \in Seq(CallIDs)
    BY CallListType
  <2>2. Entry("assistant", calls, <<>>) \in Entries
    BY <2>1 DEF Entry, Entries
  <2>3. messages' \in Seq(Entries) /\ messages' # <<>>
    <3>1. messages \in Seq(Entries) /\ messages' = Append(messages, Entry("assistant", calls, <<>>))
      BY <1>2 DEF CallTools
    <3>. HIDE DEF TypeOK, CountersOK
    <3>. QED
      BY <2>2, <3>1
  <2>. QED
    BY <1>2, <2>1, <2>3, EmptyType DEF CallTools
<1>3. ASSUME NEW err \in Errors, ChatFails(err) PROVE TypeOK' /\ CountersOK'
  <2>1. CASE Retryable(err) /\ attempt < MaxRetries
    BY <1>3, <2>1 DEF ChatFails
  <2>2. CASE ~(Retryable(err) /\ attempt < MaxRetries)
    <3>1. Fail(err) /\ UNCHANGED <<provider, todo, cancelled, runs>> /\ sent' = sent + 1
      BY <1>3, <2>2 DEF ChatFails
    <3>. QED
      BY <3>1, EmptyType DEF Fail, Leave
  <2>. QED
    BY <2>1, <2>2
<1>4. CASE Backoff
  BY <1>4 DEF Backoff
<1>5. CASE BackoffCancelled
  BY <1>5 DEF BackoffCancelled, Fail, Leave
<1>6. CASE RunTool
  <2>1. Head(todo) \in CallIDs /\ todo' \in Seq(CallIDs)
    BY <1>6 DEF RunTool
  <2>2. PICK isError \in BOOLEAN : results' = Append(results, ToolResult(Head(todo), isError))
    BY <1>6 DEF RunTool
  <2>3. results' \in Seq(Results)
    BY <2>1, <2>2, ResultType
  <2>. QED
    BY <1>6, <2>1, <2>3 DEF RunTool
<1>7. CASE SendResults
  <2>1. CASE turn + 1 < MaxTurns
    <3>1. Entry("user", <<>>, results) \in Entries
      BY DEF Entry, Entries
    <3>2. messages' \in Seq(Entries)
      <4>1. messages \in Seq(Entries) /\ messages' = Append(messages, Entry("user", <<>>, results))
        BY <1>7, <2>1 DEF SendResults
      <4>. HIDE DEF TypeOK, CountersOK
      <4>. QED
        BY <3>1, <4>1
    <3>. QED
      BY <1>7, <2>1, <3>2 DEF SendResults
  <2>2. CASE ~(turn + 1 < MaxTurns)
    BY <1>7, <2>2 DEF SendResults, Fail, Leave
  <2>. QED
    BY <2>1, <2>2
<1>. QED
  BY <1>1, <1>2, <1>3, <1>4, <1>5, <1>6, <1>7 DEF Step

LEMMA RunType ==
  ASSUME TypeOK, CountersOK, NEW forget \in BOOLEAN, RunLLM(forget)
  PROVE  TypeOK' /\ CountersOK'
<1>. USE ToolLoopAssumption DEF TypeOK, CountersOK
<1>1. history' \in Seq({User, Assistant}) /\ Len(history') <= MaxHistoryLen + runs + 1
  BY DEF RunLLM
<1>2. messages' \in Seq(Entries)
  <2>1. messages' = history'
    BY DEF RunLLM
  <2>. HIDE DEF TypeOK, CountersOK
  <2>. QED
    BY <1>1, <2>1, HistoryIsMessages
<1>. QED
  BY <1>1, <1>2 DEF RunLLM

LEMMA NextType == TypeOK /\ CountersOK /\ [Next]_vars => TypeOK' /\ CountersOK'
<1>. SUFFICES ASSUME TypeOK, CountersOK, [Next]_vars PROVE TypeOK' /\ CountersOK'
  OBVIOUS
<1>1. CASE Cancel \/ UNCHANGED vars
  BY <1>1 DEF Cancel, vars, TypeOK, CountersOK
<1>. QED
  BY <1>1, StepType, RunType DEF Next

-----------------------------------------------------------------------------
(* The number of requests. *)

\* The requests of the turns that are over, at most MaxRetries + 1 each, and
\* those of this turn.
SentOK ==
  /\ RequestsAreBounded
  /\ pc = "chat" => sent <= turn * (MaxRetries + 1) + attempt
  /\ pc \in {"backoff", "tools"} => sent <= turn * (MaxRetries + 1) + attempt + 1

\* A turn that is not the last leaves room for a whole one.
LEMMA RoomForTurn ==
  ASSUME NEW k \in Nat, k < MaxTurns
  PROVE  /\ k * (MaxRetries + 1) \in Nat
         /\ (k + 1) * (MaxRetries + 1) = k * (MaxRetries + 1) + MaxRetries + 1
         /\ k * (MaxRetries + 1) + MaxRetries + 1 <= MaxTurns * (MaxRetries + 1)
<1>. DEFINE d == MaxTurns - (k + 1)
<1>1. d \in Nat /\ MaxTurns = k + 1 + d
  BY ToolLoopAssumption
<1>. HIDE DEF d
<1>2. d * (MaxRetries + 1) \in Nat
  BY <1>1, ToolLoopAssumption
<1>3. (k + 1 + d) * (MaxRetries + 1)
        = k * (MaxRetries + 1) + MaxRetries + 1 + d * (MaxRetries + 1)
  BY <1>1, ToolLoopAssumption
<1>. QED
  BY <1>1, <1>2, <1>3, ToolLoopAssumption

LEMMA SentKept ==
  ASSUME TypeOK, CountersOK, SentOK, [Next]_vars
  PROVE  SentOK'
<1>. DEFINE done == turn * (MaxRetries + 1)
<1>. USE ToolLoopAssumption DEF TypeOK, CountersOK, SentOK, RequestsAreBounded
<1>1. pc # "idle" => /\ done \in Nat
                     /\ (turn + 1) * (MaxRetries + 1) = done + MaxRetries + 1
                     /\ done + MaxRetries + 1 <= MaxTurns * (MaxRetries + 1)
  BY RoomForTurn
<1>2. 0 * (MaxRetries + 1) = 0 /\ MaxTurns * (MaxRetries + 1) \in Nat
  OBVIOUS
<1>. HIDE DEF done
<1>3. ASSUME NEW forget \in BOOLEAN, RunLLM(forget) PROVE SentOK'
  BY <1>3, <1>2 DEF RunLLM
<1>4. CASE Finish
  BY <1>4, <1>1 DEF Finish, Leave, done
<1>5. ASSUME NEW calls \in CallLists, CallTools(calls) PROVE SentOK'
  BY <1>5, <1>1 DEF CallTools, done
<1>6. ASSUME NEW err \in Errors, ChatFails(err) PROVE SentOK'
  BY <1>6, <1>1 DEF ChatFails, Fail, Leave, Errors, done
<1>7. CASE Backoff \/ BackoffCancelled
  BY <1>7, <1>1 DEF Backoff, BackoffCancelled, Fail, Leave, done
<1>8. CASE RunTool \/ Cancel \/ UNCHANGED vars
  BY <1>8, <1>1 DEF RunTool, Cancel, vars, done
<1>9. CASE SendResults
  <2>1. /\ sent' = sent /\ sent <= done + attempt + 1 /\ attempt <= MaxRetries
        /\ sent \in Nat /\ attempt \in Nat /\ pc # "idle"
    BY <1>9 DEF SendResults, done
  <2>2. CASE turn + 1 < MaxTurns
    <3>1. turn' = turn + 1 /\ attempt' = 0 /\ pc' = "chat"
      BY <1>9, <2>2 DEF SendResults
    <3>2. turn' * (MaxRetries + 1) = done + MaxRetries + 1
      BY <1>1, <2>1, <3>1
    <3>3. sent' <= turn' * (MaxRetries + 1) + attempt'
      BY <1>1, <2>1, <3>1, <3>2
    <3>. QED
      BY <2>1, <3>1, <3>3
  <2>3. CASE ~(turn + 1 < MaxTurns)
    BY <1>9, <2>1, <2>3 DEF SendResults, Fail, Leave
  <2>. QED
    BY <2>2, <2>3
<1>. QED
  BY <1>3, <1>4, <1>5, <1>6, <1>7, <1>8, <1>9 DEF Next, Step

\* One question costs at most MaxRetries + 1 requests a turn, for MaxTurns
\* turns, whatever fails.
THEOREM RequestsBounded == Spec => []RequestsAreBounded
<1>1. Init => SentOK
  BY ToolLoopAssumption DEF Init, SentOK, RequestsAreBounded
<1>2. SentOK => RequestsAreBounded
  BY DEF SentOK
<1>. QED
  BY <1>1, <1>2, InitType, NextType, SentKept, PTL DEF Spec

-----------------------------------------------------------------------------
(* The calls and their results. *)

\* What CallsHaveResults asks of one entry of s.
Paired(s, k) ==
  /\ s[k].calls # <<>> => k < Len(s) /\ Gives(s[k + 1], s[k])
  /\ s[k].results # <<>> => k > 1 /\ Gives(s[k], s[k - 1])

\* The results so far are those of the first calls, and the rest is to do.
Underway(calls) ==
  /\ Len(results) + Len(todo) = Len(calls)
  /\ \A i \in 1..Len(results) : results[i].id = calls[i]
  /\ \A i \in 1..Len(todo) : todo[i] = calls[Len(results) + i]

\* While tools run, the last answer alone waits for its results.
PairsOK ==
  /\ pc \in {"chat", "backoff"} => \A k \in 1..Len(messages) : Paired(messages, k)
  /\ pc = "tools" =>
       /\ \A k \in 1..(Len(messages) - 1) : Paired(messages, k)
       /\ messages[Len(messages)].role = "assistant"
       /\ messages[Len(messages)].results = <<>>
       /\ Underway(messages[Len(messages)].calls)

\* A new entry without results leaves the entries before it paired.
LEMMA AppendCall ==
  ASSUME NEW s \in Seq(Entries), NEW e \in Entries, \A k \in 1..Len(s) : Paired(s, k)
  PROVE  LET t == Append(s, e)
         IN  t[Len(t)] = e /\ \A k \in 1..(Len(t) - 1) : Paired(t, k)
<1>. DEFINE t == Append(s, e)
<1>1. Len(t) = Len(s) + 1 /\ t[Len(t)] = e /\ Len(s) \in Nat
  OBVIOUS
<1>2. \A k \in 1..Len(s) : t[k] = s[k]
  OBVIOUS
<1>. HIDE DEF t
<1>3. ASSUME NEW k \in 1..Len(s) PROVE Paired(t, k)
  BY <1>1, <1>2 DEF Paired
<1>. QED
  BY <1>1, <1>3 DEF t

\* The results of the last entry's calls pair everything.
LEMMA AppendResults ==
  ASSUME NEW s \in Seq(Entries), NEW e \in Entries, s # <<>>, e.calls = <<>>,
         s[Len(s)].results = <<>>, Gives(e, s[Len(s)]),
         \A k \in 1..(Len(s) - 1) : Paired(s, k)
  PROVE  LET t == Append(s, e)
         IN  \A k \in 1..Len(t) : Paired(t, k)
<1>. DEFINE t == Append(s, e)
<1>1. Len(t) = Len(s) + 1 /\ t[Len(t)] = e /\ Len(s) \in Nat \ {0}
  OBVIOUS
<1>2. \A k \in 1..Len(s) : t[k] = s[k]
  OBVIOUS
<1>. HIDE DEF t
<1>3. ASSUME NEW k \in 1..(Len(s) - 1) PROVE Paired(t, k)
  BY <1>1, <1>2 DEF Paired
<1>4. Paired(t, Len(s))
  BY <1>1, <1>2 DEF Paired
<1>5. Paired(t, Len(t))
  BY <1>1, <1>2 DEF Paired
<1>. QED
  BY <1>1, <1>3, <1>4, <1>5 DEF t

\* A call that has run takes its result along.
LEMMA ToolKeeps ==
  ASSUME TypeOK, NEW calls \in Seq(CallIDs), Underway(calls), RunTool
  PROVE  Underway(calls)'
<1>1. PICK isError \in BOOLEAN : results' = Append(results, ToolResult(Head(todo), isError))
  BY DEF RunTool
<1>2. todo \in Seq(CallIDs) /\ results \in Seq(Results) /\ todo # <<>> /\ todo' = Tail(todo)
  BY DEF TypeOK, RunTool
<1>3. /\ Len(results') = Len(results) + 1
      /\ \A i \in 1..Len(results) : results'[i] = results[i]
      /\ results'[Len(results) + 1] = ToolResult(Head(todo), isError)
  BY <1>1, <1>2
<1>4. /\ Len(todo) = Len(todo') + 1 /\ Head(todo) = todo[1]
      /\ \A i \in 1..Len(todo') : todo'[i] = todo[i + 1]
  BY <1>2
<1>5. todo[1] = calls[Len(results) + 1] /\ ToolResult(Head(todo), isError).id = todo[1]
  BY <1>2, <1>4 DEF Underway, ToolResult
<1>6. Len(results) \in Nat /\ Len(todo') \in Nat
  BY <1>2
<1>7. \A i \in 1..Len(results') : results'[i].id = calls[i]
  BY <1>3, <1>5, <1>6 DEF Underway
<1>8. \A i \in 1..Len(todo') : todo'[i] = calls[Len(results') + i]
  <2>. SUFFICES ASSUME NEW i \in 1..Len(todo') PROVE todo'[i] = calls[Len(results') + i]
    OBVIOUS
  <2>1. i + 1 \in 1..Len(todo) /\ Len(results) + (i + 1) = Len(results') + i
    BY <1>3, <1>4, <1>6
  <2>. QED
    BY <1>4, <2>1 DEF Underway
<1>. QED
  BY <1>3, <1>4, <1>6, <1>7, <1>8 DEF Underway

LEMMA PairsKept ==
  ASSUME TypeOK, CountersOK, PairsOK, [Next]_vars
  PROVE  PairsOK'
<1>. USE DEF PairsOK
<1>1. ASSUME NEW forget \in BOOLEAN, RunLLM(forget) PROVE PairsOK'
  <2>1. messages' \in Seq({User, Assistant}) /\ pc' = "chat"
    BY <1>1 DEF RunLLM, TypeOK
  <2>2. \A k \in 1..Len(messages') : messages'[k].calls = <<>> /\ messages'[k].results = <<>>
    BY <2>1 DEF User, Assistant, Entry
  <2>. QED
    BY <2>1, <2>2 DEF Paired
<1>2. ASSUME NEW calls \in CallLists, CallTools(calls) PROVE PairsOK'
  <2>. DEFINE e == Entry("assistant", calls, <<>>)
  <2>1. /\ calls \in Seq(CallIDs) /\ pc' = "tools"
        /\ messages' = Append(messages, e) /\ todo' = calls /\ results' = <<>>
    BY <1>2, CallListType DEF CallTools
  <2>2. messages \in Seq(Entries) /\ \A k \in 1..Len(messages) : Paired(messages, k)
    BY <1>2 DEF CallTools, TypeOK
  <2>3. e \in Entries /\ e.role = "assistant" /\ e.calls = calls /\ e.results = <<>>
    BY <2>1 DEF Entry, Entries
  <2>4. Underway(calls)'
    BY <2>1 DEF Underway
  <2>. HIDE DEF e
  <2>5. /\ messages'[Len(messages')] = e
        /\ \A k \in 1..(Len(messages') - 1) : Paired(messages', k)
    BY <2>1, <2>2, <2>3, AppendCall
  <2>. QED
    BY <2>1, <2>3, <2>4, <2>5 DEF Underway
<1>3. CASE RunTool
  <2>. DEFINE m == messages[Len(messages)]
  <2>1. pc = "tools" /\ pc' = "tools" /\ messages' = messages /\ m \in Entries
    BY <1>3 DEF RunTool, TypeOK, CountersOK
  <2>2. m.calls \in Seq(CallIDs)
    BY <2>1 DEF Entries
  <2>3. Underway(m.calls)'
    <3>1. Underway(m.calls)
      BY <2>1
    <3>2. Underway(m.calls)
             => Len(results') + Len(todo') = Len(m.calls)
                /\ (\A i \in 1..Len(results') : results'[i].id = m.calls[i])
                /\ (\A i \in 1..Len(todo') : todo'[i] = m.calls[Len(results') + i])
      BY <1>3, <2>2, ToolKeeps DEF Underway
    <3>. QED
      BY <2>1, <3>1, <3>2 DEF Underway
  <2>. QED
    BY <2>1, <2>3
<1>4. CASE SendResults
  <2>. DEFINE e == Entry("user", <<>>, results)
              m == messages[Len(messages)]
  <2>1. CASE turn + 1 < MaxTurns
    <3>1. messages \in Seq(Entries) /\ messages # <<>> /\ results \in Seq(Results)
      BY <1>4 DEF SendResults, TypeOK, CountersOK
    <3>2. e \in Entries /\ e.role = "user" /\ e.calls = <<>> /\ e.results = results
      BY <3>1 DEF Entry, Entries
    <3>3. m.role = "assistant" /\ m.results = <<>> /\ todo = <<>> /\ Underway(m.calls)
      BY <1>4 DEF SendResults
    <3>4. Gives(e, m)
      <4>. HIDE DEF e, m
      <4>. QED
        BY <3>1, <3>2, <3>3 DEF Underway, Gives
    <3>5. messages' = Append(messages, e) /\ pc' = "chat"
      BY <1>4, <2>1 DEF SendResults
    <3>6. \A k \in 1..(Len(messages) - 1) : Paired(messages, k)
      BY <1>4 DEF SendResults
    <3>. HIDE DEF e
    <3>7. \A k \in 1..Len(messages') : Paired(messages', k)
      BY <3>1, <3>2, <3>3, <3>4, <3>5, <3>6, AppendResults
    <3>. QED
      BY <3>5, <3>7
  <2>2. CASE ~(turn + 1 < MaxTurns)
    BY <1>4, <2>2 DEF SendResults, Fail, Leave
  <2>. QED
    BY <2>1, <2>2
<1>5. CASE Finish
  BY <1>5 DEF Finish, Leave
<1>6. ASSUME NEW err \in Errors, ChatFails(err) PROVE PairsOK'
  BY <1>6 DEF ChatFails, Fail, Leave
<1>7. CASE Backoff \/ BackoffCancelled
  BY <1>7 DEF Backoff, BackoffCancelled, Fail, Leave
<1>8. CASE Cancel \/ UNCHANGED vars
  BY <1>8 DEF Cancel, vars, Underway
<1>. QED
  BY <1>1, <1>2, <1>3, <1>4, <1>5, <1>6, <1>7, <1>8 DEF Next, Step

\* No request is malformed: whatever tools fail, in what is sent to the model
\* every call has one result, under its own ID, and every result its call, after
\* any number of turns.
THEOREM CallsAnswered == Spec => []CallsHaveResults
<1>1. Init => PairsOK
  BY DEF Init, PairsOK
<1>2. PairsOK => CallsHaveResults
  BY DEF PairsOK, CallsHaveResults, Paired
<1>. QED
  BY <1>1, <1>2, InitType, NextType, PairsKept, PTL DEF Spec

-----------------------------------------------------------------------------
(* The history. *)

Alternates(h, j) == \A k \in j..(Len(h) - 1) : h[k] # h[k + 1]

\* From wherever questions and answers alternate to the end, an entry is told
\* by its distance from the last one.
Parity(h) ==
  \A j \in 1..Len(h) : Alternates(h, j) =>
    \A k \in j..Len(h) : h[k] = h[Len(h)] <=> (Len(h) - k) % 2 = 0

NoTwoAnswers(h) == \A k \in 1..Len(h) - 1 : h[k] = User \/ h[k + 1] = User

\* The inductive invariant: while a run lasts its question comes last.
HistoryOK ==
  /\ HistoryInExchanges
  /\ Parity(history)
  /\ pc # "idle" => history # <<>> /\ history[Len(history)] = User

LEMMA RolesDiffer == User # Assistant
  BY DEF User, Assistant, Entry

LEMMA AppendParity ==
  ASSUME NEW h \in Seq({User, Assistant}), NEW e \in {User, Assistant}, Parity(h)
  PROVE  Parity(Append(h, e))
<1>. DEFINE g == Append(h, e)
<1>1. Len(g) = Len(h) + 1 /\ g[Len(g)] = e /\ Len(h) \in Nat
  OBVIOUS
<1>2. \A k \in 1..Len(h) : g[k] = h[k] /\ h[k] \in {User, Assistant}
  OBVIOUS
<1>. HIDE DEF g
<1>. SUFFICES ASSUME NEW j \in 1..Len(g), Alternates(g, j), NEW k \in j..Len(g)
              PROVE  g[k] = g[Len(g)] <=> (Len(g) - k) % 2 = 0
  BY DEF Parity, g
<1>3. CASE k = Len(g)
  BY <1>1, <1>3
<1>4. CASE k # Len(g)
  <2>1. j \in 1..Len(h) /\ k \in j..Len(h) /\ Len(h) \in 1..Len(h)
    BY <1>1, <1>4
  <2>2. Alternates(h, j)
    BY <1>1, <1>2, <2>1 DEF Alternates
  <2>3. h[Len(h)] # e
    <3>1. g[Len(h)] # g[Len(h) + 1]
      BY <1>1, <2>1 DEF Alternates
    <3>. QED
      BY <1>1, <1>2, <2>1, <3>1
  <2>4. h[k] = h[Len(h)] <=> (Len(h) - k) % 2 = 0
    BY <2>1, <2>2 DEF Parity
  <2>5. h[k] = e <=> h[k] # h[Len(h)]
    BY <1>2, <2>1, <2>3
  <2>6. (Len(h) + 1 - k) % 2 = 0 <=> (Len(h) - k) % 2 # 0
    BY <1>1, <2>1
  <2>. QED
    BY <1>1, <1>2, <2>1, <2>4, <2>5, <2>6
<1>. QED
  BY <1>3, <1>4

LEMMA TrimmedParity ==
  ASSUME NEW h \in Seq({User, Assistant}), Parity(h), h # <<>>
  PROVE  /\ Parity(Trimmed(h))
         /\ Trimmed(h) # <<>> /\ Trimmed(h)[Len(Trimmed(h))] = h[Len(h)]
         /\ Trimmed(h) = h \/ Len(Trimmed(h)) = MaxHistoryLen
         /\ NoTwoAnswers(h) => NoTwoAnswers(Trimmed(h))
<1>1. CASE Len(h) > MaxHistoryLen
  <2>. DEFINE m == Len(h) - MaxHistoryLen
              g == SubSeq(h, m + 1, Len(h))
  <2>1. m \in Nat /\ m + 1 \in 1..Len(h) /\ Len(h) \in Nat
    BY <1>1, ToolLoopAssumption
  <2>2. Len(g) = MaxHistoryLen /\ Len(g) = Len(h) - m
    BY <2>1, <1>1, ToolLoopAssumption
  <2>3. \A k \in 1..Len(g) : g[k] = h[m + k]
    BY <2>1, <2>2
  <2>4. Trimmed(h) = g
    BY <1>1 DEF Trimmed
  <2>. HIDE DEF g, m
  <2>5. Parity(g)
    <3>. SUFFICES ASSUME NEW j \in 1..Len(g), Alternates(g, j), NEW k \in j..Len(g)
                  PROVE  g[k] = g[Len(g)] <=> (Len(g) - k) % 2 = 0
      BY DEF Parity
    <3>1. m + j \in 1..Len(h) /\ m + k \in (m + j)..Len(h)
      BY <2>1, <2>2
    <3>2. Alternates(h, m + j)
      <4>. SUFFICES ASSUME NEW i \in (m + j)..(Len(h) - 1)
                    PROVE  h[i] # h[i + 1]
        BY DEF Alternates
      <4>1. i - m \in j..(Len(g) - 1) /\ i - m \in 1..Len(g) /\ i - m + 1 \in 1..Len(g)
        BY <2>1, <2>2
      <4>2. g[i - m] # g[i - m + 1]
        BY <4>1 DEF Alternates
      <4>3. g[i - m] = h[i] /\ g[i - m + 1] = h[i + 1]
        BY <2>1, <2>3, <4>1
      <4>. QED
        BY <4>2, <4>3
    <3>3. h[m + k] = h[Len(h)] <=> (Len(h) - (m + k)) % 2 = 0
      BY <3>1, <3>2 DEF Parity
    <3>4. g[k] = h[m + k] /\ g[Len(g)] = h[Len(h)]
      BY <2>1, <2>2, <2>3
    <3>5. Len(h) - (m + k) = Len(g) - k
      BY <2>1, <2>2
    <3>. QED
      BY <3>3, <3>4, <3>5
  <2>6. Len(g) \in 1..Len(g) /\ g[Len(g)] = h[Len(h)]
    BY <2>1, <2>2, <2>3, ToolLoopAssumption
  <2>7. g # <<>>
    BY <2>2, ToolLoopAssumption
  <2>8. ASSUME NoTwoAnswers(h) PROVE NoTwoAnswers(g)
    <3>. SUFFICES ASSUME NEW k \in 1..Len(g) - 1 PROVE g[k] = User \/ g[k + 1] = User
      BY DEF NoTwoAnswers
    <3>1. m + k \in 1..Len(h) - 1 /\ k \in 1..Len(g) /\ k + 1 \in 1..Len(g)
      BY <2>1, <2>2
    <3>2. g[k] = h[m + k] /\ g[k + 1] = h[m + k + 1]
      BY <2>1, <2>3, <3>1
    <3>. QED
      BY <2>8, <3>1, <3>2 DEF NoTwoAnswers
  <2>. QED
    BY <2>2, <2>4, <2>5, <2>6, <2>7, <2>8
<1>2. CASE ~(Len(h) > MaxHistoryLen)
  BY <1>2, ToolLoopAssumption DEF Trimmed
<1>. QED
  BY <1>1, <1>2

\* An even number of questions and answers in turn that ends with an answer
\* begins with a question.
LEMMA WholeExchanges ==
  ASSUME NEW h \in Seq({User, Assistant}), Parity(h), NoTwoAnswers(h),
         Len(h) = MaxHistoryLen, h[Len(h)] = Assistant, h[1] = Assistant
  PROVE  \E k \in 1..Len(h) - 1 : h[k] = User /\ h[k + 1] = User
<1>. SUFFICES ASSUME \A k \in 1..Len(h) - 1 : ~(h[k] = User /\ h[k + 1] = User)
              PROVE  FALSE
  OBVIOUS
<1>1. Len(h) \in Nat \ {0} /\ 1 \in 1..Len(h) /\ (Len(h) - 1) % 2 # 0
  BY ToolLoopAssumption, EvenAssumption
<1>2. Alternates(h, 1)
  <2>. SUFFICES ASSUME NEW k \in 1..Len(h) - 1 PROVE h[k] # h[k + 1]
    BY DEF Alternates
  <2>. QED
    BY RolesDiffer DEF NoTwoAnswers
<1>. QED
  BY <1>1, <1>2 DEF Parity

LEMMA HistoryKept ==
  ASSUME TypeOK, HistoryOK, [Next]_vars
  PROVE  HistoryOK'
<1>0. history \in Seq({User, Assistant}) /\ NoTwoAnswers(history)
  BY DEF TypeOK, HistoryOK, HistoryInExchanges, NoTwoAnswers
<1>1. ASSUME NEW forget \in BOOLEAN, RunLLM(forget) PROVE HistoryOK'
  <2>. DEFINE h == IF forget THEN <<>> ELSE history
  <2>1. history' = Append(h, User) /\ pc' = "chat" /\ h \in Seq({User, Assistant})
    BY <1>0, <1>1 DEF RunLLM
  <2>2. Parity(h) /\ (h = <<>> \/ h = history)
    <3>1. Parity(history) /\ Parity(<<>>)
      BY DEF HistoryOK, Parity
    <3>. QED
      BY <3>1
  <2>. HIDE DEF h
  <2>3. Parity(history')
    BY <2>1, <2>2, AppendParity
  <2>4. /\ Len(history') = Len(h) + 1 /\ Len(h) \in Nat
        /\ history'[Len(history')] = User
        /\ \A k \in 1..Len(h) : history'[k] = h[k]
    BY <2>1
  <2>5. CASE h = <<>>
    <3>1. history' = <<User>>
      BY <2>1, <2>5
    <3>. QED
      BY <2>3, <2>4, <3>1, RolesDiffer DEF HistoryOK, HistoryInExchanges
  <2>6. CASE h = history /\ h # <<>>
    <3>1. 1 \in 1..Len(h) /\ history'[1] = history[1]
      BY <2>1, <2>4, <2>6
    <3>2. HistoryInExchanges'
      BY <2>4, <2>6, <3>1 DEF HistoryOK, HistoryInExchanges
    <3>. QED
      BY <2>3, <2>4, <3>2 DEF HistoryOK
  <2>. QED
    BY <2>2, <2>5, <2>6
<1>2. CASE Finish
  <2>. DEFINE h == Append(history, Assistant)
  <2>1. /\ h \in Seq({User, Assistant}) /\ h # <<>> /\ h[Len(h)] = Assistant
        /\ Len(h) = Len(history) + 1 /\ Len(history) \in Nat
        /\ \A k \in 1..Len(history) : h[k] = history[k]
    BY <1>0
  <2>2. Parity(h)
    BY <1>0, AppendParity DEF HistoryOK
  <2>3. /\ history' = Trimmed(h) /\ pc' = "idle"
        /\ history # <<>> /\ history[Len(history)] = User
    BY <1>2 DEF Finish, Leave, HistoryOK
  <2>. HIDE DEF h
  <2>4. NoTwoAnswers(h)
    BY <1>0, <2>1, <2>3 DEF NoTwoAnswers
  <2>5. /\ Parity(history') /\ NoTwoAnswers(history')
        /\ history' # <<>> /\ history'[Len(history')] = Assistant
        /\ history' = h \/ Len(history') = MaxHistoryLen
        /\ history' \in Seq({User, Assistant})
    BY <2>1, <2>2, <2>3, <2>4, TrimmedParity, TrimmedType
  <2>6. ASSUME history'[1] = Assistant
        PROVE  \E k \in 1..Len(history') - 1 : history'[k] = User /\ history'[k + 1] = User
    <3>1. CASE Len(history') = MaxHistoryLen
      BY <2>5, <2>6, <3>1, WholeExchanges
    <3>2. CASE history' = h
      <4>1. history[1] = Assistant
        BY <2>1, <2>3, <2>6, <3>2
      <4>2. PICK k \in 1..Len(history) - 1 : history[k] = User /\ history[k + 1] = User
        BY <2>3, <4>1 DEF HistoryOK, HistoryInExchanges
      <4>. QED
        BY <2>1, <3>2, <4>2
    <3>. QED
      BY <2>5, <3>1, <3>2
  <2>7. HistoryInExchanges'
    BY <2>5, <2>6 DEF HistoryInExchanges, NoTwoAnswers
  <2>. QED
    BY <2>3, <2>5, <2>7 DEF HistoryOK
<1>3. ASSUME NEW calls \in CallLists, CallTools(calls) PROVE HistoryOK'
  BY <1>3 DEF CallTools, HistoryOK, HistoryInExchanges
<1>4. ASSUME NEW err \in Errors, ChatFails(err) PROVE HistoryOK'
  BY <1>4 DEF ChatFails, Fail, Leave, HistoryOK, HistoryInExchanges
<1>5. CASE Backoff \/ BackoffCancelled \/ RunTool \/ SendResults \/ Cancel \/ UNCHANGED vars
  BY <1>5
  DEF Backoff, BackoffCancelled, Fail, Leave, RunTool, SendResults, Cancel, vars, HistoryOK,
      HistoryInExchanges
<1>. QED
  BY <1>1, <1>2, <1>3, <1>4, <1>5 DEF Next, Step

\* Trimming cuts whole exchanges: the history never holds two answers in a row,
\* and begins with an answer only while a question that a failed run left
\* unanswered is still in it.
THEOREM ExchangesKept == Spec => []HistoryInExchanges
<1>1. Init => HistoryOK
  BY DEF Init, HistoryOK, HistoryInExchanges, Parity
<1>2. HistoryOK => HistoryInExchanges
  BY DEF HistoryOK
<1>. QED
  BY <1>1, <1>2, InitType, NextType, HistoryKept, PTL DEF Spec

\* Every variable has its type, for any bounds.
THEOREM TypeCorrect == Spec => []TypeOK
  BY InitType, NextType, PTL DEF Spec
=============================================================================
