---------------------------- MODULE ApprovalGate ----------------------------
(***************************************************************************)
(* RequestApproval of internal/gate/approval.go on top of SendAndWait and  *)
(* the reply half of Send in internal/bus/bus.go.  Max's goroutine waits   *)
(* for one request at a time; the humans who answer it (the terminal, or   *)
(* any number of browser tabs posting to /api/approval) look the reply     *)
(* channel up under the lock and send to it after releasing it, so an      *)
(* answer may cross the end of the wait.                                   *)
(***************************************************************************)
EXTENDS Naturals, Sequences

CONSTANTS
  Requests,  \* message IDs of the approval requests, fresh for each
  Humans,    \* the terminal, browser tabs
  None       \* no request

ASSUME GateAssumption == None \notin Requests

Answers == {"approved", "rejected"}  \* the boolean payload

VARIABLES
  waiter,   \* where Max's goroutine is in SendAndWait
  current,  \* the request it is about
  pending,  \* MessageBus.pending: the requests with an entry
  replyCh,  \* the channel made for each request, of size 1
  shown,    \* what each human has been shown
  sending,  \* what each human's Send is doing: a request, an answer, a place
  answers,  \* history: what humans have said to each request
  outcome   \* history: what RequestApproval returned for each request

vars == <<waiter, current, pending, replyCh, shown, sending, answers, outcome>>

Idle == [place |-> "idle", to |-> None, answer |-> "rejected"]

Init ==
  /\ waiter = "out"
  /\ current = None
  /\ pending = {}
  /\ replyCh = [r \in Requests |-> <<>>]
  /\ shown = [h \in Humans |-> {}]
  /\ sending = [h \in Humans |-> Idle]
  /\ answers = [r \in Requests |-> {}]
  /\ outcome = [r \in Requests |-> "none"]

-----------------------------------------------------------------------------
(* SendAndWait *)

Register(r) ==
  /\ waiter = "out"
  /\ outcome[r] = "none"
  /\ waiter' = "registered"
  /\ current' = r
  /\ pending' = pending \cup {r}
  /\ UNCHANGED <<replyCh, shown, sending, answers, outcome>>

\* The request reaches the humans who have room for it.
SendRequest ==
  /\ waiter = "registered"
  /\ waiter' = "waiting"
  /\ \E H \in SUBSET Humans :
       shown' = [h \in Humans |-> IF h \in H THEN shown[h] \cup {current} ELSE shown[h]]
  /\ UNCHANGED <<current, pending, replyCh, sending, answers, outcome>>

TakeReply ==
  /\ waiter = "waiting"
  /\ replyCh[current] # <<>>
  /\ waiter' = Head(replyCh[current])
  /\ replyCh' = [replyCh EXCEPT ![current] = Tail(@)]
  /\ UNCHANGED <<current, pending, shown, sending, answers, outcome>>

\* A mistake: the wait has no time limit.
TimeOut_Never ==
  /\ waiter = "waiting"
  /\ FALSE
  /\ UNCHANGED vars

\* A mistake: silence is consent.
TimeOut_Approves ==
  /\ waiter = "waiting"
  /\ waiter' = "approved"
  /\ UNCHANGED <<current, pending, replyCh, shown, sending, answers, outcome>>

TimeOut ==
  /\ waiter = "waiting"
  /\ waiter' = "timeout"
  /\ UNCHANGED <<current, pending, replyCh, shown, sending, answers, outcome>>

\* A mistake: the entry is not deleted.
Return_Leaks ==
  /\ waiter \in Answers \cup {"timeout"}
  /\ outcome' = [outcome EXCEPT ![current] = waiter]
  /\ waiter' = "out"
  /\ current' = None
  /\ UNCHANGED <<pending, replyCh, shown, sending, answers>>

\* The deferred delete, and the return to RequestApproval.
Return ==
  /\ waiter \in Answers \cup {"timeout"}
  /\ pending' = pending \ {current}
  /\ outcome' = [outcome EXCEPT ![current] = waiter]
  /\ waiter' = "out"
  /\ current' = None
  /\ UNCHANGED <<replyCh, shown, sending, answers>>

-----------------------------------------------------------------------------
(* Send of an answer; the observers run before the reply is looked up. *)

Answer(h, r, b) ==
  /\ sending[h].place = "idle"
  /\ r \in shown[h]
  /\ sending' = [sending EXCEPT ![h] = [place |-> "lookup", to |-> r, answer |-> b]]
  /\ answers' = [answers EXCEPT ![r] = @ \cup {b}]
  /\ UNCHANGED <<waiter, current, pending, replyCh, shown, outcome>>

Lookup(h) ==
  /\ sending[h].place = "lookup"
  /\ sending' = [sending EXCEPT ![h] = IF @.to \in pending THEN [@ EXCEPT !.place = "put"]
                                                          ELSE Idle]
  /\ UNCHANGED <<waiter, current, pending, replyCh, shown, answers, outcome>>

\* A mistake: the answer goes to whoever waits now.
Put_ToCurrent(h) ==
  /\ sending[h].place = "put"
  /\ replyCh' = [r \in Requests |->
                   IF r = current /\ replyCh[r] = <<>> THEN <<sending[h].answer>> ELSE replyCh[r]]
  /\ sending' = [sending EXCEPT ![h] = Idle]
  /\ UNCHANGED <<waiter, current, pending, shown, answers, outcome>>

\* A mistake: the latest answer replaces the one in the channel.
Put_Replaces(h) ==
  /\ sending[h].place = "put"
  /\ replyCh' = [replyCh EXCEPT ![sending[h].to] = <<sending[h].answer>>]
  /\ sending' = [sending EXCEPT ![h] = Idle]
  /\ UNCHANGED <<waiter, current, pending, shown, answers, outcome>>

Put(h) ==
  /\ sending[h].place = "put"
  /\ replyCh' = [replyCh EXCEPT ![sending[h].to] =
                   IF @ = <<>> THEN <<sending[h].answer>> ELSE @]
  /\ sending' = [sending EXCEPT ![h] = Idle]
  /\ UNCHANGED <<waiter, current, pending, shown, answers, outcome>>

Waiter == (\E r \in Requests : Register(r)) \/ SendRequest \/ TakeReply \/ TimeOut \/ Return

Human(h) ==
  \/ \E r \in Requests, b \in Answers : Answer(h, r, b)
  \/ Lookup(h)
  \/ Put(h)

Next == Waiter \/ \E h \in Humans : Human(h)

\* time.After ends every wait, and a Send that has begun goes on; nobody has to
\* answer and Max need not ask.
Fairness ==
  /\ WF_vars(SendRequest \/ TakeReply \/ TimeOut \/ Return)
  /\ \A h \in Humans : WF_vars(Lookup(h) \/ Put(h))

Spec == Init /\ [][Next]_vars /\ Fairness

-----------------------------------------------------------------------------
(* Correctness. *)

TypeOK ==
  /\ waiter \in {"out", "registered", "waiting", "timeout"} \cup Answers
  /\ current \in Requests \cup {None}
  /\ pending \subseteq Requests
  /\ replyCh \in [Requests -> {<<>>} \cup {<<b>> : b \in Answers}]
  /\ shown \in [Humans -> SUBSET Requests]
  /\ sending \in [Humans -> [place : {"idle", "lookup", "put"},
                             to : Requests \cup {None}, answer : Answers]]
  /\ answers \in [Requests -> SUBSET Answers]
  /\ outcome \in [Requests -> {"none", "timeout"} \cup Answers]

\* An outcome is an answer to that request: an answer that crosses the timeout
\* of one request never decides the next one, whoever sends it when (pending is
\* keyed by message ID and the channel is the request's own).
OutcomeWasSaid ==
  \A r \in Requests : outcome[r] \in Answers => outcome[r] \in answers[r]

\* The map holds the request being waited for and nothing else: no return path
\* of SendAndWait leaves an entry behind for a later answer to find.
PendingIsCurrent ==
  pending = (IF waiter = "out" THEN {} ELSE {current})

\* While the wait goes on, the first answer put stays in the channel until it
\* is taken: a second human cannot turn it around.
FirstAnswerStands ==
  [][\A r \in Requests, b \in Answers :
       replyCh[r] = <<b>> => \/ replyCh'[r] = <<b>>
                             \/ waiter' = b /\ current = r]_vars

\* A request that has been made is answered or times out.
EveryWaitEnds ==
  \A r \in Requests : (current = r) ~> (outcome[r] # "none")

\* The gate keeps its promise.
Promise == INSTANCE HumanDecision WITH
  Requests <- Requests,
  answers <- answers,
  outcome <- outcome
PromiseKept == Promise!Spec
=============================================================================
