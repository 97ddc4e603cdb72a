------------------------- MODULE ApprovalGateProofs -------------------------
(* Theorems about ApprovalGate, for any requests and any number of humans.   *)
EXTENDS ApprovalGate, TLAPS

(* The inductive invariant: every place an answer passes on its way from a   *)
(* human to the outcome holds only what was said to that very request.       *)

\* Max waits for a request exactly while he is not out, and for one that has
\* no outcome yet; what he took from the channel was said.
WaiterOK ==
  /\ waiter = "out" <=> current = None
  /\ waiter # "out" => outcome[current] = "none"
  /\ waiter \in Answers => waiter \in answers[current]

ChannelOK ==
  \A r \in Requests, b \in Answers : replyCh[r] = <<b>> => b \in answers[r]

SendingOK ==
  \A h \in Humans : sending[h].place # "idle" =>
    /\ sending[h].to \in Requests
    /\ sending[h].answer \in answers[sending[h].to]

GateOK ==
  /\ TypeOK
  /\ WaiterOK
  /\ ChannelOK
  /\ SendingOK
  /\ PendingIsCurrent
  /\ OutcomeWasSaid

LEMMA InitGate == Init => GateOK
  BY GateAssumption
  DEF Init, GateOK, TypeOK, WaiterOK, ChannelOK, SendingOK, PendingIsCurrent, OutcomeWasSaid,
      Idle, Answers

\* A request that is being waited for is a request.
LEMMA CurrentIsRequest ==
  ASSUME GateOK, waiter # "out"
  PROVE  current \in Requests
  BY DEF GateOK, TypeOK, WaiterOK

\* A channel that is not empty holds one answer.
LEMMA ChannelHoldsOne ==
  ASSUME TypeOK, NEW r \in Requests, replyCh[r] # <<>>
  PROVE  \E b \in Answers : replyCh[r] = <<b>> /\ Head(replyCh[r]) = b /\ Tail(replyCh[r]) = <<>>
<1>. PICK b \in Answers : replyCh[r] = <<b>>
  BY DEF TypeOK
<1>. QED
  OBVIOUS

-----------------------------------------------------------------------------
(* Each step preserves the invariant. *)

LEMMA WaiterKeeps ==
  ASSUME GateOK, Waiter
  PROVE  GateOK'
<1>. USE DEF GateOK, TypeOK, WaiterOK, ChannelOK, SendingOK, PendingIsCurrent, OutcomeWasSaid
<1>1. ASSUME NEW r \in Requests, Register(r) PROVE GateOK'
  BY <1>1, GateAssumption DEF Register, Answers
<1>2. CASE SendRequest
  <2>1. TypeOK'
    BY <1>2, CurrentIsRequest DEF SendRequest
  <2>. QED
    BY <1>2, <2>1 DEF SendRequest, Answers
<1>3. CASE TakeReply
  <2>1. current \in Requests
    BY <1>3, CurrentIsRequest DEF TakeReply
  <2>2. PICK b \in Answers : /\ replyCh[current] = <<b>> /\ waiter' = b
                             /\ replyCh' = [replyCh EXCEPT ![current] = <<>>]
    BY <1>3, <2>1, ChannelHoldsOne DEF TakeReply
  <2>3. b \in answers[current]
    BY <2>1, <2>2
  <2>4. TypeOK'
    BY <1>3, <2>2 DEF TakeReply
  <2>5. ChannelOK'
    <3>1. SUFFICES ASSUME NEW r \in Requests, NEW c \in Answers, replyCh'[r] = <<c>>
                   PROVE  c \in answers'[r]
      OBVIOUS
    <3>2. r # current
      BY <2>1, <2>2, <3>1
    <3>. QED
      BY <1>3, <2>2, <3>1, <3>2 DEF TakeReply
  <2>. QED
    BY <1>3, <2>1, <2>2, <2>3, <2>4, <2>5 DEF TakeReply, Answers
<1>4. CASE TimeOut
  BY <1>4 DEF TimeOut, Answers
<1>5. CASE Return
  <2>1. current \in Requests
    BY <1>5, CurrentIsRequest DEF Return, Answers
  <2>2. TypeOK'
    BY <1>5, <2>1 DEF Return, Answers
  <2>3. OutcomeWasSaid'
    BY <1>5, <2>1 DEF Return, Answers
  <2>. QED
    BY <1>5, <2>2, <2>3 DEF Return, Answers
<1>. QED
  BY <1>1, <1>2, <1>3, <1>4, <1>5 DEF Waiter

LEMMA HumanKeeps ==
  ASSUME GateOK, NEW h \in Humans, Human(h)
  PROVE  GateOK'
<1>. USE DEF GateOK, TypeOK, WaiterOK, ChannelOK, SendingOK, PendingIsCurrent, OutcomeWasSaid
<1>1. ASSUME NEW r \in Requests, NEW b \in Answers, Answer(h, r, b) PROVE GateOK'
  <2>1. \A s \in Requests : answers[s] \subseteq answers'[s]
    BY <1>1 DEF Answer
  <2>2. b \in answers'[r]
    BY <1>1 DEF Answer
  <2>3. TypeOK'
    BY <1>1 DEF Answer
  <2>4. SendingOK'
    BY <1>1, <2>1, <2>2 DEF Answer
  <2>5. WaiterOK' /\ ChannelOK' /\ OutcomeWasSaid' /\ PendingIsCurrent'
    BY <1>1, <2>1, CurrentIsRequest DEF Answer, Answers
  <2>. QED
    BY <2>3, <2>4, <2>5
<1>2. CASE Lookup(h)
  <2>1. TypeOK' /\ SendingOK'
    BY <1>2 DEF Lookup, Idle, Answers
  <2>. QED
    BY <1>2, <2>1 DEF Lookup
<1>3. CASE Put(h)
  <2>1. sending[h].to \in Requests /\ sending[h].answer \in answers[sending[h].to]
    BY <1>3 DEF Put
  <2>2. TypeOK' /\ SendingOK'
    BY <1>3, <2>1 DEF Put, Idle, Answers
  <2>3. ChannelOK'
    BY <1>3, <2>1 DEF Put
  <2>. QED
    BY <1>3, <2>2, <2>3 DEF Put
<1>. QED
  BY <1>1, <1>2, <1>3 DEF Human

LEMMA NextGate == GateOK /\ [Next]_vars => GateOK'
<1>. SUFFICES ASSUME GateOK, [Next]_vars PROVE GateOK'
  OBVIOUS
<1>1. CASE UNCHANGED vars
  BY <1>1 DEF vars, GateOK, TypeOK, WaiterOK, ChannelOK, SendingOK, PendingIsCurrent,
              OutcomeWasSaid
<1>. QED
  BY <1>1, WaiterKeeps, HumanKeeps DEF Next

-----------------------------------------------------------------------------
(* What follows. *)

THEOREM GateInvariant == Spec => []GateOK
  BY InitGate, NextGate, PTL DEF Spec

\* RequestApproval returns an answer only if a human gave it to that request,
\* however many answer, at whatever moment of whichever wait.
THEOREM OutcomeSaid == Spec => []OutcomeWasSaid
<1>1. GateOK => OutcomeWasSaid
  BY DEF GateOK
<1>. QED
  BY <1>1, GateInvariant, PTL

\* SendAndWait leaves nothing in MessageBus.pending.
THEOREM NothingLeaks == Spec => []PendingIsCurrent
<1>1. GateOK => PendingIsCurrent
  BY DEF GateOK
<1>. QED
  BY <1>1, GateInvariant, PTL

\* An answer that is in the reply channel is not replaced by a later one.
THEOREM FirstStands == Spec => FirstAnswerStands
<1>1. GateOK /\ [Next]_vars =>
        [\A r \in Requests, b \in Answers :
           replyCh[r] = <<b>> => \/ replyCh'[r] = <<b>>
                                 \/ waiter' = b /\ current = r]_vars
  <2>. SUFFICES ASSUME GateOK, Next, NEW r \in Requests, NEW b \in Answers, replyCh[r] = <<b>>
                PROVE  replyCh'[r] = <<b>> \/ (waiter' = b /\ current = r)
    BY DEF vars
  <2>1. CASE TakeReply
    <3>1. CASE current = r
      BY <2>1, <3>1, ChannelHoldsOne DEF TakeReply, GateOK
    <3>2. CASE current # r
      BY <2>1, <3>2 DEF TakeReply, GateOK, TypeOK
    <3>. QED
      BY <3>1, <3>2
  <2>2. ASSUME NEW h \in Humans, Put(h) PROVE replyCh'[r] = <<b>>
    BY <2>2 DEF Put, GateOK, TypeOK
  <2>3. CASE (\E s \in Requests : Register(s)) \/ SendRequest \/ TimeOut \/ Return
    BY <2>3 DEF Register, SendRequest, TimeOut, Return
  <2>4. ASSUME NEW h \in Humans, Lookup(h) \/ \E s \in Requests, c \in Answers : Answer(h, s, c)
        PROVE  replyCh'[r] = <<b>>
    BY <2>4 DEF Lookup, Answer
  <2>. QED
    BY <2>1, <2>2, <2>3, <2>4 DEF Next, Waiter, Human
<1>. QED
  BY <1>1, GateInvariant, PTL DEF Spec, FirstAnswerStands

\* The gate implements what it promises: every step of the waiter and of the
\* humans is a step of HumanDecision or leaves its variables alone.
THEOREM KeepsPromise == Spec => PromiseKept
<1>1. Init => Promise!Init
  BY DEF Init, Promise!Init
<1>2. GateOK /\ [Next]_vars => [Promise!Next]_(Promise!vars)
  <2>. SUFFICES ASSUME GateOK, [Next]_vars PROVE Promise!Next \/ UNCHANGED Promise!vars
    OBVIOUS
  <2>1. CASE Return
    <3>1. current \in Requests /\ outcome[current] = "none"
      BY <2>1, CurrentIsRequest DEF Return, GateOK, WaiterOK, Answers
    <3>2. waiter \in answers[current] \cup {"timeout"}
      BY <2>1 DEF Return, GateOK, WaiterOK
    <3>3. Promise!Decide(current, waiter)
      BY <2>1, <3>1, <3>2 DEF Return, Promise!Decide
    <3>. QED
      BY <2>1, <3>1, <3>3 DEF Return, Promise!Next, Answers
  <2>2. ASSUME NEW h \in Humans, NEW r \in Requests, NEW b \in Answers, Answer(h, r, b)
        PROVE  Promise!Next
    <3>1. Promise!Say(r, b)
      BY <2>2 DEF Answer, Promise!Say
    <3>. QED
      BY <3>1 DEF Promise!Next, Answers
  <2>3. CASE \/ \E r \in Requests : Register(r)
             \/ SendRequest \/ TakeReply \/ TimeOut
             \/ \E h \in Humans : Lookup(h) \/ Put(h)
             \/ UNCHANGED vars
    BY <2>3 DEF Register, SendRequest, TakeReply, TimeOut, Lookup, Put, vars, Promise!vars
  <2>. QED
    BY <2>1, <2>2, <2>3 DEF Next, Waiter, Human
<1>. QED
  BY <1>1, <1>2, GateInvariant, PTL DEF Spec, PromiseKept, Promise!Spec
=============================================================================
