-------------------------- MODULE DialogueProofs --------------------------
(* Theorems about Dialogue, for any capacity of the inboxes and any number   *)
(* of plans, lines and verdicts.                                             *)
EXTENDS Dialogue, SequenceTheorems, TLAPS

MaxLabels == {"idle", "thinking", "await", "accepted", "rejected", "refused", "reporting",
              "telling", "exited"}

DialogueType ==
  /\ inbox \in [Subscribers -> Seq(Messages)]
  /\ cli \in {"idle", "reply", "approval", "stopping", "exited"}
  /\ max \in MaxLabels
  /\ asked \in 0..MaxPlans
  /\ max = "await" => asked \in Plans
  /\ replyCh \in {"empty", "yes", "no"}
  /\ owed \in [Plans -> Nat]

\* A yes in the reply channel Max reads was said to the request on the screen.
ConsentOK ==
  /\ max = "await" /\ replyCh = "yes" => asked \in consented
  /\ ConsentIsInformed

LastTold == inbox["user"][Len(inbox["user"])]

\* While Max waits he sends nothing: his request is the last the terminal hears.
ScreenOK ==
  max = "await" /\ replyCh = "empty" /\ Reading /\ Message("ask", asked) \notin dropped =>
    IF inbox["user"] = <<>> THEN cli = "approval" /\ pendingMsg = asked
                            ELSE LastTold = Message("ask", asked)

\* A request that nothing follows comes from a handler that is not over, and
\* the user who sees it is owed a reply as the one who waits is.
OwedOK ==
  ~Unheard =>
    /\ inbox["user"] # <<>> /\ LastTold.type = "ask"
         => max \in {"await", "accepted", "rejected", "refused"}
    /\ cli \in {"reply", "approval"} =>
         \/ max \notin {"idle", "exited"}
         \/ InInbox("max", Message("input", 0))
         \/ inbox["user"] # <<>>
         \/ cancelled

-----------------------------------------------------------------------------
(* Inboxes. *)

LEMMA Names == "user" \in Subscribers /\ "max" \in Subscribers
  BY DialogueAssumption

LEMMA PostTo ==
  ASSUME DialogueType, NEW to \in Subscribers, NEW msg \in Messages, Post(to, msg)
  PROVE  /\ inbox' \in [Subscribers -> Seq(Messages)]
         /\ \A n \in Subscribers \ {to} : inbox'[n] = inbox[n]
         /\ dropped \subseteq dropped'
         /\ \/ msg \in dropped'
            \/ /\ inbox'[to] # <<>>
               /\ inbox'[to][Len(inbox'[to])] = msg
               /\ InInbox(to, msg)'
<1>1. CASE Accepts(to)
  <2>1. inbox' = [inbox EXCEPT ![to] = Append(@, msg)] /\ dropped' = dropped
    BY <1>1 DEF Post, Send
  <2>2. inbox[to] \in Seq(Messages) /\ inbox'[to] = Append(inbox[to], msg)
    BY <2>1 DEF DialogueType
  <2>3. Len(inbox'[to]) = Len(inbox[to]) + 1 /\ inbox'[to][Len(inbox[to]) + 1] = msg
    BY <2>2
  <2>4. InInbox(to, msg)'
    BY <2>2, <2>3 DEF InInbox
  <2>5. inbox'[to] # <<>>
    BY <2>2
  <2>7. inbox' \in [Subscribers -> Seq(Messages)]
    BY <2>1, <2>2 DEF DialogueType
  <2>6. \A n \in Subscribers \ {to} : inbox'[n] = inbox[n]
    BY <2>1 DEF DialogueType
  <2>. QED
    BY <2>1, <2>3, <2>4, <2>5, <2>6, <2>7
<1>2. CASE ~Accepts(to)
  BY <1>2 DEF Post, Send, DialogueType
<1>. QED
  BY <1>1, <1>2

LEMMA ReceiveFrom ==
  ASSUME DialogueType, NEW name \in Subscribers, NEW msg, Receive(name, msg)
  PROVE  /\ inbox' \in [Subscribers -> Seq(Messages)]
         /\ \A n \in Subscribers \ {name} : inbox'[n] = inbox[n]
         /\ inbox[name] # <<>>
         /\ inbox'[name] = <<>> => inbox[name][Len(inbox[name])] = msg
         /\ inbox'[name] # <<>> =>
              inbox'[name][Len(inbox'[name])] = inbox[name][Len(inbox[name])]
         /\ \A m : m # msg /\ InInbox(name, m) => InInbox(name, m)'
<1>1. /\ inbox[name] \in Seq(Messages) /\ inbox[name] # <<>>
      /\ inbox'[name] = Tail(inbox[name]) /\ msg = inbox[name][1]
      /\ inbox' = [inbox EXCEPT ![name] = Tail(@)]
  BY DEF DialogueType, Receive
<1>2. ASSUME NEW m, m # msg, InInbox(name, m)
      PROVE  InInbox(name, m)'
  <2>1. PICK k \in 1..Len(inbox[name]) : inbox[name][k] = m
    BY <1>2 DEF InInbox
  <2>2. k - 1 \in 1..Len(inbox'[name]) /\ inbox'[name][k - 1] = m
    BY <1>1, <1>2, <2>1
  <2>. QED
    BY <2>2 DEF InInbox
<1>3. inbox'[name] = <<>> => Len(inbox[name]) = 1
  <2>1. Len(Tail(inbox[name])) = Len(inbox[name]) - 1 /\ Len(inbox[name]) \in Nat
    BY <1>1, HeadTailProperties
  <2>2. inbox'[name] = <<>> => Len(inbox'[name]) = 0
    BY EmptySeq
  <2>. QED
    BY <1>1, <2>1, <2>2
<1>4. inbox'[name] # <<>> =>
        /\ Len(inbox'[name]) = Len(inbox[name]) - 1 /\ Len(inbox'[name]) > 0
        /\ inbox'[name][Len(inbox[name]) - 1] = inbox[name][Len(inbox[name])]
  BY <1>1
<1>5. inbox' \in [Subscribers -> Seq(Messages)]
  BY <1>1 DEF DialogueType
<1>. QED
  BY <1>1, <1>2, <1>3, <1>4, <1>5 DEF DialogueType

-----------------------------------------------------------------------------
(* The invariant, through every step. *)

DialogueOK == DialogueType /\ ConsentOK /\ ScreenOK /\ OwedOK

LEMMA InitDialogue == Init => DialogueOK
  BY Names, DialogueAssumption
  DEF Init, BusInit, DialogueOK, DialogueType, ConsentOK, ConsentIsInformed, ScreenOK, OwedOK, MaxLabels,
      Plans, Messages

\* A step that neither sends nor receives.
LEMMA SilentKeeps ==
  ASSUME DialogueOK, UNCHANGED inbox,
         \/ \E b \in {"yes", "no"} : Answer(b)
         \/ Quit \/ CloseInput \/ Signal \/ Exit
         \/ TakeReply \/ TimeOut \/ MaxExits
  PROVE  DialogueOK'
<1>. USE DEF DialogueOK, DialogueType, MaxLabels, Plans, TypeLine, Reading, term, lead, stop, history
<1>1. ASSUME NEW b \in {"yes", "no"}, Answer(b)
      PROVE  DialogueOK'
  <2>1. DialogueType'
    BY <1>1 DEF Answer
  <2>2. ConsentOK'
    BY <1>1 DEF Answer, ConsentOK, ConsentIsInformed
  <2>3. ScreenOK'
    BY <1>1 DEF Answer, ScreenOK, LastTold
  <2>4. OwedOK'
    BY <1>1 DEF Answer, OwedOK, LastTold, Unheard, InInbox
  <2>. QED
    BY <2>1, <2>2, <2>3, <2>4
<1>2. CASE Quit \/ CloseInput \/ Signal \/ Exit
  <2>1. DialogueType'
    BY <1>2 DEF Quit, CloseInput, Signal, Exit
  <2>2. ConsentOK'
    BY <1>2 DEF Quit, CloseInput, Signal, Exit, ConsentOK, ConsentIsInformed
  <2>3. ScreenOK'
    BY <1>2 DEF Quit, CloseInput, Signal, Exit, ScreenOK, LastTold
  <2>4. OwedOK'
    BY <1>2 DEF Quit, CloseInput, Signal, Exit, OwedOK, LastTold, Unheard, InInbox
  <2>. QED
    BY <2>1, <2>2, <2>3, <2>4
<1>3. CASE TakeReply \/ TimeOut \/ MaxExits
  <2>1. DialogueType'
    BY <1>3, DialogueAssumption DEF TakeReply, TimeOut, MaxExits
  <2>2. ConsentOK'
    BY <1>3 DEF TakeReply, TimeOut, MaxExits, ConsentOK, ConsentIsInformed
  <2>3. ScreenOK'
    BY <1>3 DEF TakeReply, TimeOut, MaxExits, ScreenOK
  <2>4. OwedOK'
    BY <1>3 DEF TakeReply, TimeOut, MaxExits, OwedOK, LastTold, Unheard, InInbox
  <2>. QED
    BY <2>1, <2>2, <2>3, <2>4
<1>. QED
  BY <1>1, <1>2, <1>3

\* A step that sends to Max.
LEMMA ToMaxKeeps ==
  ASSUME DialogueOK,
         Request \/ \E p \in Plans, type \in {"alldone", "failed"} : Tell(p, type)
  PROVE  DialogueOK'
<1>. USE DEF DialogueOK, MaxLabels, Plans, TypeLine, Reading, term, lead, stop, history
<1>. PICK msg \in Messages :
       /\ Post("max", msg)
       /\ Request => msg = Message("input", 0)
  <2>1. CASE Request
    BY <2>1, DialogueAssumption DEF Request, Message, Messages
  <2>2. ASSUME NEW p \in Plans, NEW type \in {"alldone", "failed"}, Tell(p, type), ~Request
        PROVE  Post("max", Message(type, p)) /\ Message(type, p) \in Messages
    BY <2>2 DEF Tell, Message, Messages
  <2>. QED
    BY <2>1, <2>2 DEF Request, Message, Messages
<1>1. /\ inbox' \in [Subscribers -> Seq(Messages)]
      /\ \A n \in Subscribers \ {"max"} : inbox'[n] = inbox[n]
      /\ dropped \subseteq dropped'
      /\ msg \in dropped' \/ InInbox("max", msg)'
  BY Names, PostTo
<1>2. inbox'["user"] = inbox["user"]
  BY Names, <1>1
<1>3. \A m : InInbox("max", m) => InInbox("max", m)'
  <2>1. CASE Accepts("max")
    BY <2>1, Names DEF Post, Send, InInbox, DialogueType
  <2>2. CASE ~Accepts("max")
    BY <2>2 DEF Post, Send, InInbox
  <2>. QED
    BY <2>1, <2>2
<1>4. Unheard => Unheard'
  BY <1>1 DEF Unheard
<1>5. UNCHANGED <<max, asked, replyCh, cancelled, consented, pendingMsg>>
  BY DEF Request, Tell
<1>6. DialogueType'
  BY <1>1 DEF DialogueType, Request, Tell
<1>7. ConsentOK'
  BY DEF ConsentOK, ConsentIsInformed, Request, Tell, DialogueType
<1>8. ScreenOK'
  BY <1>1, <1>2, <1>5 DEF ScreenOK, LastTold, Request, Tell
<1>9. OwedOK'
  <2>1. CASE Request
    BY <2>1, <1>1, <1>2, <1>4, <1>5 DEF OwedOK, LastTold, Unheard, Request
  <2>2. CASE cli' = cli
    BY <2>2, <1>1, <1>2, <1>3, <1>4, <1>5 DEF OwedOK, LastTold
  <2>. QED
    BY <2>1, <2>2 DEF Tell
<1>. QED
  BY <1>6, <1>7, <1>8, <1>9

\* A step in which Max tells the user something.
LEMMA ToUserKeeps ==
  ASSUME DialogueOK,
         \/ ReplyText \/ ReplyAccepted \/ ReplyRejected \/ ReplyRefused
         \/ ReplyReport \/ ReplyFailed
         \/ \E p \in Plans : Ask(p)
  PROVE  DialogueOK'
<1>. USE DEF DialogueOK, MaxLabels, Plans, Reading, term, stop
<1>1. ASSUME NEW here \in MaxLabels, NEW there \in {"idle", "refused"}, Reply(here, there),
             here \notin {"await", "idle", "exited"}, there = "refused" => here = "rejected"
      PROVE  DialogueOK'
  <2>1. Message("reply", 0) \in Messages
    BY DialogueAssumption DEF Message, Messages
  <2>2. /\ inbox' \in [Subscribers -> Seq(Messages)]
        /\ inbox'["max"] = inbox["max"]
        /\ dropped \subseteq dropped'
        /\ \/ Message("reply", 0) \in dropped'
           \/ inbox'["user"] # <<>> /\ LastTold' = Message("reply", 0)
    BY <1>1, <2>1, Names, PostTo DEF Reply, LastTold
  <2>3. max' = there /\ UNCHANGED <<cli, pendingMsg, asked, replyCh, owed, cancelled, consented>>
    BY <1>1 DEF Reply
  <2>4. DialogueType'
    BY <2>2, <2>3 DEF DialogueType
  <2>5. ConsentOK'
    BY <2>3 DEF ConsentOK, ConsentIsInformed
  <2>6. ScreenOK'
    BY <2>3 DEF ScreenOK
  <2>7. OwedOK'
    BY <2>2, <2>3 DEF OwedOK, Unheard, Message
  <2>. QED
    BY <2>4, <2>5, <2>6, <2>7
<1>2. ASSUME NEW p \in Plans, Ask(p)
      PROVE  DialogueOK'
  <2>1. Message("ask", p) \in Messages
    BY DialogueAssumption DEF Message, Messages
  <2>2. /\ inbox' \in [Subscribers -> Seq(Messages)]
        /\ inbox'["max"] = inbox["max"]
        /\ dropped \subseteq dropped'
        /\ \/ Message("ask", p) \in dropped'
           \/ inbox'["user"] # <<>> /\ LastTold' = Message("ask", p)
    BY <1>2, <2>1, Names, PostTo DEF Ask, LastTold
  <2>3. /\ max' = "await" /\ asked' = p /\ replyCh' = "empty"
        /\ UNCHANGED <<cli, pendingMsg, owed, cancelled, consented>>
    BY <1>2 DEF Ask
  <2>4. DialogueType'
    BY <2>2, <2>3, DialogueAssumption DEF DialogueType
  <2>5. ConsentOK'
    BY <2>3 DEF ConsentOK, ConsentIsInformed
  <2>6. ScreenOK'
    BY <2>2, <2>3 DEF ScreenOK
  <2>7. OwedOK'
    BY <2>3 DEF OwedOK
  <2>. QED
    BY <2>4, <2>5, <2>6, <2>7
<1>. QED
  BY <1>1, <1>2
  DEF ReplyText, ReplyAccepted, ReplyRejected, ReplyRefused, ReplyReport, ReplyFailed

\* A step in which Max hears something.
LEMMA MaxHearsKeeps ==
  ASSUME DialogueOK, HearInput \/ HearAllDone \/ \E p \in Plans : HearFailed(p)
  PROVE  DialogueOK'
<1>. USE DEF DialogueOK, MaxLabels, Plans, Reading, term, stop, history
<1>. PICK msg :
       /\ Receive("max", msg)
       /\ max' \notin {"await", "accepted", "rejected", "refused", "exited"} /\ max' \in MaxLabels
       /\ max' = "idle" => msg.type = "failed"
  <2>1. CASE HearInput
    BY <2>1 DEF HearInput
  <2>2. CASE HearAllDone
    BY <2>2 DEF HearAllDone
  <2>3. CASE \E p \in Plans : HearFailed(p)
    <3>. PICK p \in Plans : HearFailed(p)
      BY <2>3
    <3>1. Message("failed", p).type = "failed"
      BY DEF Message
    <3>. QED
      BY <3>1 DEF HearFailed
  <2>. QED
    BY <2>1, <2>2, <2>3
<1>1. /\ max = "idle"
      /\ UNCHANGED <<cli, pendingMsg, asked, replyCh, owed, cancelled, consented, dropped>>
  BY DEF HearInput, HearAllDone, HearFailed
<1>2. /\ inbox' \in [Subscribers -> Seq(Messages)]
      /\ inbox'["user"] = inbox["user"]
      /\ \A m : m # msg /\ InInbox("max", m) => InInbox("max", m)'
  BY Names, ReceiveFrom
<1>3. DialogueType'
  BY <1>1, <1>2 DEF DialogueType
<1>4. ConsentOK'
  BY <1>1 DEF ConsentOK, ConsentIsInformed
<1>5. ScreenOK'
  BY DEF ScreenOK
<1>6. OwedOK'
  <2>1. max' = "idle" => msg # Message("input", 0)
    BY DEF Message
  <2>. QED
    BY <1>1, <1>2, <2>1 DEF OwedOK, LastTold, Unheard
<1>. QED
  BY <1>3, <1>4, <1>5, <1>6

\* A step in which the user hears something.
LEMMA UserHearsKeeps ==
  ASSUME DialogueOK, ShowReply \/ \E p \in Plans : ShowRequest(p)
  PROVE  DialogueOK'
<1>. USE DEF DialogueOK, MaxLabels, Plans, Reading, lead, stop, history
<1>1. ASSUME NEW msg, Receive("user", msg)
      PROVE  /\ inbox' \in [Subscribers -> Seq(Messages)]
             /\ inbox'["max"] = inbox["max"]
             /\ inbox["user"] # <<>>
             /\ IF inbox'["user"] = <<>> THEN LastTold = msg ELSE LastTold' = LastTold
  BY <1>1, Names, ReceiveFrom DEF LastTold
<1>2. CASE ShowReply
  <2>. PICK msg : msg = Message("reply", 0) /\ Receive("user", msg)
    BY <1>2 DEF ShowReply
  <2>1. DialogueType'
    BY <1>1, <1>2 DEF ShowReply, DialogueType
  <2>2. ConsentOK'
    BY <1>2 DEF ShowReply, ConsentOK, ConsentIsInformed
  <2>3. ScreenOK'
    BY <1>1, <1>2 DEF ShowReply, ScreenOK, Message
  <2>4. OwedOK'
    BY <1>1, <1>2 DEF ShowReply, OwedOK, Unheard
  <2>. QED
    BY <2>1, <2>2, <2>3, <2>4
<1>3. ASSUME NEW p \in Plans, ShowRequest(p)
      PROVE  DialogueOK'
  <2>. PICK msg : msg = Message("ask", p) /\ Receive("user", msg)
    BY <1>3 DEF ShowRequest
  <2>1. DialogueType'
    BY <1>1, <1>3 DEF ShowRequest, DialogueType
  <2>2. ConsentOK'
    BY <1>3 DEF ShowRequest, ConsentOK, ConsentIsInformed
  <2>3. ScreenOK'
    BY <1>1, <1>3 DEF ShowRequest, ScreenOK, Message
  <2>4. OwedOK'
    BY <1>1, <1>3 DEF ShowRequest, OwedOK, Unheard, Message
  <2>. QED
    BY <2>1, <2>2, <2>3, <2>4
<1>. QED
  BY <1>2, <1>3

LEMMA NextDialogue == DialogueOK /\ [Next]_vars => DialogueOK'
<1>. SUFFICES ASSUME DialogueOK, [Next]_vars
              PROVE  DialogueOK'
  OBVIOUS
<1>1. CASE UNCHANGED vars
  BY <1>1 DEF vars, term, lead, stop, history, DialogueOK, DialogueType, ConsentOK, ConsentIsInformed,
              ScreenOK, OwedOK, LastTold, Unheard, Reading, InInbox
<1>2. CASE \/ \E b \in {"yes", "no"} : Answer(b)
           \/ Quit \/ CloseInput \/ Signal \/ Exit \/ TakeReply \/ TimeOut \/ MaxExits
  <2>1. UNCHANGED inbox
    BY <1>2 DEF Answer, Quit, CloseInput, Signal, Exit, TakeReply, TimeOut, MaxExits
  <2>. QED
    BY <1>2, <2>1, SilentKeeps
<1>. QED
  BY <1>1, <1>2, ToMaxKeeps, ToUserKeeps, MaxHearsKeeps, UserHearsKeeps DEF Next, Terminal, Max

THEOREM DialogueInvariant == Spec => []DialogueOK
  BY InitDialogue, NextDialogue, PTL DEF Spec

-----------------------------------------------------------------------------
(* What follows. *)

\* Whatever replies and reports are still on their way when Max asks, the user
\* gets to answer: the request comes after them and stays on the screen.
THEOREM RequestStays == Spec => []RequestIsOnScreen
<1>1. DialogueOK => RequestIsOnScreen
  <2>. SUFFICES ASSUME DialogueType, ScreenOK
                PROVE  RequestIsOnScreen
    BY DEF DialogueOK
  <2>1. inbox["user"] # <<>> => InInbox("user", LastTold)
    BY Names DEF DialogueType, InInbox, LastTold
  <2>. QED
    BY <2>1 DEF ScreenOK, RequestIsOnScreen
<1>. QED
  BY <1>1, DialogueInvariant, PTL

\* No yes that was typed for one plan, however late, carries out another.
THEOREM ConsentInformed == Spec => []ConsentIsInformed
<1>1. DialogueOK => ConsentIsInformed
  BY DEF DialogueOK, ConsentOK
<1>. QED
  BY <1>1, DialogueInvariant, PTL

\* A user told to wait waits for something, unless an inbox was full.
THEOREM ReplyOwed == Spec => []ReplyIsOwed
<1>1. DialogueOK => ReplyIsOwed
  BY DEF DialogueOK, OwedOK, ReplyIsOwed
<1>. QED
  BY <1>1, DialogueInvariant, PTL
=============================================================================
