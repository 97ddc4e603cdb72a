------------------------------ MODULE Dialogue ------------------------------
(***************************************************************************)
(* The conversation of the terminal with Max: runCLI, handleInput and      *)
(* handleMessage of internal/runtime/runtime.go, the handlers of           *)
(* internal/agent/max.go that answer them, and Stop.  A plan is named by   *)
(* its approval request.  The task table is left to Scheduler: here the    *)
(* scheduler's loop tells Max up to Verdicts things about an accepted      *)
(* plan, in any order, or falls silent.  The terminal and Max run          *)
(* concurrently and meet in their inboxes and in the reply channel.        *)
(***************************************************************************)
EXTENDS MessageBus

CONSTANTS
  MaxPlans,  \* bound: the plans Max asks about
  MaxLines,  \* bound: the lines the user types
  Verdicts   \* bound: what the loop tells Max about one plan

ASSUME DialogueAssumption ==
  /\ {"user", "max"} \subseteq Subscribers
  /\ MaxPlans \in Nat /\ MaxLines \in Nat /\ Verdicts \in Nat

VARIABLES
  cli,         \* Runtime.state, and the end of the terminal's goroutine
  pendingMsg,  \* Runtime.pendingMsg
  stdin,       \* whether inputCh is open
  lines,       \* history: how many lines the user typed
  max,         \* where Max's goroutine is
  asked,       \* the last approval request, 0 for none
  replyCh,     \* the reply channel of that request
  table,       \* the plan in the task table, 0 for none
  owed,        \* what the loop may still tell Max about each plan
  cancelled,   \* the context
  signalled,   \* the signal handler of main is in Stop
  consented,   \* history: the requests on the screen when the user said yes
  dropped      \* history: the messages a full inbox dropped

term == <<cli, pendingMsg, stdin, lines>>
lead == <<max, asked, replyCh, table>>
stop == <<cancelled, signalled>>
history == <<consented, dropped>>
vars == <<inbox, term, lead, owed, stop, history>>

Plans == 1..MaxPlans
Message(type, p) == [type |-> type, plan |-> p]
Messages == [type : {"input", "alldone", "failed", "reply", "ask"}, plan : 0..MaxPlans]

Init ==
  /\ BusInit
  /\ cli = "idle" /\ pendingMsg = 0 /\ stdin = "open" /\ lines = 0
  /\ max = "idle" /\ asked = 0 /\ replyCh = "empty" /\ table = 0
  /\ owed = [p \in Plans |-> 0]
  /\ cancelled = FALSE /\ signalled = FALSE
  /\ consented = {} /\ dropped = {}

Post(to, msg) ==
  /\ Send(to, msg)
  /\ dropped' = IF Accepts(to) THEN dropped ELSE dropped \cup {msg}

-----------------------------------------------------------------------------
(* The terminal: handleInput.  A line typed in state reply changes nothing. *)

Reading == cli \in {"idle", "reply", "approval"}

TypeLine ==
  /\ Reading
  /\ stdin = "open"
  /\ lines < MaxLines
  /\ lines' = lines + 1

Request ==
  /\ TypeLine
  /\ cli = "idle"
  /\ cli' = "reply"
  /\ Post("max", Message("input", 0))
  /\ UNCHANGED <<pendingMsg, stdin, lead, owed, stop, consented>>

\* A mistake: the answer is given to whatever request is pending.
Answer_AnyRequest(b) ==
  /\ TypeLine
  /\ cli = "approval"
  /\ cli' = "reply"
  /\ replyCh' = IF max = "await" /\ replyCh = "empty" THEN b ELSE replyCh
  /\ consented' = IF b = "yes" THEN consented \cup {pendingMsg} ELSE consented
  /\ UNCHANGED <<inbox, pendingMsg, stdin, max, asked, table, owed, stop, dropped>>

\* The answer finds the reply channel only while Max waits for that request.
Answer(b) ==
  /\ TypeLine
  /\ cli = "approval"
  /\ cli' = "reply"
  /\ replyCh' = IF max = "await" /\ asked = pendingMsg /\ replyCh = "empty"
                THEN b ELSE replyCh
  /\ consented' = IF b = "yes" THEN consented \cup {pendingMsg} ELSE consented
  /\ UNCHANGED <<inbox, pendingMsg, stdin, max, asked, table, owed, stop, dropped>>

Quit ==
  /\ TypeLine
  /\ cli' = "stopping"
  /\ cancelled' = TRUE
  /\ UNCHANGED <<inbox, pendingMsg, stdin, lead, owed, signalled, history>>

\* ^C or ^D: the loop returns, and main stops the runtime, when nothing is
\* going on; otherwise after the next message that leaves the terminal idle.
CloseInput ==
  /\ Reading
  /\ stdin = "open"
  /\ stdin' = "closed"
  /\ IF cli = "idle" THEN cli' = "stopping" /\ cancelled' = TRUE
                     ELSE UNCHANGED <<cli, cancelled>>
  /\ UNCHANGED <<inbox, pendingMsg, lines, lead, owed, signalled, history>>

(* The terminal: handleMessage. *)

ShowReply ==
  /\ Reading
  /\ Receive("user", Message("reply", 0))
  /\ IF stdin = "closed" THEN cli' = "stopping" /\ cancelled' = TRUE
                         ELSE cli' = "idle" /\ UNCHANGED cancelled
  /\ UNCHANGED <<pendingMsg, stdin, lines, lead, owed, signalled, history>>

\* A mistake: the request is printed but not kept.
ShowRequest_NotKept(p) ==
  /\ Reading
  /\ Receive("user", Message("ask", p))
  /\ cli' = "approval"
  /\ UNCHANGED <<pendingMsg, stdin, lines, lead, owed, stop, history>>

ShowRequest(p) ==
  /\ Reading
  /\ Receive("user", Message("ask", p))
  /\ pendingMsg' = p
  /\ cli' = "approval"
  /\ UNCHANGED <<stdin, lines, lead, owed, stop, history>>

(* Stop, called by the terminal's goroutine or by the signal handler beside it. *)

Signal ==
  /\ cli # "exited"
  /\ ~signalled
  /\ signalled' = TRUE
  /\ cancelled' = TRUE
  /\ UNCHANGED <<inbox, term, lead, owed, history>>

\* wg.Wait is over: the agents and the loop have returned.
Exit ==
  /\ cli = "stopping" \/ (signalled /\ cli # "exited")
  /\ max = "exited"
  /\ cli' = "exited"
  /\ UNCHANGED <<inbox, pendingMsg, stdin, lines, lead, owed, stop, history>>

Terminal ==
  \/ Request \/ Quit \/ CloseInput
  \/ \E b \in {"yes", "no"} : Answer(b)
  \/ ShowReply
  \/ \E p \in Plans : ShowRequest(p)

-----------------------------------------------------------------------------
(* Max.  Every way out of a handler ends in a reply to the user. *)

Reply(here, there) ==
  /\ max = here
  /\ Post("user", Message("reply", 0))
  /\ max' = there
  /\ UNCHANGED <<term, asked, replyCh, table, owed, stop, consented>>

HearInput ==
  /\ max = "idle"
  /\ Receive("max", Message("input", 0))
  /\ max' = "thinking"
  /\ table' = 0
  /\ UNCHANGED <<term, asked, replyCh, owed, stop, history>>

\* A mistake: a failed call ends the handler without a word.
ReplyText_Forgotten ==
  /\ max = "thinking"
  /\ max' = "idle"
  /\ UNCHANGED <<inbox, term, asked, replyCh, table, owed, stop, history>>

\* Text instead of a plan, a failed call, or a plan that validateDAG refuses.
ReplyText == Reply("thinking", "idle")

\* SubmitPlan up to the wait of SendAndWait, with a reply channel of its own.
Ask(p) ==
  /\ max = "thinking"
  /\ p = asked + 1
  /\ asked' = p
  /\ table' = p
  /\ replyCh' = "empty"
  /\ max' = "await"
  /\ Post("user", Message("ask", p))
  /\ UNCHANGED <<term, owed, stop, consented>>

TakeReply ==
  /\ max = "await"
  /\ replyCh # "empty"
  /\ max' = IF replyCh = "yes" THEN "accepted" ELSE "rejected"
  /\ owed' = IF replyCh = "yes" THEN [owed EXCEPT ![asked] = Verdicts] ELSE owed
  /\ replyCh' = "empty"
  /\ UNCHANGED <<inbox, term, asked, table, stop, history>>

\* A mistake: the wait has no time limit.
TimeOut_Never == FALSE /\ UNCHANGED vars

TimeOut ==
  /\ max = "await"
  /\ max' = "refused"
  /\ UNCHANGED <<inbox, term, asked, replyCh, table, owed, stop, history>>

ReplyAccepted == Reply("accepted", "idle")

\* A rejection is told twice: by SubmitPlan, then by handleUserInput.
ReplyRejected == Reply("rejected", "refused")
ReplyRefused == Reply("refused", "idle")

HearAllDone ==
  /\ max = "idle"
  /\ \E p \in Plans : Receive("max", Message("alldone", p))
  /\ max' = "reporting"
  /\ UNCHANGED <<term, asked, replyCh, table, owed, stop, history>>

ReplyReport == Reply("reporting", "idle")

\* A failure is told only while its task is in the table.
HearFailed(p) ==
  /\ max = "idle"
  /\ Receive("max", Message("failed", p))
  /\ max' = IF p = table THEN "telling" ELSE "idle"
  /\ UNCHANGED <<term, asked, replyCh, table, owed, stop, history>>

ReplyFailed == Reply("telling", "idle")

\* The select may as well take another message while the context is done.
MaxExits ==
  /\ max = "idle"
  /\ cancelled
  /\ max' = "exited"
  /\ UNCHANGED <<inbox, term, asked, replyCh, table, owed, stop, history>>

Max ==
  \/ HearInput \/ ReplyText
  \/ \E p \in Plans : Ask(p) \/ HearFailed(p)
  \/ TakeReply \/ TimeOut \/ ReplyAccepted \/ ReplyRejected \/ ReplyRefused
  \/ HearAllDone \/ ReplyReport \/ ReplyFailed
  \/ MaxExits

(* The scheduler's loop, as far as Max hears of it. *)
Tell(p, type) ==
  /\ owed[p] > 0
  /\ cli # "exited"
  /\ owed' = [owed EXCEPT ![p] = @ - 1]
  /\ Post("max", Message(type, p))
  /\ UNCHANGED <<term, lead, stop, consented>>

Next ==
  \/ Terminal
  \/ Max
  \/ \E p \in Plans, type \in {"alldone", "failed"} : Tell(p, type)
  \/ Signal
  \/ Exit

\* Goroutines that can run do: the terminal shows what is in its inbox, Max
\* goes on (time.After ends its wait), and Stop returns when it can.  Nothing
\* obliges the user to type or the loop to tell.
Fairness ==
  /\ WF_vars(ShowReply \/ \E p \in Plans : ShowRequest(p))
  /\ WF_vars(Max)
  /\ WF_vars(Exit)

Spec == Init /\ [][Next]_vars
FairSpec == Spec /\ Fairness

-----------------------------------------------------------------------------
(* Correctness. *)

\* While Max waits for an answer the user is able to give it: the request is
\* on the screen, ready for a yes or a no, or on its way there.  Replies that
\* were sent earlier, stale reports included, have been shown before it and
\* cannot take the terminal out of state approval (handleMessage sets stateIdle
\* for any reply).  Only a full inbox hides a request.
RequestIsOnScreen ==
  max = "await" /\ replyCh = "empty" /\ Reading /\ Message("ask", asked) \notin dropped =>
    \/ cli = "approval" /\ pendingMsg = asked
    \/ InInbox("user", Message("ask", asked))

\* A plan is carried out only if the user said yes while that plan was on the
\* screen: a yes to a request that timed out, typed at any moment, never counts
\* for the next one (handleInput answers pendingMsg.ID).
ConsentIsInformed ==
  /\ max = "accepted" => asked \in consented
  /\ \A p \in Plans : owed[p] > 0 => p \in consented

\* Whether a full inbox swallowed the user's line or the reply to it.
Unheard == {Message("input", 0), Message("reply", 0)} \cap dropped # {}

\* A terminal that tells the user to wait has something to wait for: Max is in
\* a handler that ends in a reply, the request is in Max's inbox, or a message
\* is in the terminal's own (handleInput sets stateWaitingReply, and every way
\* out of Max's handlers is a reply).  Only a full inbox breaks this.
ReplyIsOwed ==
  cli = "reply" /\ ~Unheard =>
    \/ max \notin {"idle", "exited"}
    \/ InInbox("max", Message("input", 0))
    \/ inbox["user"] # <<>>
    \/ cancelled

\* The terminal does not stay in stateWaitingReply, unless the request or a
\* reply was dropped: a request for approval that was dropped or never answered
\* times out and is replied to.
ReplyComes == cli = "reply" ~> cli # "reply" \/ Unheard

\* Quit and a signal end the program whatever was dropped, even while Max waits
\* for an answer nobody can type any more (Stop waits for him), and so does the
\* end of the input (runCLI returns at the next message that leaves the
\* terminal idle), unless the reply it waits for was dropped.
ShutdownEnds ==
  /\ cancelled ~> cli = "exited"
  /\ stdin = "closed" ~> cli = "exited" \/ Unheard
=============================================================================
