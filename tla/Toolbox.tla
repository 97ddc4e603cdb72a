------------------------------ MODULE Toolbox ------------------------------
(***************************************************************************)
(* Coder agents at work (LeoAgent.handleTask in internal/agent/leo.go): a  *)
(* coder makes one tool call at a time, but the tools of all coders meet   *)
(* in one directory, one git index and one MCP server.  Which calls a      *)
(* model asks for, and in which order, is free.  A call that is refused    *)
(* before it touches anything (a path or pattern that is not allowed, a    *)
(* failed git add) is no step.                                             *)
(***************************************************************************)
EXTENDS MCPClient, WorkTree

CONSTANTS
  Teams,    \* which tools the agents may have: Callers to sets of names
  MaxCalls  \* bound: tool calls of all coders together

ToolNames == {"write_file", "git_commit", "server"}

ASSUME TeamsAssumption == Teams \subseteq [Callers -> SUBSET ToolNames] /\ MaxCalls \in Nat

VARIABLES
  tools,      \* the tools each coder was given
  doing,      \* what each coder is doing
  open,       \* the file its write_file has open, if any
  shown,      \* the files in the diff it collected
  calls,      \* tool calls so far
  wrote,      \* history: the text each task gave a file and nobody wrote over
  cleared,    \* history: files meant to be empty
  disturbed,  \* history: files whose write_file met another call or failed
  stagings,   \* history: the texts of each file the index ever held, in order
  staged,     \* history: what a git_commit under way staged, by its place there
  claimed     \* history: the same of the last one that reported success

pastVars == <<wrote, cleared, disturbed, stagings, staged, claimed>>
coderVars == <<tools, doing, open, shown, calls, pastVars>>
vars == <<mcpVars, treeVars, coderVars>>

Nowhere == [f \in Files |-> 0]
Untouched == [f \in Files |-> Missing]

Init ==
  /\ tools \in Teams
  /\ IF \E c \in Callers : "server" \in tools[c] THEN Starting ELSE Absent
  /\ MCPInit
  /\ TreeInit
  /\ doing = [c \in Callers |-> "idle"]
  /\ open = [c \in Callers |-> {}]
  /\ shown = [c \in Callers |-> {}]
  /\ calls = 0
  /\ wrote = [c \in Callers |-> Untouched]
  /\ cleared = {f \in Files : tree[f] = Empty}
  /\ disturbed = {}
  /\ stagings = [f \in Files |-> <<index[f]>>]
  /\ staged = [c \in Callers |-> Nowhere]
  /\ claimed = Nowhere

Turn(c, from, to) == doing[c] = from /\ doing' = [doing EXCEPT ![c] = to]

NewCall(c, name, to) ==
  /\ name \in tools[c]
  /\ calls < MaxCalls
  /\ calls' = calls + 1
  /\ Turn(c, "thinking", to)

-----------------------------------------------------------------------------
(* handleTask, around the calls. *)

TakeTask(c) ==
  /\ Turn(c, "idle", "thinking")
  /\ UNCHANGED <<mcpVars, treeVars, tools, open, shown, calls, pastVars>>

EndTask(c) ==
  /\ wrote' = [wrote EXCEPT ![c] = Untouched]
  /\ shown' = [shown EXCEPT ![c] = {}]
  /\ UNCHANGED <<mcpVars, treeVars, tools, open, calls, cleared, disturbed, stagings, staged, claimed>>

\* RunLLM came back with an error: the task is reported as failed, and what
\* it wrote stays where it is.
FailTask(c) == Turn(c, "thinking", "idle") /\ EndTask(c)

CollectDiff(c) ==
  /\ Turn(c, "thinking", "send")
  /\ shown' = [shown EXCEPT ![c] = GitDiff]
  /\ UNCHANGED <<mcpVars, treeVars, tools, open, calls, pastVars>>

SendResult(c) == Turn(c, "send", "idle") /\ EndTask(c)

\* git failed, which collectDiff takes for no changes: the result goes out
\* without a diff.
CollectNothing(c) == Turn(c, "thinking", "idle") /\ EndTask(c)

-----------------------------------------------------------------------------
(* write_file *)

InUse(f) == \E d \in Callers : f \in open[d]

\* What any task wrote to f is gone, or is x if the task of c just wrote that.
WroteOver(f) == wrote' = [d \in Callers |-> [wrote[d] EXCEPT ![f] = Missing]]
WroteBy(c, f, x) ==
  wrote' = [d \in Callers |->
              [wrote[d] EXCEPT ![f] = IF d = c /\ tree'[f] = x THEN x ELSE Missing]]

OpenFile(c, f) ==
  /\ NewCall(c, "write_file", "writing")
  /\ Truncate(f)
  /\ open' = [open EXCEPT ![c] = {f}]
  /\ WroteOver(f)
  /\ disturbed' = IF InUse(f) THEN disturbed \cup {f} ELSE disturbed
  /\ UNCHANGED <<mcpVars, tools, shown, cleared, stagings, staged, claimed>>

FillFile(c, f, x) ==
  /\ f \in open[c]
  /\ Turn(c, "writing", "thinking")
  /\ Write(f, x)
  /\ open' = [open EXCEPT ![c] = {}]
  /\ WroteBy(c, f, x)
  /\ cleared' = IF x = Empty THEN cleared \cup {f} ELSE cleared
  /\ UNCHANGED <<mcpVars, tools, shown, calls, disturbed, stagings, staged, claimed>>

\* The disk is full, and the model is told.
FillFails(c, f) ==
  /\ f \in open[c]
  /\ Turn(c, "writing", "thinking")
  /\ CutShort(f)
  /\ open' = [open EXCEPT ![c] = {}]
  /\ WroteOver(f)
  /\ disturbed' = disturbed \cup {f}
  /\ UNCHANGED <<mcpVars, tools, shown, calls, cleared, stagings, staged, claimed>>

-----------------------------------------------------------------------------
(* git_commit, two commands with nothing held between them. *)

\* The model names files, or none for git add -A.
StageFiles(c, S) ==
  /\ NewCall(c, "git_commit", "committing")
  /\ GitAdd(S)
  /\ stagings' = [f \in Files |-> IF index'[f] = index[f] THEN stagings[f]
                                  ELSE Append(stagings[f], index'[f])]
  /\ staged' = [staged EXCEPT ![c] = [f \in Files |->
                  IF f \in S /\ tree[f] # Missing THEN Len(stagings'[f]) ELSE 0]]
  /\ disturbed' = disturbed \cup {f \in S : InUse(f)}
  /\ UNCHANGED <<mcpVars, tools, open, shown, wrote, cleared, claimed>>

\* What the model is told that the commit holds.
Claim(c) ==
  claimed' = [f \in Files |-> IF staged[c][f] > claimed[f] THEN staged[c][f] ELSE claimed[f]]

EndCommit(c) ==
  /\ Turn(c, "committing", "thinking")
  /\ staged' = [staged EXCEPT ![c] = Nowhere]
  /\ UNCHANGED <<mcpVars, tools, open, shown, calls, wrote, cleared, disturbed, stagings>>

\* The commit takes in whatever is staged by now.
CommitFiles(c) == EndCommit(c) /\ GitCommit /\ Claim(c)

\* A mistake: the error of the second command is not looked at.
CommitFails_Untold(c) == EndCommit(c) /\ Claim(c) /\ UNCHANGED treeVars

\* Nothing to commit, a hook, or another git command has the lock.
CommitFails(c) == EndCommit(c) /\ UNCHANGED <<treeVars, claimed>>

-----------------------------------------------------------------------------
(* A tool of the MCP server. *)

CallServer(c) ==
  /\ NewCall(c, "server", "waiting")
  /\ Call(c)
  /\ UNCHANGED <<treeVars, tools, open, shown, pastVars>>

ServerReplied(c) ==
  /\ step[c] = "free"
  /\ Turn(c, "waiting", "thinking")
  /\ UNCHANGED <<mcpVars, treeVars, tools, open, shown, calls, pastVars>>

-----------------------------------------------------------------------------

CoderStep(c) ==
  \/ TakeTask(c) \/ FailTask(c) \/ CollectDiff(c) \/ CollectNothing(c) \/ SendResult(c)
  \/ \E f \in Files : \/ OpenFile(c, f) \/ FillFails(c, f)
                      \/ \E x \in Texts : FillFile(c, f, x)
                      \/ tree[f] # Missing /\ StageFiles(c, {f})
  \/ StageFiles(c, Files)
  \/ CommitFiles(c) \/ CommitFails(c)
  \/ CallServer(c) \/ ServerReplied(c)

Next ==
  \/ \E c \in Callers : CoderStep(c)
  \/ MCPStep /\ UNCHANGED <<treeVars, coderVars>>

Spec == Init /\ [][Next]_vars /\ MCPFairness

-----------------------------------------------------------------------------
(* Correctness. *)

Whole(f, x) == x # Torn /\ (x = Empty => f \in cleared)

Elements(s) == {s[n] : n \in 1..Len(s)}

\* A git_commit that reports success has put every file it staged into the
\* last commit, with the text it staged or one that was staged later, whatever
\* other coders wrote, staged and committed between its two commands.  And that
\* text is whole unless two calls met at the file or a write failed: a file that
\* is empty though no task made it so, or that holds pieces of two texts, is
\* committed only after os.WriteFile overlapped a git add or itself.
SuccessIsCommitted ==
  \A f \in Files : claimed[f] > 0 =>
    /\ \E n \in claimed[f]..Len(stagings[f]) : head[f] = stagings[f][n]
    /\ Whole(f, head[f]) \/ f \in disturbed

\* The diff a task reports shows every file that still holds what the task wrote
\* when no other coder's write_file has reached the file since, even if other
\* coders wrote, staged and committed other files meanwhile, unless that very
\* text has been in the index or git does not know the file: a task's work is in
\* its diff, or somebody staged it, or somebody wrote over it.
WorkIsShown ==
  \A c \in Callers, f \in Files :
    doing[c] = "send" /\ wrote[c][f] # Missing
      => \/ f \in shown[c]
         \/ wrote[c][f] \in Elements(stagings[f])
         \/ index[f] = Missing
=============================================================================
