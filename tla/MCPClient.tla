----------------------------- MODULE MCPClient -----------------------------
(***************************************************************************)
(* The JSON-RPC client of internal/mcp/client.go: one server process, two  *)
(* pipes and a mutex.  A call writes one line and takes the next line as   *)
(* its response, whatever that is: IDs are counted but never compared, and *)
(* no call has a deadline.                                                 *)
(*                                                                         *)
(* The server is external: it answers requests in the order it reads them, *)
(* may say something nobody asked for, and may die.                        *)
(***************************************************************************)
EXTENDS Integers, Sequences, FiniteSets

CONSTANTS
  Callers,   \* the goroutines whose agents hold tools of the server
  Owner,     \* the goroutine that runs NewClient
  Nobody,    \* the mutex is free
  MaxStrays  \* bound: lines of the server that answer no request

Users == Callers \cup {Owner}

ASSUME UsersAssumption == Nobody \notin Users /\ Owner \notin Callers /\ MaxStrays \in Nat

VARIABLES
  client,  \* how far NewClient came: none (not called), initialize,
           \* discover, ready or failed
  server,  \* the process: none, up, down (it died), closed (Close killed it)
  nextID,  \* Client.nextID
  holder,  \* who holds Client.mu
  step,    \* where each user stands in call
  id,      \* the ID of each user's request, or 0
  taken,   \* the line the last call of NewClient took for its response
  asked,   \* IDs of the requests the server has not read
  lines,   \* what the server wrote and nobody read: the ID of an answer, or 0
  strays   \* history: lines taken for a response that answer no request

mcpVars == <<client, server, nextID, holder, step, id, taken, asked, lines, strays>>

NoLine == -1  \* the call failed

\* NewClient has started the process and is about to call initialize.
Starting ==
  /\ client = "initialize"
  /\ server = "up"
  /\ step = [u \in Users |-> IF u = Owner THEN "lock" ELSE "free"]

\* No agent lists a server.
Absent ==
  /\ client = "none"
  /\ server = "none"
  /\ step = [u \in Users |-> "free"]

MCPInit ==
  /\ nextID = 1
  /\ holder = Nobody
  /\ id = [u \in Users |-> 0]
  /\ taken = NoLine
  /\ asked = <<>>
  /\ lines = <<>>
  /\ strays = 0

-----------------------------------------------------------------------------
(* call *)

Call(u) ==
  /\ client = "ready"
  /\ step[u] = "free"
  /\ step' = [step EXCEPT ![u] = "lock"]
  /\ UNCHANGED <<client, server, nextID, holder, id, taken, asked, lines, strays>>

Lock(u) ==
  /\ step[u] = "lock"
  /\ holder = Nobody
  /\ holder' = u
  /\ id' = [id EXCEPT ![u] = nextID]
  /\ nextID' = nextID + 1
  /\ step' = [step EXCEPT ![u] = "write"]
  /\ UNCHANGED <<client, server, taken, asked, lines, strays>>

Return(u, line) ==
  /\ taken' = IF u = Owner THEN line ELSE taken
  /\ id' = [id EXCEPT ![u] = 0]
  /\ step' = [step EXCEPT ![u] = "free"]
  /\ holder' = Nobody

\* A mistake: the mutex guards the write only.
WriteLine_Unlocks(u) ==
  /\ step[u] = "write"
  /\ server = "up"
  /\ asked' = Append(asked, id[u])
  /\ step' = [step EXCEPT ![u] = "read"]
  /\ holder' = Nobody
  /\ UNCHANGED <<client, server, nextID, id, taken, lines, strays>>

WriteLine(u) ==
  /\ step[u] = "write"
  /\ server = "up"
  /\ asked' = Append(asked, id[u])
  /\ step' = [step EXCEPT ![u] = "read"]
  /\ UNCHANGED <<client, server, nextID, holder, id, taken, lines, strays>>

WriteFails(u) ==
  /\ step[u] = "write"
  /\ server # "up"
  /\ Return(u, NoLine)
  /\ UNCHANGED <<client, server, nextID, asked, lines, strays>>

\* Whether the line parses and holds an error is told by its ID alone: the
\* caller gets what it says, as a result or as an error.
ReadLine(u) ==
  /\ step[u] = "read"
  /\ lines # <<>>
  /\ Return(u, Head(lines))
  /\ lines' = Tail(lines)
  /\ strays' = IF Head(lines) = 0 THEN strays + 1 ELSE strays
  /\ UNCHANGED <<client, server, nextID, asked>>

\* A mistake: an early return without the deferred unlock.
ReadFails_KeepsLock(u) ==
  /\ step[u] = "read"
  /\ server = "closed" \/ (server = "down" /\ lines = <<>>)
  /\ taken' = IF u = Owner THEN NoLine ELSE taken
  /\ id' = [id EXCEPT ![u] = 0]
  /\ step' = [step EXCEPT ![u] = "free"]
  /\ UNCHANGED <<client, server, nextID, holder, asked, lines, strays>>

\* A dead server leaves what it wrote; Close closes the pipe as well.
ReadFails(u) ==
  /\ step[u] = "read"
  /\ server = "closed" \/ (server = "down" /\ lines = <<>>)
  /\ Return(u, NoLine)
  /\ UNCHANGED <<client, server, nextID, asked, lines, strays>>

Transfer(u) == WriteLine(u) \/ WriteFails(u) \/ ReadLine(u) \/ ReadFails(u)

-----------------------------------------------------------------------------
(* NewClient and Close. *)

\* The response was what NewClient hoped for.
Proceed ==
  /\ client \in {"initialize", "discover"}
  /\ step[Owner] = "free"
  /\ taken # NoLine
  /\ IF client = "initialize"
     THEN client' = "discover" /\ step' = [step EXCEPT ![Owner] = "lock"]
     ELSE client' = "ready" /\ step' = step
  /\ UNCHANGED <<server, nextID, holder, id, taken, asked, lines, strays>>

\* The call failed, or its line held an error or no result of that type.
GiveUp ==
  /\ client \in {"initialize", "discover"}
  /\ step[Owner] = "free"
  /\ client' = "failed"
  /\ server' = "closed"
  /\ UNCHANGED <<nextID, holder, step, id, taken, asked, lines, strays>>

\* Kill and Wait do not ask for the mutex.
Close ==
  /\ client = "ready"
  /\ server' = "closed"
  /\ UNCHANGED <<client, nextID, holder, step, id, taken, asked, lines, strays>>

-----------------------------------------------------------------------------
(* The server. *)

Answer ==
  /\ server = "up"
  /\ asked # <<>>
  /\ asked' = Tail(asked)
  /\ lines' = Append(lines, Head(asked))
  /\ UNCHANGED <<client, server, nextID, holder, step, id, taken, strays>>

\* A notification, or a line of its log.
Speak ==
  /\ server = "up"
  /\ strays + Cardinality({k \in 1..Len(lines) : lines[k] = 0}) < MaxStrays
  /\ lines' = Append(lines, 0)
  /\ UNCHANGED <<client, server, nextID, holder, step, id, taken, asked, strays>>

Die ==
  /\ server = "up"
  /\ server' = "down"
  /\ UNCHANGED <<client, nextID, holder, step, id, taken, asked, lines, strays>>

MCPStep ==
  \/ \E u \in Users : Lock(u) \/ Transfer(u)
  \/ Proceed \/ GiveUp \/ Close
  \/ Answer \/ Speak \/ Die

\* A pipe that can be written or read is; sync.Mutex lets nobody starve.
\* Nothing obliges the server to answer, or anybody to call Close.
MCPFairness == \A u \in Users : SF_mcpVars(Lock(u)) /\ WF_mcpVars(Transfer(u))

-----------------------------------------------------------------------------
(* Correctness. *)

\* The line a call is about to take is the answer to its own request, unless
\* earlier calls took stray lines for theirs: then it is the answer to the
\* request as many requests earlier, for ever after.  Two calls never mix up
\* their answers, because the mutex covers the write and the read.
ShiftedByStrays ==
  \A u \in Users :
    step[u] = "read" /\ lines # <<>> /\ Head(lines) # 0 => Head(lines) = id[u] - strays

\* Once the server is gone every call comes back, those that wait for the
\* mutex included: closing the client ends a call that would wait for ever.
CallsEnd == \A u \in Users : (server # "up" /\ step[u] # "free") ~> step[u] = "free"
=============================================================================
