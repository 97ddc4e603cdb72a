--------------------------- MODULE ToolboxProofs ---------------------------
(***************************************************************************)
(* Theorems about Toolbox, for any coders, files, number of calls and of   *)
(* stray lines.  The part about the client looks at its own variables and  *)
(* at MCPNext only; a step of a coder is a step of MCPNext or leaves the   *)
(* client alone.                                                           *)
(***************************************************************************)
EXTENDS Toolbox, SequenceTheorems, TLAPS

-----------------------------------------------------------------------------
(* The client. *)

MCPNext == MCPStep \/ \E c \in Callers : Call(c)

ClientType ==
  /\ client \in {"none", "initialize", "discover", "ready", "failed"}
  /\ server \in {"none", "up", "down", "closed"}
  /\ nextID \in Nat \ {0}
  /\ holder \in Users \cup {Nobody}
  /\ step \in [Users -> {"free", "lock", "write", "read"}]
  /\ id \in [Users -> Nat]
  /\ asked \in Seq(Nat \ {0})
  /\ lines \in Seq(Nat)
  /\ strays \in Nat

\* The mutex covers the write and the read, and its holder has the last ID.
Exclusive ==
  \A u \in Users :
    /\ step[u] \in {"write", "read"} <=> holder = u
    /\ holder = u => id[u] = nextID - 1 /\ id[u] > 0

Said(s) == {s[k] : k \in 1..Len(s)}

\* The requests nobody took an answer of.
Unread == (Said(lines) \ {0}) \cup Said(asked)

Reading == \E u \in Users : step[u] = "read"

Writing == \E u \in Users : step[u] = "write"

\* The last request that was written.
Sent == IF Writing THEN nextID - 2 ELSE nextID - 1

\* The request whose answer comes next.
Due == IF Reading THEN Sent - strays ELSE Sent - strays + 1

\* Every stray line taken leaves one answer behind.
Window == server = "up" \/ Reading => Unread = Due..Sent

\* The server answers in the order of the requests.
Ordered ==
  /\ \A j, k \in 1..Len(lines) : j < k /\ lines[j] # 0 /\ lines[k] # 0 => lines[j] < lines[k]
  /\ \A j \in 1..Len(lines), k \in 1..Len(asked) : lines[j] < asked[k]
  /\ \A j, k \in 1..Len(asked) : j < k => asked[j] < asked[k]

\* The inductive invariant.
ClientOK ==
  /\ ClientType
  /\ Exclusive
  /\ Window
  /\ Ordered

LEMMA InitClient == MCPInit /\ (Starting \/ Absent) => ClientOK
<1>. SUFFICES ASSUME MCPInit, Starting \/ Absent
              PROVE  ClientOK
  OBVIOUS
<1>. USE UsersAssumption DEF MCPInit, Starting, Absent, Users
<1>1. ClientType
  BY DEF ClientType
<1>2. ~Reading /\ ~Writing
  BY DEF Reading, Writing
<1>3. Exclusive
  BY DEF Exclusive
<1>4. Unread = {}
  BY DEF Unread, Said
<1>5. Window
  BY <1>2, <1>4 DEF Window, Due, Sent
<1>. QED
  BY <1>1, <1>3, <1>5 DEF ClientOK, Ordered

\* A step that moves no user, no request and no line.
LEMMA QuietKeeps ==
  ASSUME ClientOK, UNCHANGED <<nextID, holder, id, asked, lines, strays>>,
         \A u \in Users : step[u] \in {"write", "read"} \/ step'[u] \in {"write", "read"}
                            => step'[u] = step[u],
         step' \in [Users -> {"free", "lock", "write", "read"}],
         client' \in {"none", "initialize", "discover", "ready", "failed"},
         server' \in {"none", "up", "down", "closed"},
         server' = "up" => server = "up"
  PROVE  ClientOK'
<1>1. ClientType' /\ Ordered'
  BY DEF ClientOK, ClientType, Ordered
<1>2. Exclusive'
  BY DEF ClientOK, ClientType, Exclusive
<1>3. (Reading' <=> Reading) /\ (Writing' <=> Writing) /\ Unread' = Unread
  BY DEF Reading, Writing, Unread
<1>4. Window'
  BY <1>3 DEF ClientOK, Window, Due, Sent
<1>. QED
  BY <1>1, <1>2, <1>4 DEF ClientOK

LEMMA CallKeeps ==
  ASSUME ClientOK, NEW u \in Users, Call(u)
  PROVE  ClientOK'
<1>1. step' \in [Users -> {"free", "lock", "write", "read"}]
  BY DEF Call, ClientOK, ClientType
<1>2. \A v \in Users : step[v] \in {"write", "read"} \/ step'[v] \in {"write", "read"}
                         => step'[v] = step[v]
  BY DEF Call, ClientOK, ClientType
<1>. QED
  BY <1>1, <1>2, QuietKeeps DEF Call, ClientOK, ClientType

LEMMA LockKeeps ==
  ASSUME ClientOK, NEW u \in Users, Lock(u)
  PROVE  ClientOK'
<1>. USE UsersAssumption DEF Lock, ClientOK, ClientType
<1>1. ClientType'
  OBVIOUS
<1>2. Exclusive'
  BY DEF Exclusive
<1>3. ~Reading /\ ~Writing /\ ~Reading' /\ Writing'
  BY <1>1 DEF Exclusive, Reading, Writing
<1>4. Window'
  BY <1>3 DEF Window, Unread, Due, Sent
<1>. QED
  BY <1>1, <1>2, <1>4 DEF Ordered

\* A user who leaves call: the mutex is free.
LEMMA ReturnFrees ==
  ASSUME ClientOK, NEW u \in Users, step[u] \in {"write", "read"}, NEW line, Return(u, line)
  PROVE  /\ step' \in [Users -> {"free", "lock", "write", "read"}]
         /\ id' \in [Users -> Nat]
         /\ nextID' = nextID => Exclusive'
         /\ ~Reading' /\ ~Writing'
         /\ step[u] = "read" => Reading /\ ~Writing /\ id[u] = Sent
<1>. USE UsersAssumption DEF Return, ClientOK, ClientType
<1>1. step' \in [Users -> {"free", "lock", "write", "read"}] /\ id' \in [Users -> Nat]
  OBVIOUS
<1>2. \A v \in Users : step'[v] \notin {"write", "read"}
  BY DEF Exclusive
<1>3. step[u] = "read" => Reading /\ ~Writing
  BY DEF Exclusive, Reading, Writing
<1>. QED
  BY <1>1, <1>2, <1>3 DEF Exclusive, Reading, Writing, Sent

LEMMA AppendedAt ==
  ASSUME NEW s \in Seq(Nat), NEW x, NEW k \in 1..Len(Append(s, x))
  PROVE  \/ k \in 1..Len(s) /\ Append(s, x)[k] = s[k]
         \/ k = Len(s) + 1 /\ Append(s, x)[k] = x
  OBVIOUS

LEMMA AppendAdds ==
  ASSUME NEW s \in Seq(Nat), NEW x \in Nat
  PROVE  Said(Append(s, x)) = Said(s) \cup {x}
<1>1. Len(Append(s, x)) = Len(s) + 1 /\ Append(s, x)[Len(s) + 1] = x
  OBVIOUS
<1>2. \A k \in 1..Len(s) : Append(s, x)[k] = s[k]
  OBVIOUS
<1>3. 1..(Len(s) + 1) = 1..Len(s) \cup {Len(s) + 1}
  OBVIOUS
<1>. QED
  BY <1>1, <1>2, <1>3 DEF Said

LEMMA TailRemoves ==
  ASSUME NEW s \in Seq(Nat), s # <<>>
  PROVE  Said(s) = {Head(s)} \cup Said(Tail(s))
<1>1. Len(s) >= 1 /\ Head(s) = s[1] /\ Len(Tail(s)) = Len(s) - 1
  OBVIOUS
<1>2. \A k \in 1..Len(Tail(s)) : k + 1 \in 1..Len(s) /\ Tail(s)[k] = s[k + 1]
  BY <1>1
<1>3. \A k \in 1..Len(s) : k = 1 \/ (k - 1 \in 1..Len(Tail(s)) /\ s[k] = Tail(s)[k - 1])
  BY <1>1
<1>4. ASSUME NEW x \in Said(s)
      PROVE  x \in {Head(s)} \cup Said(Tail(s))
  BY <1>1, <1>3 DEF Said
<1>5. ASSUME NEW x \in {Head(s)} \cup Said(Tail(s))
      PROVE  x \in Said(s)
  BY <1>1, <1>2 DEF Said
<1>. QED
  BY <1>4, <1>5

LEMMA UnreadHas ==
  /\ \A k \in 1..Len(asked) : asked[k] \in Unread
  /\ \A k \in 1..Len(lines) : lines[k] = 0 \/ lines[k] \in Unread
  BY DEF Unread, Said

LEMMA WriteLineKeeps ==
  ASSUME ClientOK, NEW u \in Users, WriteLine(u)
  PROVE  ClientOK'
<1>. USE UsersAssumption DEF WriteLine, ClientOK, ClientType
<1>1. holder = u /\ id[u] = nextID - 1 /\ id[u] \in Nat \ {0} /\ asked \in Seq(Nat)
  BY DEF Exclusive
<1>2. Writing /\ ~Reading /\ Reading' /\ ~Writing'
  BY <1>1 DEF Exclusive, Reading, Writing
<1>3. Unread = Due..Sent /\ Due = nextID - 1 - strays /\ Sent = nextID - 2
  BY <1>2 DEF Window, Due, Sent
<1>4. /\ \A k \in 1..Len(asked) : asked[k] < id[u]
      /\ \A k \in 1..Len(lines) : lines[k] < id[u]
  <2>1. nextID \in Nat /\ strays \in Nat
    OBVIOUS
  <2>. HIDE DEF WriteLine, ClientOK, ClientType
  <2>. QED
    BY <1>1, <1>3, <2>1, UnreadHas
<1>5. Unread' = Unread \cup {id[u]}
  BY <1>1, AppendAdds DEF Unread
<1>6. Due' = Due /\ Sent' = nextID - 1
  BY <1>2, <1>3 DEF Due, Sent
<1>7. Window'
  BY <1>1, <1>3, <1>5, <1>6 DEF Window
<1>8. Ordered'
  <2>1. \A k \in 1..Len(asked') :
           \/ k \in 1..Len(asked) /\ asked'[k] = asked[k]
           \/ k = Len(asked) + 1 /\ asked'[k] = id[u]
    BY <1>1, AppendedAt
  <2>2. asked \in Seq(Nat) /\ lines \in Seq(Nat) /\ lines' = lines
    BY <1>1
  <2>3. /\ \A j \in 1..Len(lines), k \in 1..Len(asked') : lines[j] < asked'[k]
        /\ \A j, k \in 1..Len(asked') : j < k => asked'[j] < asked'[k]
    <3>1. Ordered /\ Len(asked) \in Nat
      BY <2>2
    <3>. HIDE DEF WriteLine, ClientOK, ClientType
    <3>. QED
      BY <1>4, <2>1, <3>1 DEF Ordered
  <2>. QED
    BY <2>2, <2>3 DEF Ordered
<1>9. ClientType'
  BY <1>1
<1>10. Exclusive'
  BY DEF Exclusive
<1>. QED
  BY <1>7, <1>8, <1>9, <1>10

LEMMA HeadIsLeast ==
  ASSUME ClientOK, lines # <<>>, Head(lines) # 0
  PROVE  /\ Head(lines) \in Unread
         /\ \A x \in (Said(Tail(lines)) \ {0}) \cup Said(asked) : Head(lines) < x
<1>1. lines \in Seq(Nat) /\ asked \in Seq(Nat) /\ Ordered
  BY DEF ClientOK, ClientType
<1>2. Head(lines) = lines[1] /\ 1 \in 1..Len(lines) /\ Len(Tail(lines)) = Len(lines) - 1
  BY <1>1
<1>3. ASSUME NEW x \in Said(Tail(lines)), x # 0
      PROVE  lines[1] < x
  <2>1. PICK k \in 1..Len(Tail(lines)) : x = Tail(lines)[k]
    BY <1>3 DEF Said
  <2>2. k + 1 \in 1..Len(lines) /\ 1 < k + 1 /\ x = lines[k + 1]
    BY <1>1, <1>2, <2>1
  <2>. QED
    BY <1>1, <1>2, <1>3, <2>2 DEF Ordered
<1>4. ASSUME NEW x \in Said(asked)
      PROVE  lines[1] < x
  BY <1>1, <1>2 DEF Ordered, Said
<1>. QED
  BY <1>2, <1>3, <1>4, UnreadHas

LEMMA ReadLineKeeps ==
  ASSUME ClientOK, NEW u \in Users, ReadLine(u)
  PROVE  ClientOK'
<1>. USE DEF ReadLine, ClientOK, ClientType
<1>1. Reading /\ ~Writing /\ ~Reading' /\ ~Writing' /\ Exclusive'
  BY ReturnFrees
<1>2. step' \in [Users -> {"free", "lock", "write", "read"}] /\ id' \in [Users -> Nat]
  BY ReturnFrees
<1>3. lines' \in Seq(Nat) /\ strays' \in Nat
  OBVIOUS
<1>4. ClientType'
  BY <1>2, <1>3, UsersAssumption DEF Return
<1>5. Ordered'
  BY DEF Ordered
<1>6. Unread = Due..Sent /\ Due = Sent - strays /\ Sent = nextID - 1 /\ Sent' = Sent
  BY <1>1 DEF Window, Due, Sent
<1>7. Head(lines) \in Nat /\ Head(lines) = lines[1] /\ 1 \in 1..Len(lines)
  OBVIOUS
<1>8. Unread = ({Head(lines)} \ {0}) \cup Unread'
  BY TailRemoves DEF Unread
<1>9. CASE Head(lines) = 0
  <2>1. Due' = Due
    BY <1>1, <1>6, <1>9 DEF Due
  <2>. QED
    BY <1>4, <1>1, <1>5, <1>6, <1>8, <1>9, <2>1 DEF Window
<1>10. CASE Head(lines) # 0
  <2>1. Head(lines) \in Unread /\ \A x \in Unread' : Head(lines) < x
    BY <1>10, HeadIsLeast DEF Unread
  <2>2. Head(lines) = Due
    <3>1. Head(lines) >= Due /\ Due \in Unread
      BY <1>6, <1>7, <2>1
    <3>2. Due \in Int
      BY <1>6
    <3>. HIDE DEF ReadLine, ClientOK, ClientType
    <3>. QED
      BY <1>7, <1>8, <2>1, <3>1, <3>2
  <2>3. Due' = Due + 1
    BY <1>1, <1>6, <1>10 DEF Due
  <2>4. Unread' = Unread \ {Due}
    BY <1>7, <1>8, <2>1, <2>2
  <2>5. Unread' = Due'..Sent'
    BY <1>6, <2>3, <2>4
  <2>. QED
    BY <1>4, <1>1, <1>5, <2>5 DEF Window
<1>. QED
  BY <1>9, <1>10

\* A call that failed had no server left, and so has every later one.
LEMMA FailureKeeps ==
  ASSUME ClientOK, NEW u \in Users, WriteFails(u) \/ ReadFails(u)
  PROVE  ClientOK'
<1>. USE DEF WriteFails, ReadFails, ClientOK, ClientType
<1>1. ~Reading' /\ Exclusive'
  BY ReturnFrees
<1>2. step' \in [Users -> {"free", "lock", "write", "read"}] /\ id' \in [Users -> Nat]
  BY ReturnFrees
<1>3. ClientType'
  BY <1>2, UsersAssumption DEF Return
<1>4. server' # "up"
  OBVIOUS
<1>. QED
  BY <1>1, <1>3, <1>4 DEF Window, Ordered

LEMMA AnswerKeeps ==
  ASSUME ClientOK, Answer
  PROVE  ClientOK'
<1>. USE DEF Answer, ClientOK, ClientType
<1>1. Head(asked) \in Nat \ {0} /\ Head(asked) = asked[1] /\ 1 \in 1..Len(asked)
  OBVIOUS
<1>2. ClientType' /\ Exclusive'
  BY <1>1 DEF Exclusive
<1>3. asked \in Seq(Nat) /\ lines \in Seq(Nat) /\ Head(asked) \in Nat
  BY <1>1
<1>4. Unread' = Unread
  <2>1. Said(lines') = Said(lines) \cup {Head(asked)}
    BY <1>3, AppendAdds
  <2>2. Said(asked) = {Head(asked)} \cup Said(asked')
    BY <1>3, TailRemoves
  <2>. QED
    BY <1>1, <2>1, <2>2 DEF Unread
<1>5. Window'
  BY <1>4 DEF Window, Due, Sent, Reading, Writing
<1>6. Ordered'
  BY <1>1 DEF Ordered
<1>. QED
  BY <1>2, <1>5, <1>6

LEMMA SpeakKeeps ==
  ASSUME ClientOK, Speak
  PROVE  ClientOK'
<1>. USE DEF Speak, ClientOK, ClientType
<1>1. ClientType' /\ Exclusive'
  BY DEF Exclusive
<1>2. Unread' = Unread
  <2>1. Said(lines') = Said(lines) \cup {0}
    BY AppendAdds
  <2>. QED
    BY <2>1 DEF Unread
<1>3. Window'
  BY <1>2 DEF Window, Due, Sent, Reading, Writing
<1>4. Ordered'
  BY DEF Ordered
<1>. QED
  BY <1>1, <1>3, <1>4

LEMMA RestKeeps ==
  ASSUME ClientOK, Proceed \/ GiveUp \/ Close \/ Die
  PROVE  ClientOK'
<1>. USE UsersAssumption DEF ClientOK, ClientType, Users
<1>1. CASE Proceed
  BY <1>1, QuietKeeps DEF Proceed
<1>2. CASE GiveUp
  BY <1>2, QuietKeeps DEF GiveUp
<1>3. CASE Close
  BY <1>3, QuietKeeps DEF Close
<1>4. CASE Die
  BY <1>4, QuietKeeps DEF Die
<1>. QED
  BY <1>1, <1>2, <1>3, <1>4

LEMMA ClientStep == ClientOK /\ [MCPNext]_mcpVars => ClientOK'
<1>. SUFFICES ASSUME ClientOK, [MCPNext]_mcpVars
              PROVE  ClientOK'
  OBVIOUS
<1>1. CASE MCPStep
  BY <1>1, LockKeeps, WriteLineKeeps, ReadLineKeeps, FailureKeeps, AnswerKeeps, SpeakKeeps, RestKeeps
  DEF MCPStep, Transfer
<1>2. CASE \E c \in Callers : Call(c)
  BY <1>2, CallKeeps DEF Users
<1>3. CASE UNCHANGED mcpVars
  BY <1>3, QuietKeeps DEF mcpVars, ClientOK, ClientType
<1>. QED
  BY <1>1, <1>2, <1>3 DEF MCPNext

\* The answer a reader is about to take is the one that is due.
LEMMA ClientPromises == ClientOK => ShiftedByStrays
<1>. SUFFICES ASSUME ClientOK, NEW u \in Users, step[u] = "read", lines # <<>>, Head(lines) # 0
              PROVE  Head(lines) = id[u] - strays
  BY DEF ClientOK, ShiftedByStrays
<1>. USE DEF ClientOK, ClientType
<1>1. Reading /\ ~Writing /\ id[u] = nextID - 1
  BY DEF Exclusive, Reading, Writing
<1>2. Unread = Due..Sent /\ Due = id[u] - strays /\ Sent = id[u]
  BY <1>1 DEF Window, Due, Sent
<1>3. Head(lines) \in Nat /\ Head(lines) = lines[1] /\ 1 \in 1..Len(lines)
  OBVIOUS
<1>4. \A x \in Unread : x = Head(lines) \/ Head(lines) < x
  <2>1. Said(lines) = {Head(lines)} \cup Said(Tail(lines))
    BY TailRemoves
  <2>2. \A x \in Unread : x = Head(lines) \/ x \in (Said(Tail(lines)) \ {0}) \cup Said(asked)
    BY <2>1 DEF Unread
  <2>. QED
    BY <2>2, HeadIsLeast
<1>5. Head(lines) \in Due..Sent
  BY <1>2, HeadIsLeast
<1>6. Due \in Unread /\ Due <= Head(lines) /\ Due \in Int
  BY <1>2, <1>5
<1>. HIDE DEF ClientOK, ClientType
<1>. QED
  BY <1>2, <1>3, <1>4, <1>6

\* A step of the coders is a step of the client's users or leaves the client
\* alone.
LEMMA CodersUseTheClient == [Next]_vars => [MCPNext]_mcpVars
<1>. SUFFICES ASSUME [Next]_vars
              PROVE  [MCPNext]_mcpVars
  OBVIOUS
<1>1. CASE \E c \in Callers : CoderStep(c)
  BY <1>1
  DEF CoderStep, TakeTask, FailTask, CollectDiff, CollectNothing, SendResult, EndTask, OpenFile,
      FillFile, FillFails, StageFiles, CommitFiles, CommitFails, EndCommit, CallServer,
      ServerReplied, MCPNext
<1>. QED
  BY <1>1 DEF Next, MCPNext, vars

\* A call takes the answer to its own request unless stray lines were taken
\* before, and then the answer of that many requests earlier.
THEOREM AnswersMatch == Spec => []ShiftedByStrays
<1>1. Init => ClientOK
  BY InitClient DEF Init
<1>2. ClientOK /\ [Next]_vars => ClientOK'
  BY ClientStep, CodersUseTheClient
<1>3. ClientOK => ShiftedByStrays
  BY ClientPromises
<1>. QED
  BY <1>1, <1>2, <1>3, PTL DEF Spec

-----------------------------------------------------------------------------
(* The shared directory. *)

TreeType ==
  /\ tree \in [Files -> Contents]
  /\ index \in [Files -> Contents]
  /\ head \in [Files -> Contents]
  /\ stagings \in [Files -> Seq(Contents)]
  /\ staged \in [Callers -> [Files -> Nat]]
  /\ claimed \in [Files -> Nat]
  /\ wrote \in [Callers -> [Files -> Contents]]
  /\ open \in [Callers -> SUBSET Files]
  /\ shown \in [Callers -> SUBSET Files]
  /\ doing \in [Callers -> {"idle", "thinking", "send", "writing", "committing", "waiting"}]

\* A coder has the file open that it is writing.
OpenOK ==
  \A c \in Callers : \A f \in open[c] : doing[c] = "writing" /\ open[c] = {f}

\* The index holds the latest text staged, and the commit one that is no older
\* than what any success was claimed of.
PlacesOK ==
  \A f \in Files :
    /\ stagings[f] # <<>> /\ index[f] = stagings[f][Len(stagings[f])]
    /\ \E n \in 1..Len(stagings[f]) : claimed[f] <= n /\ head[f] = stagings[f][n]
    /\ \A c \in Callers : staged[c][f] <= Len(stagings[f])

\* Where no two calls met, a file is whole wherever it is, or empty on disk
\* while one coder writes it.
WholeOK ==
  \A f \in Files \ disturbed :
    /\ Whole(f, index[f]) /\ Whole(f, head[f])
    /\ IF InUse(f) THEN tree[f] = Empty ELSE Whole(f, tree[f])
    /\ \A c, d \in Callers : f \in open[c] /\ f \in open[d] => c = d

\* A file that nobody wrote over holds what was written.
WroteOK == \A c \in Callers, f \in Files : wrote[c][f] \in {Missing, tree[f]}

\* The inductive invariant.
TreeOK == TreeType /\ OpenOK /\ PlacesOK /\ WholeOK /\ WroteOK /\ WorkIsShown

LEMMA TextsAreContents ==
  /\ Texts \subseteq Contents /\ {Empty, Original, Torn, Missing} \subseteq Contents
  /\ Missing # Empty /\ Missing # Torn /\ Torn \notin Texts /\ Missing \notin Texts
  BY FilesAssumption DEF Contents

LEMMA InitTree == Init => TreeOK
<1>. SUFFICES ASSUME Init
              PROVE  TreeOK
  OBVIOUS
<1>. USE TextsAreContents DEF Init, TreeInit, Nowhere, Untouched
<1>1. tree \in [Files -> Contents] /\ index = tree /\ head = tree
  OBVIOUS
<1>2. \A f \in Files : stagings[f] = <<index[f]>> /\ index[f] \in Contents
  BY <1>1
<1>3. stagings \in [Files -> Seq(Contents)]
  BY <1>2
<1>4. TreeType
  BY <1>1, <1>3 DEF TreeType
<1>5. OpenOK /\ WroteOK /\ WorkIsShown
  BY DEF OpenOK, WroteOK, WorkIsShown
<1>6. PlacesOK
  <2>. SUFFICES ASSUME NEW f \in Files
                PROVE  /\ stagings[f] # <<>> /\ index[f] = stagings[f][Len(stagings[f])]
                       /\ \E n \in 1..Len(stagings[f]) :
                            claimed[f] <= n /\ head[f] = stagings[f][n]
                       /\ \A c \in Callers : staged[c][f] <= Len(stagings[f])
    BY DEF PlacesOK
  <2>1. stagings[f] = <<index[f]>> /\ head[f] = index[f] /\ claimed[f] = 0
    BY <1>1, <1>2
  <2>2. Len(stagings[f]) = 1 /\ stagings[f][1] = index[f]
    BY <2>1
  <2>. QED
    BY <2>1, <2>2
<1>7. WholeOK
  <2>1. \A f \in Files : tree[f] \in {Original, Missing} /\ (tree[f] = Empty => f \in cleared)
    OBVIOUS
  <2>2. Original # Torn
    BY FilesAssumption
  <2>. QED
    BY <1>1, <2>1, <2>2 DEF WholeOK, Whole, InUse
<1>. QED
  BY <1>4, <1>5, <1>6, <1>7 DEF TreeOK

\* The steps that write no file and run no git command, or ran it in vain.
LEMMA TalkKeepsTree ==
  ASSUME TreeOK, NEW c \in Callers,
         \/ TakeTask(c) \/ FailTask(c) \/ CollectNothing(c) \/ SendResult(c)
         \/ CommitFails(c) \/ CallServer(c) \/ ServerReplied(c)
  PROVE  TreeOK'
<1>1. /\ UNCHANGED <<tree, index, head, claimed, stagings, open, cleared, disturbed>>
      /\ staged' = staged \/ staged' = [staged EXCEPT ![c] = Nowhere]
      /\ wrote' = wrote \/ wrote' = [wrote EXCEPT ![c] = Untouched]
      /\ shown' = shown \/ shown' = [shown EXCEPT ![c] = {}]
      /\ doing[c] # "writing"
      /\ \E to \in {"idle", "thinking", "waiting"} : doing' = [doing EXCEPT ![c] = to]
  BY DEF TakeTask, FailTask, CollectNothing, SendResult, EndTask, CommitFails, EndCommit,
         CallServer, ServerReplied, NewCall, Turn, treeVars, pastVars
<1>2. /\ Nowhere \in [Files -> Nat] /\ \A f \in Files : Nowhere[f] = 0
      /\ Untouched \in [Files -> Contents] /\ \A f \in Files : Untouched[f] = Missing
  BY TextsAreContents DEF Nowhere, Untouched
<1>. USE DEF TreeOK
<1>3. /\ \A d \in Callers : staged'[d] = staged[d] \/ staged'[d] = Nowhere
      /\ \A d \in Callers : wrote'[d] = wrote[d] \/ wrote'[d] = Untouched
      /\ \A d \in Callers : doing'[d] = doing[d] \/ (d = c /\ doing'[d] # "send")
      /\ \A d \in Callers : d # c => shown'[d] = shown[d]
  BY <1>1 DEF TreeType
<1>4. TreeType'
  <2>1. staged' \in [Callers -> [Files -> Nat]] /\ wrote' \in [Callers -> [Files -> Contents]]
    <3>1. staged \in [Callers -> [Files -> Nat]] /\ wrote \in [Callers -> [Files -> Contents]]
      BY DEF TreeType
    <3>. HIDE DEF TreeOK
    <3>. QED
      BY <1>1, <1>2, <3>1
  <2>2. shown' \in [Callers -> SUBSET Files]
    BY <1>1 DEF TreeType
  <2>. QED
    BY <1>1, <2>1, <2>2 DEF TreeType
<1>5. OpenOK'
  BY <1>1, <1>3 DEF TreeType, OpenOK
<1>6. PlacesOK'
  <2>1. \A d \in Callers, f \in Files : staged'[d][f] \in {staged[d][f], 0}
    BY <1>2, <1>3
  <2>2. \A f \in Files : Len(stagings[f]) \in Nat
    BY DEF TreeType
  <2>3. \A d \in Callers, f \in Files : staged'[d][f] <= Len(stagings[f])
    BY <2>1, <2>2 DEF PlacesOK
  <2>. QED
    BY <1>1, <2>3 DEF PlacesOK
<1>7. WholeOK'
  BY <1>1 DEF WholeOK, Whole, InUse
<1>8. WroteOK'
  BY <1>1, <1>2, <1>3 DEF WroteOK
<1>9. WorkIsShown'
  BY <1>1, <1>2, <1>3 DEF WorkIsShown, TreeType
<1>. QED
  BY <1>4, <1>5, <1>6, <1>7, <1>8, <1>9

LEMMA CommitKeepsTree ==
  ASSUME TreeOK, NEW c \in Callers, CommitFiles(c)
  PROVE  TreeOK'
<1>. USE DEF TreeOK
<1>1. /\ UNCHANGED <<tree, index, stagings, open, shown, wrote, cleared, disturbed>>
      /\ head' = index /\ staged' = [staged EXCEPT ![c] = Nowhere]
      /\ doing[c] = "committing" /\ doing' = [doing EXCEPT ![c] = "thinking"]
      /\ claimed' = [f \in Files |->
                       IF staged[c][f] > claimed[f] THEN staged[c][f] ELSE claimed[f]]
  BY DEF CommitFiles, EndCommit, GitCommit, Claim, Turn
<1>2. Nowhere \in [Files -> Nat] /\ \A f \in Files : Nowhere[f] = 0
  BY DEF Nowhere
<1>3. TreeType'
  BY <1>1, <1>2 DEF TreeType
<1>4. OpenOK'
  BY <1>1 DEF TreeType, OpenOK
<1>5. PlacesOK'
  <2>. SUFFICES ASSUME NEW f \in Files
                PROVE  /\ \E n \in 1..Len(stagings[f]) :
                            claimed'[f] <= n /\ head'[f] = stagings[f][n]
                       /\ \A d \in Callers : staged'[d][f] <= Len(stagings[f])
    BY <1>1 DEF PlacesOK
  <2>1. /\ Len(stagings[f]) \in 1..Len(stagings[f])
        /\ index[f] = stagings[f][Len(stagings[f])]
        /\ \A d \in Callers : staged[d][f] <= Len(stagings[f])
    BY DEF PlacesOK, TreeType
  <2>2. claimed[f] <= Len(stagings[f])
    BY <2>1 DEF PlacesOK, TreeType
  <2>3. claimed'[f] <= Len(stagings[f])
    BY <1>1, <2>1, <2>2 DEF TreeType
  <2>4. ASSUME NEW d \in Callers PROVE staged'[d][f] <= Len(stagings[f])
    <3>1. staged'[d][f] \in {staged[d][f], 0}
      BY <1>1, <1>2 DEF TreeType
    <3>. QED
      BY <2>1, <3>1
  <2>. QED
    BY <1>1, <2>1, <2>3, <2>4
<1>6. WholeOK'
  BY <1>1 DEF WholeOK, Whole, InUse
<1>7. WroteOK' /\ WorkIsShown'
  BY <1>1 DEF WroteOK, WorkIsShown, TreeType
<1>. QED
  BY <1>3, <1>4, <1>5, <1>6, <1>7

\* What a diff leaves out is staged or unknown to git.
LEMMA CollectKeepsTree ==
  ASSUME TreeOK, NEW c \in Callers, CollectDiff(c)
  PROVE  TreeOK'
<1>. USE DEF TreeOK
<1>1. /\ UNCHANGED <<tree, index, head, claimed, staged, stagings, open, wrote, cleared, disturbed>>
      /\ shown' = [shown EXCEPT ![c] = GitDiff]
      /\ doing[c] = "thinking" /\ doing' = [doing EXCEPT ![c] = "send"]
  BY DEF CollectDiff, Turn, treeVars, pastVars
<1>2. TreeType' /\ OpenOK' /\ PlacesOK' /\ WholeOK' /\ WroteOK'
  BY <1>1 DEF TreeType, OpenOK, PlacesOK, WholeOK, Whole, InUse, WroteOK, GitDiff
<1>3. ASSUME NEW f \in Files, wrote[c][f] # Missing, f \notin GitDiff, index[f] # Missing
      PROVE  wrote[c][f] \in Elements(stagings[f])
  <2>1. wrote[c][f] = tree[f] /\ tree[f] = index[f]
    BY <1>3 DEF WroteOK, GitDiff
  <2>2. Len(stagings[f]) \in 1..Len(stagings[f]) /\ index[f] = stagings[f][Len(stagings[f])]
    BY DEF PlacesOK, TreeType
  <2>. QED
    BY <2>1, <2>2 DEF Elements
<1>4. WorkIsShown'
  BY <1>1, <1>3 DEF WorkIsShown, TreeType
<1>. QED
  BY <1>2, <1>4

\* A write_file that leaves now in f moves nothing else: what is staged and
\* committed stays, and what any other task wrote to f is gone.
WritesOnly(c, f, now) ==
  /\ UNCHANGED <<index, head, shown, stagings, staged, claimed>>
  /\ \/ doing' = [doing EXCEPT ![c] = "thinking"]
     \/ doing' = [doing EXCEPT ![c] = "writing"]
  /\ tree' = [tree EXCEPT ![f] = now]
  /\ open' \in [Callers -> SUBSET Files]
  /\ wrote' \in [Callers -> [Files -> Contents]]
  /\ \A d \in Callers, g \in Files :
       IF g = f THEN wrote'[d][g] = Missing \/ (d = c /\ wrote'[d][g] = now)
                ELSE wrote'[d][g] = wrote[d][g]

LEMMA WriteKeepsTree ==
  ASSUME TreeOK, NEW c \in Callers, NEW f \in Files, NEW now \in Contents,
         WritesOnly(c, f, now), OpenOK', WholeOK'
  PROVE  TreeOK'
<1>. USE DEF TreeOK, WritesOnly
<1>1. TreeType'
  BY DEF TreeType
<1>2. PlacesOK'
  BY DEF PlacesOK
<1>3. WroteOK'
  BY DEF WroteOK, TreeType
<1>4. WorkIsShown'
  BY DEF WorkIsShown, TreeType
<1>. QED
  BY <1>1, <1>2, <1>3, <1>4

LEMMA OpenKeepsTree ==
  ASSUME TreeOK, NEW c \in Callers, NEW f \in Files, OpenFile(c, f)
  PROVE  TreeOK'
<1>. USE DEF TreeOK
<1>1. /\ UNCHANGED <<index, head, shown, cleared, stagings, staged, claimed>>
      /\ doing[c] = "thinking" /\ doing' = [doing EXCEPT ![c] = "writing"]
      /\ tree' = [tree EXCEPT ![f] = Empty]
      /\ open' = [open EXCEPT ![c] = {f}]
      /\ wrote' = [d \in Callers |-> [wrote[d] EXCEPT ![f] = Missing]]
      /\ disturbed' = IF InUse(f) THEN disturbed \cup {f} ELSE disturbed
  BY DEF OpenFile, NewCall, Turn, Truncate, WroteOver
<1>2. open[c] = {}
  BY <1>1 DEF OpenOK, TreeType
<1>3. open' \in [Callers -> SUBSET Files] /\ OpenOK'
  BY <1>1 DEF OpenOK, TreeType
<1>4. WholeOK'
  <2>. SUFFICES ASSUME NEW g \in Files \ disturbed'
                PROVE  /\ Whole(g, index[g])' /\ Whole(g, head[g])'
                       /\ IF InUse(g)' THEN tree'[g] = Empty ELSE Whole(g, tree[g])'
                       /\ \A d, e \in Callers : g \in open'[d] /\ g \in open'[e] => d = e
    BY DEF WholeOK
  <2>1. g \notin disturbed /\ Whole(g, index[g])' /\ Whole(g, head[g])'
    BY <1>1 DEF WholeOK, Whole
  <2>2. CASE g = f
    <3>1. ~InUse(f) /\ InUse(f)' /\ tree'[f] = Empty
      BY <1>1, <2>2 DEF InUse, TreeType
    <3>2. \A d \in Callers : f \in open'[d] => d = c
      BY <1>1, <3>1 DEF InUse, TreeType
    <3>. QED
      BY <2>1, <2>2, <3>1, <3>2
  <2>3. CASE g # f
    <3>1. \A d \in Callers : g \in open'[d] <=> g \in open[d]
      BY <1>1, <1>2, <2>3 DEF TreeType
    <3>2. tree'[g] = tree[g] /\ (InUse(g)' <=> InUse(g))
      BY <1>1, <2>3, <3>1 DEF TreeType, InUse
    <3>. QED
      BY <1>1, <2>1, <3>1, <3>2 DEF WholeOK, Whole
  <2>. QED
    BY <2>2, <2>3
<1>5. wrote' \in [Callers -> [Files -> Contents]]
  BY <1>1, TextsAreContents DEF TreeType
<1>6. \A d \in Callers, g \in Files : wrote'[d][g] = IF g = f THEN Missing ELSE wrote[d][g]
  BY <1>1 DEF TreeType
<1>7. WritesOnly(c, f, Empty)
  BY <1>1, <1>3, <1>5, <1>6 DEF WritesOnly
<1>8. Empty \in Contents
  BY TextsAreContents
<1>. HIDE DEF TreeOK
<1>. QED
  BY <1>3, <1>4, <1>7, <1>8, WriteKeepsTree

\* The end of a write_file: a file nobody disturbed holds the whole text.
LEMMA CloseKeepsWhole ==
  ASSUME TreeOK, NEW c \in Callers, NEW f \in open[c], NEW now \in Contents,
         UNCHANGED <<index, head>>, cleared \subseteq cleared', disturbed \subseteq disturbed',
         tree' = [tree EXCEPT ![f] = now],
         open' = [open EXCEPT ![c] = {}],
         f \notin disturbed' /\ tree[f] = Empty => now \in Texts /\ (now = Empty => f \in cleared')
  PROVE  WholeOK'
<1>. USE DEF TreeOK
<1>1. f \in Files /\ open[c] = {f}
  BY DEF TreeType, OpenOK
<1>. SUFFICES ASSUME NEW g \in Files \ disturbed'
              PROVE  /\ Whole(g, index[g])' /\ Whole(g, head[g])'
                     /\ IF InUse(g)' THEN tree'[g] = Empty ELSE Whole(g, tree[g])'
                     /\ \A d, e \in Callers : g \in open'[d] /\ g \in open'[e] => d = e
  BY DEF WholeOK
<1>2. g \notin disturbed /\ Whole(g, index[g])' /\ Whole(g, head[g])'
  BY DEF WholeOK, Whole
<1>3. CASE g = f
  <2>1. InUse(f) /\ tree[f] = Empty /\ \A d \in Callers : f \in open[d] => d = c
    BY <1>2, <1>3 DEF WholeOK, InUse
  <2>2. \A d \in Callers : f \notin open'[d]
    BY <2>1 DEF TreeType
  <2>3. tree'[f] = now /\ now \in Texts /\ (now = Empty => f \in cleared')
    BY <1>1, <1>3, <2>1 DEF TreeType
  <2>. QED
    BY <1>2, <1>3, <2>2, <2>3, TextsAreContents DEF InUse, Whole
<1>4. CASE g # f
  <2>1. \A d \in Callers : g \in open'[d] <=> g \in open[d]
    BY <1>1, <1>4 DEF TreeType
  <2>2. tree'[g] = tree[g] /\ (InUse(g)' <=> InUse(g))
    BY <1>1, <1>4, <2>1 DEF TreeType, InUse
  <2>. QED
    BY <1>2, <2>1, <2>2 DEF WholeOK, Whole
<1>. QED
  BY <1>3, <1>4

LEMMA FillKeepsTree ==
  ASSUME TreeOK, NEW c \in Callers, NEW f \in Files, NEW x \in Texts, FillFile(c, f, x)
  PROVE  TreeOK'
<1>. USE DEF TreeOK
<1>1. PICK now \in Overlay(x, tree[f]) : tree' = [tree EXCEPT ![f] = now]
  BY DEF FillFile, Write
<1>2. now \in Contents /\ (tree[f] = Empty => now = x)
  BY TextsAreContents DEF Overlay, TreeType
<1>3. /\ UNCHANGED <<index, head, shown, disturbed, stagings, staged, claimed>>
      /\ f \in open[c] /\ doing[c] = "writing" /\ doing' = [doing EXCEPT ![c] = "thinking"]
      /\ open' = [open EXCEPT ![c] = {}]
      /\ cleared' = IF x = Empty THEN cleared \cup {f} ELSE cleared
      /\ wrote' = [d \in Callers |-> [wrote[d] EXCEPT ![f] =
                                       IF d = c /\ tree'[f] = x THEN x ELSE Missing]]
  BY DEF FillFile, Turn, Write, WroteBy
<1>4. tree'[f] = now
  BY <1>1 DEF TreeType
<1>5. open' \in [Callers -> SUBSET Files] /\ OpenOK'
  BY <1>3 DEF OpenOK, TreeType
<1>6. WholeOK'
  BY <1>1, <1>2, <1>3, CloseKeepsWhole
<1>7. wrote' \in [Callers -> [Files -> Contents]]
  BY <1>3, TextsAreContents DEF TreeType
<1>8. \A d \in Callers, g \in Files :
         wrote'[d][g] = IF g = f THEN IF d = c /\ now = x THEN now ELSE Missing ELSE wrote[d][g]
  BY <1>3, <1>4 DEF TreeType
<1>9. WritesOnly(c, f, now)
  BY <1>1, <1>3, <1>5, <1>7, <1>8 DEF WritesOnly
<1>. HIDE DEF TreeOK
<1>. QED
  BY <1>2, <1>5, <1>6, <1>9, WriteKeepsTree

LEMMA FillFailsKeepsTree ==
  ASSUME TreeOK, NEW c \in Callers, NEW f \in Files, FillFails(c, f)
  PROVE  TreeOK'
<1>. USE DEF TreeOK
<1>1. PICK now \in {tree[f], Torn} : tree' = [tree EXCEPT ![f] = now]
  BY DEF FillFails, CutShort
<1>2. now \in Contents
  BY TextsAreContents DEF TreeType
<1>3. /\ UNCHANGED <<index, head, shown, cleared, stagings, staged, claimed>>
      /\ f \in open[c] /\ doing[c] = "writing" /\ doing' = [doing EXCEPT ![c] = "thinking"]
      /\ open' = [open EXCEPT ![c] = {}]
      /\ disturbed' = disturbed \cup {f}
      /\ wrote' = [d \in Callers |-> [wrote[d] EXCEPT ![f] = Missing]]
  BY DEF FillFails, Turn, CutShort, WroteOver
<1>4. open' \in [Callers -> SUBSET Files] /\ OpenOK'
  BY <1>3 DEF OpenOK, TreeType
<1>5. WholeOK'
  BY <1>1, <1>2, <1>3, CloseKeepsWhole
<1>6. wrote' \in [Callers -> [Files -> Contents]]
  BY <1>3, TextsAreContents DEF TreeType
<1>7. \A d \in Callers, g \in Files : wrote'[d][g] = IF g = f THEN Missing ELSE wrote[d][g]
  BY <1>3 DEF TreeType
<1>8. WritesOnly(c, f, now)
  BY <1>1, <1>3, <1>4, <1>6, <1>7 DEF WritesOnly
<1>. HIDE DEF TreeOK
<1>. QED
  BY <1>2, <1>4, <1>5, <1>8, WriteKeepsTree

LEMMA StagedAt ==
  ASSUME NEW s \in Seq(Contents), NEW x \in Contents
  PROVE  /\ Append(s, x) \in Seq(Contents) /\ Len(Append(s, x)) = Len(s) + 1
         /\ Append(s, x)[Len(s) + 1] = x
         /\ \A n \in 1..Len(s) : Append(s, x)[n] = s[n]
         /\ Elements(Append(s, x)) = Elements(s) \cup {x}
<1>1. /\ Append(s, x) \in Seq(Contents) /\ Len(Append(s, x)) = Len(s) + 1
      /\ Append(s, x)[Len(s) + 1] = x
      /\ \A n \in 1..Len(s) : Append(s, x)[n] = s[n]
  OBVIOUS
<1>2. 1..(Len(s) + 1) = 1..Len(s) \cup {Len(s) + 1}
  OBVIOUS
<1>. QED
  BY <1>1, <1>2 DEF Elements

LEMMA StageKeepsTree ==
  ASSUME TreeOK, NEW c \in Callers, NEW S \in SUBSET Files, StageFiles(c, S)
  PROVE  TreeOK'
<1>. USE DEF TreeOK
<1>1. /\ UNCHANGED <<tree, head, open, shown, wrote, cleared, claimed>>
      /\ doing[c] = "thinking" /\ doing' = [doing EXCEPT ![c] = "committing"]
      /\ disturbed' = disturbed \cup {f \in S : InUse(f)}
      /\ staged' = [staged EXCEPT ![c] = [f \in Files |->
                      IF f \in S /\ tree[f] # Missing THEN Len(stagings'[f]) ELSE 0]]
  BY DEF StageFiles, NewCall, Turn, GitAdd
<1>2. ASSUME NEW f \in Files
      PROVE  /\ index'[f] = IF f \in S /\ tree[f] # Missing THEN tree[f] ELSE index[f]
             /\ stagings'[f] = IF index'[f] = index[f] THEN stagings[f]
                               ELSE Append(stagings[f], index'[f])
             /\ index'[f] \in Contents
  BY DEF StageFiles, GitAdd, TreeType
<1>3. ASSUME NEW f \in Files
      PROVE  /\ stagings'[f] \in Seq(Contents) /\ stagings'[f] # <<>>
             /\ index'[f] = stagings'[f][Len(stagings'[f])]
             /\ Len(stagings[f]) <= Len(stagings'[f])
             /\ \A n \in 1..Len(stagings[f]) :
                  n \in 1..Len(stagings'[f]) /\ stagings'[f][n] = stagings[f][n]
             /\ Elements(stagings[f]) \subseteq Elements(stagings'[f])
             /\ index'[f] # index[f] => index'[f] \in Elements(stagings'[f])
  <2>1. stagings[f] \in Seq(Contents) /\ stagings[f] # <<>>
        /\ index[f] = stagings[f][Len(stagings[f])]
    BY DEF TreeType, PlacesOK
  <2>2. Len(stagings[f]) \in Nat
    BY <2>1
  <2>3. CASE index'[f] = index[f]
    BY <1>2, <2>1, <2>2, <2>3
  <2>4. CASE index'[f] # index[f]
    <3>1. stagings'[f] = Append(stagings[f], index'[f]) /\ index'[f] \in Contents
      BY <1>2, <2>4
    <3>. HIDE DEF TreeOK
    <3>. QED
      BY <2>1, <2>2, <3>1, StagedAt
  <2>. QED
    BY <2>3, <2>4
<1>4. TreeType'
  <2>1. index' \in [Files -> Contents] /\ stagings' \in [Files -> Seq(Contents)]
    <3>1. /\ index' = [f \in Files |-> IF f \in S /\ tree[f] # Missing THEN tree[f] ELSE index[f]]
          /\ stagings' = [f \in Files |-> IF index'[f] = index[f] THEN stagings[f]
                                          ELSE Append(stagings[f], index'[f])]
      BY DEF StageFiles, GitAdd
    <3>2. index' = [f \in Files |-> index'[f]] /\ stagings' = [f \in Files |-> stagings'[f]]
      BY <3>1
    <3>. HIDE DEF TreeOK
    <3>. QED
      BY <1>2, <1>3, <3>2
  <2>2. \A f \in Files : Len(stagings'[f]) \in Nat
    BY <2>1
  <2>3. staged' \in [Callers -> [Files -> Nat]]
    BY <1>1, <2>2 DEF TreeType
  <2>. QED
    BY <1>1, <2>1, <2>3 DEF TreeType
<1>5. OpenOK'
  BY <1>1 DEF OpenOK, TreeType
<1>6. PlacesOK'
  <2>. SUFFICES ASSUME NEW f \in Files
                PROVE  /\ \E n \in 1..Len(stagings'[f]) :
                            claimed'[f] <= n /\ head'[f] = stagings'[f][n]
                       /\ \A d \in Callers : staged'[d][f] <= Len(stagings'[f])
    BY <1>3 DEF PlacesOK
  <2>1. PICK n \in 1..Len(stagings[f]) : claimed[f] <= n /\ head[f] = stagings[f][n]
    BY DEF PlacesOK
  <2>2. n \in 1..Len(stagings'[f]) /\ claimed'[f] <= n /\ head'[f] = stagings'[f][n]
    BY <1>1, <1>3, <2>1
  <2>3. Len(stagings'[f]) \in Nat /\ Len(stagings[f]) \in Nat
    BY <1>4 DEF TreeType
  <2>4. ASSUME NEW d \in Callers PROVE staged'[d][f] <= Len(stagings'[f])
    <3>1. staged[d][f] <= Len(stagings[f]) /\ staged[d][f] \in Nat
      BY DEF PlacesOK, TreeType
    <3>2. staged'[d][f] \in {staged[d][f], Len(stagings'[f]), 0}
      BY <1>1 DEF TreeType
    <3>. QED
      BY <1>3, <2>3, <3>1, <3>2
  <2>. QED
    BY <2>2, <2>4
<1>7. WholeOK'
  BY <1>1, <1>2 DEF WholeOK, Whole, InUse
<1>8. WroteOK'
  BY <1>1 DEF WroteOK
<1>9. WorkIsShown'
  <2>. SUFFICES ASSUME NEW d \in Callers, NEW f \in Files, doing'[d] = "send",
                       wrote'[d][f] # Missing
                PROVE  \/ f \in shown'[d]
                       \/ wrote'[d][f] \in Elements(stagings'[f])
                       \/ index'[f] = Missing
    BY DEF WorkIsShown
  <2>1. doing[d] = "send" /\ wrote[d][f] = tree[f]
    BY <1>1 DEF TreeType, WroteOK
  <2>2. f \in shown[d] \/ wrote[d][f] \in Elements(stagings[f]) \/ index[f] = Missing
    BY <1>1, <2>1 DEF WorkIsShown
  <2>3. index'[f] # index[f] => index'[f] = tree[f] /\ index'[f] \in Elements(stagings'[f])
    BY <1>2, <1>3
  <2>. QED
    BY <1>1, <1>3, <2>1, <2>2, <2>3
<1>. QED
  BY <1>4, <1>5, <1>6, <1>7, <1>8, <1>9

LEMMA TreeStep == TreeOK /\ [Next]_vars => TreeOK'
<1>. SUFFICES ASSUME TreeOK, [Next]_vars
              PROVE  TreeOK'
  OBVIOUS
<1>1. ASSUME NEW c \in Callers, CoderStep(c)
      PROVE  TreeOK'
  BY <1>1, TalkKeepsTree, OpenKeepsTree, FillKeepsTree, FillFailsKeepsTree, StageKeepsTree,
     CommitKeepsTree, CollectKeepsTree
  DEF CoderStep
<1>2. CASE UNCHANGED <<treeVars, coderVars>>
  BY <1>2
  DEF treeVars, coderVars, pastVars, TreeOK, TreeType, OpenOK, PlacesOK, WholeOK, Whole, InUse,
      WroteOK, WorkIsShown
<1>. QED
  BY <1>1, <1>2 DEF Next, vars

\* A git_commit that reports success committed what it had staged or what was
\* staged later, and whole if no two calls met at the file.
THEOREM CommitsHold == Spec => []SuccessIsCommitted
<1>1. TreeOK => SuccessIsCommitted
  BY DEF TreeOK, TreeType, PlacesOK, WholeOK, SuccessIsCommitted
<1>. QED
  BY <1>1, InitTree, TreeStep, PTL DEF Spec

\* No other coder hides a task's work from the diff it reports, but by staging it
\* or by writing over it.
THEOREM DiffsShowWork == Spec => []WorkIsShown
<1>1. TreeOK => WorkIsShown
  BY DEF TreeOK
<1>. QED
  BY <1>1, InitTree, TreeStep, PTL DEF Spec
=============================================================================
