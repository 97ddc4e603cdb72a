------------------------- MODULE ValidateDAGProofs -------------------------
(* validateDAG decides correctly, for every finite plan and every lists of   *)
(* dependencies.                                                             *)
EXTENDS ValidateDAG, FiniteSetTheorems, TLAPS

\* The entries of id's list that have not been taken off its degree.
Open(id) == {k \in DOMAIN deps[id] : deps[id][k] \notin order}

Graph == [id \in TaskIDs |-> Named(id)]

\* The loop's invariant: inDegree counts the open entries, and the tasks with
\* none are the visited ones and, once each, the queued ones.
DegreesOK == \A id \in TaskIDs : inDegree[id] = Cardinality(Open(id))

Queued == {queue[i] : i \in DOMAIN queue}

QueueOK ==
  /\ \A i, j \in DOMAIN queue : queue[i] = queue[j] => i = j
  /\ Queued \cap order = {}
  /\ Queued \cup order = {id \in TaskIDs : inDegree[id] = 0}

LoopInv ==
  /\ TypeOK
  /\ pc \in {"count", "seed"} => order = {}
  /\ pc \in {"seed", "visit"} => Closed(TaskIDs, Graph) /\ DegreesOK
  /\ pc = "visit" => QueueOK
  /\ visited = Cardinality(order)
  /\ DependenciesVisitedFirst
  /\ Acyclic(order, Graph)
  /\ VerdictRight
  /\ verdict # "none" => pc = "end"

-----------------------------------------------------------------------------
(* Lists and counts. *)

LEMMA ListIsSeq ==
  ASSUME NEW s \in Lists
  PROVE  s \in Seq(IDs) /\ Len(s) \in Nat /\ DOMAIN s = 1..Len(s)
  BY DAGAssumption DEF Lists

LEMMA FinitePart ==
  ASSUME NEW s \in Lists, NEW S \in SUBSET DOMAIN s
  PROVE  IsFiniteSet(S) /\ Cardinality(S) \in Nat
<1>1. IsFiniteSet(1..Len(s))
  BY ListIsSeq, FS_Interval
<1>. QED
  BY <1>1, ListIsSeq, FS_Subset, FS_CardinalityType

\* Visiting one more task takes its entries off the open ones.
LEMMA OpenShrinks ==
  ASSUME NEW s \in Lists, NEW curr, NEW ord, curr \notin ord
  PROVE  Cardinality({k \in DOMAIN s : s[k] \notin ord \cup {curr}})
           = Cardinality({k \in DOMAIN s : s[k] \notin ord}) - Occurrences(curr, s)
<1>. DEFINE A == {k \in DOMAIN s : s[k] \notin ord \cup {curr}}
            B == {k \in DOMAIN s : s[k] = curr}
<1>1. IsFiniteSet(A) /\ IsFiniteSet(B) /\ Cardinality(A) \in Nat /\ Cardinality(B) \in Nat
  BY FinitePart
<1>2. A \cap B = {} /\ A \cup B = {k \in DOMAIN s : s[k] \notin ord}
  OBVIOUS
<1>3. Cardinality(A \cup B) = Cardinality(A) + Cardinality(B) - Cardinality(A \cap B)
  BY <1>1, FS_Union
<1>. QED
  BY <1>1, <1>2, <1>3, FS_EmptySet DEF Occurrences

LEMMA OpenEmpty ==
  ASSUME TypeOK, NEW id \in TaskIDs
  PROVE  /\ Cardinality(Open(id)) \in Nat
         /\ Cardinality(Open(id)) = 0 <=> Named(id) \subseteq order
<1>1. IsFiniteSet(Open(id)) /\ Cardinality(Open(id)) \in Nat
  BY FinitePart DEF TypeOK, Open
<1>2. Cardinality(Open(id)) = 0 <=> Open(id) = {}
  BY <1>1, FS_EmptySet
<1>. QED
  BY <1>1, <1>2 DEF Open, Named

\* A task all of whose dependencies were visited before closes no cycle.
LEMMA AcyclicGrows ==
  ASSUME NEW ord \in SUBSET TaskIDs, Acyclic(ord, Graph), NEW curr \in TaskIDs \ ord,
         Named(curr) \subseteq ord, \A id \in ord : Named(id) \subseteq ord
  PROVE  Acyclic(ord \cup {curr}, Graph)
<1>. SUFFICES ASSUME NEW S \in (SUBSET (ord \cup {curr})) \ {{}}
              PROVE  \E t \in S : Graph[t] \cap S = {}
  BY DEF Acyclic
<1>1. CASE S \subseteq {curr}
  BY <1>1 DEF Graph
<1>2. CASE ~(S \subseteq {curr})
  <2>. S \ {curr} \in (SUBSET ord) \ {{}}
    BY <1>2
  <2>. PICK t \in S \ {curr} : Graph[t] \cap (S \ {curr}) = {}
    BY DEF Acyclic
  <2>1. curr \notin Graph[t]
    BY DEF Graph
  <2>. QED
    BY <2>1
<1>. QED
  BY <1>1, <1>2

\* When nothing is queued, the tasks that were not visited wait for each other.
LEMMA LeftoverIsCyclic ==
  ASSUME LoopInv, pc = "visit", queue = <<>>, order # TaskIDs
  PROVE  ~Acyclic(TaskIDs, Graph)
<1>. DEFINE S == TaskIDs \ order
<1>1. S \in (SUBSET TaskIDs) \ {{}}
  BY DEF LoopInv, TypeOK
<1>2. ASSUME NEW t \in S PROVE Graph[t] \cap S # {}
  <2>1. inDegree[t] # 0
    BY DEF LoopInv, QueueOK, Queued
  <2>2. ~(Named(t) \subseteq order)
    BY <2>1, OpenEmpty DEF LoopInv, DegreesOK
  <2>. QED
    BY <2>2 DEF LoopInv, Closed, Graph
<1>. QED
  BY <1>1, <1>2 DEF Acyclic

-----------------------------------------------------------------------------
(* The invariant. *)

\* Steps that visit nothing.
LEMMA GraphFrame ==
  ASSUME UNCHANGED <<deps, order>>
  PROVE  /\ Graph' = Graph
         /\ Acyclic(order, Graph)' <=> Acyclic(order, Graph)
         /\ Closed(TaskIDs, Graph)' <=> Closed(TaskIDs, Graph)
         /\ DependenciesVisitedFirst' <=> DependenciesVisitedFirst
<1>1. Graph' = Graph /\ \A id : Named(id)' = Named(id)
  BY DEF Graph, Named
<1>. QED
  BY <1>1 DEF Acyclic, Closed, DependenciesVisitedFirst

LEMMA InitInv == Init => LoopInv
<1>. SUFFICES ASSUME Init PROVE LoopInv
  OBVIOUS
<1>1. TypeOK
  BY DEF Init, TypeOK
<1>2. Acyclic(order, Graph)
  BY DEF Init, Acyclic
<1>. QED
  BY <1>1, <1>2, FS_EmptySet DEF Init, LoopInv, DependenciesVisitedFirst, VerdictRight

LEMMA CountInv ==
  ASSUME LoopInv, CountDegrees
  PROVE  LoopInv'
<1>. USE DEF CountDegrees, LoopInv
<1>1. \A id \in TaskIDs : Len(deps[id]) \in Nat /\ Len(deps[id]) = Cardinality(Open(id))
  <2>. SUFFICES ASSUME NEW id \in TaskIDs
                PROVE  Len(deps[id]) \in Nat /\ Len(deps[id]) = Cardinality(Open(id))
    OBVIOUS
  <2>1. Open(id) = 1..Len(deps[id]) /\ Len(deps[id]) \in Nat
    BY ListIsSeq DEF Open, TypeOK
  <2>. QED
    BY <2>1, FS_Interval
<1>2. TypeOK'
  BY <1>1 DEF TypeOK
<1>3. Closed(TaskIDs, Graph)' /\ DegreesOK'
  BY <1>1 DEF Closed, Graph, Named, DegreesOK, Open
<1>4. Acyclic(order, Graph)' /\ DependenciesVisitedFirst'
  BY DEF Acyclic, Graph, Named, DependenciesVisitedFirst
<1>. QED
  BY <1>2, <1>3, <1>4 DEF VerdictRight

LEMMA ListingProperties ==
  ASSUME NEW S \in SUBSET TaskIDs, NEW s \in Listings(S)
  PROVE  /\ s \in Seq(S) /\ DOMAIN s = 1..Len(s) /\ Len(s) \in Nat
         /\ {s[i] : i \in DOMAIN s} = S
         /\ \A i, j \in DOMAIN s : s[i] = s[j] => i = j
<1>1. Cardinality(S) \in Nat
  BY DAGAssumption, FS_Subset, FS_CardinalityType
<1>2. s \in [1..Cardinality(S) -> S] /\ \A t \in S : \E i \in 1..Cardinality(S) : s[i] = t
  BY DEF Listings, Bijection, Surjection
<1>3. \A i, j \in DOMAIN s : s[i] = s[j] => i = j
  BY DEF Listings, Bijection, Injection, IsInjective
<1>. QED
  BY <1>1, <1>2, <1>3

LEMMA SeedInv ==
  ASSUME LoopInv, SeedQueue
  PROVE  LoopInv'
<1>. USE DEF SeedQueue, LoopInv
<1>. DEFINE Z == {id \in TaskIDs : inDegree[id] = 0}
<1>1. /\ queue' \in Seq(Z) /\ {queue'[i] : i \in DOMAIN queue'} = Z
      /\ \A i, j \in DOMAIN queue' : queue'[i] = queue'[j] => i = j
  BY ListingProperties
<1>2. TypeOK'
  BY <1>1 DEF TypeOK
<1>3. QueueOK'
  BY <1>1 DEF QueueOK, Queued
<1>4. Closed(TaskIDs, Graph)' /\ DegreesOK' /\ Acyclic(order, Graph)' /\ DependenciesVisitedFirst'
  BY DEF Closed, Graph, Named, DegreesOK, Open, Acyclic, DependenciesVisitedFirst
<1>. QED
  BY <1>2, <1>3, <1>4 DEF VerdictRight

\* The queue after a visit: its tail and the freed tasks, each once.
LEMMA QueueGrows ==
  ASSUME NEW q \in Seq(TaskIDs), q # <<>>, NEW more \in Seq(TaskIDs),
         \A i, j \in DOMAIN q : q[i] = q[j] => i = j,
         \A i, j \in DOMAIN more : more[i] = more[j] => i = j,
         \A i \in DOMAIN q, j \in DOMAIN more : q[i] # more[j]
  PROVE  LET r == Tail(q) \o more
         IN  /\ r \in Seq(TaskIDs)
             /\ \A i, j \in DOMAIN r : r[i] = r[j] => i = j
             /\ {r[i] : i \in DOMAIN r}
                  = ({q[i] : i \in DOMAIN q} \ {Head(q)}) \cup {more[i] : i \in DOMAIN more}
<1>. DEFINE r == Tail(q) \o more
            n == Len(q) - 1
<1>1. /\ Tail(q) \in Seq(TaskIDs) /\ Len(Tail(q)) = n /\ n \in Nat
      /\ DOMAIN q = 1..(n + 1) /\ Head(q) = q[1]
      /\ \A i \in 1..n : Tail(q)[i] = q[i + 1]
  OBVIOUS
<1>2. /\ r \in Seq(TaskIDs) /\ Len(more) \in Nat /\ DOMAIN more = 1..Len(more)
      /\ DOMAIN r = 1..(n + Len(more))
      /\ \A i \in 1..n : r[i] = q[i + 1]
      /\ \A i \in (n + 1)..(n + Len(more)) : r[i] = more[i - n]
  BY <1>1
<1>3. ASSUME NEW i \in DOMAIN r, NEW j \in DOMAIN r, r[i] = r[j] PROVE i = j
  <2>1. CASE i \in 1..n /\ j \in 1..n
    BY <1>1, <1>2, <1>3, <2>1
  <2>2. CASE i \in (n + 1)..(n + Len(more)) /\ j \in (n + 1)..(n + Len(more))
    <3>1. i - n \in DOMAIN more /\ j - n \in DOMAIN more /\ more[i - n] = more[j - n]
      BY <1>1, <1>2, <1>3, <2>2
    <3>2. i - n = j - n
      BY <3>1
    <3>. QED
      BY <1>1, <2>2, <3>2
  <2>3. ASSUME NEW k \in 1..n, NEW l \in (n + 1)..(n + Len(more)) PROVE r[k] # r[l]
    <3>1. k + 1 \in DOMAIN q /\ l - n \in DOMAIN more
      BY <1>1, <1>2
    <3>. QED
      BY <1>1, <1>2, <3>1
  <2>4. /\ i \in 1..n \/ i \in (n + 1)..(n + Len(more))
        /\ j \in 1..n \/ j \in (n + 1)..(n + Len(more))
    BY <1>1, <1>2
  <2>. QED
    BY <1>3, <2>1, <2>2, <2>3, <2>4
<1>4. ASSUME NEW i \in DOMAIN r
      PROVE  r[i] \in ({q[k] : k \in DOMAIN q} \ {Head(q)}) \cup {more[k] : k \in DOMAIN more}
  <2>1. CASE i \in 1..n
    <3>1. i + 1 \in DOMAIN q /\ 1 \in DOMAIN q /\ i + 1 # 1
      BY <1>1, <2>1
    <3>2. q[i + 1] # q[1]
      BY <3>1
    <3>. QED
      BY <1>1, <1>2, <2>1, <3>1, <3>2
  <2>2. CASE i \in (n + 1)..(n + Len(more))
    <3>1. i - n \in DOMAIN more
      BY <1>1, <1>2, <2>2
    <3>. QED
      BY <1>2, <2>2, <3>1
  <2>. QED
    BY <1>1, <1>2, <2>1, <2>2
<1>5. ASSUME NEW i \in DOMAIN q, q[i] # Head(q) PROVE \E k \in DOMAIN r : r[k] = q[i]
  <2>1. i - 1 \in 1..n /\ i - 1 \in DOMAIN r /\ (i - 1) + 1 = i
    BY <1>1, <1>2, <1>5
  <2>. QED
    BY <1>2, <2>1
<1>6. ASSUME NEW i \in DOMAIN more PROVE \E k \in DOMAIN r : r[k] = more[i]
  <2>1. n + i \in (n + 1)..(n + Len(more)) /\ n + i \in DOMAIN r /\ (n + i) - n = i
    BY <1>1, <1>2
  <2>. QED
    BY <1>2, <2>1
<1>7. {r[i] : i \in DOMAIN r}
        = ({q[i] : i \in DOMAIN q} \ {Head(q)}) \cup {more[i] : i \in DOMAIN more}
  BY <1>4, <1>5, <1>6
<1>. QED
  BY <1>2, <1>3, <1>7

LEMMA VisitInv ==
  ASSUME LoopInv, Visit
  PROVE  LoopInv'
<1>. DEFINE curr == Head(queue)
<1>1. /\ TypeOK /\ Closed(TaskIDs, Graph) /\ DegreesOK /\ QueueOK
      /\ DependenciesVisitedFirst /\ Acyclic(order, Graph) /\ VerdictRight
      /\ visited = Cardinality(order) /\ verdict = "none"
  BY DEF Visit, LoopInv
<1>2. /\ queue \in Seq(TaskIDs) /\ DOMAIN queue = 1..Len(queue) /\ curr = queue[1]
      /\ 1 \in DOMAIN queue /\ queue # <<>>
  BY <1>1 DEF Visit, TypeOK
<1>3. curr \in TaskIDs \ order /\ inDegree[curr] = 0 /\ order' = order \cup {curr}
  <2>. curr \in Queued
    BY <1>2 DEF Queued
  <2>. QED
    BY <1>1 DEF Visit, QueueOK
<1>4. \A id \in TaskIDs : Cardinality(Open(id))' \in Nat
                          /\ Lowered(curr)[id] = Cardinality(Open(id))'
  <2>. SUFFICES ASSUME NEW id \in TaskIDs
                PROVE  Cardinality(Open(id))' \in Nat
                       /\ Lowered(curr)[id] = Cardinality(Open(id))'
    OBVIOUS
  <2>1. Open(id)' = {k \in DOMAIN deps[id] : deps[id][k] \notin order \cup {curr}}
    BY <1>3 DEF Visit, Open
  <2>2. deps[id] \in Lists
    BY <1>1 DEF TypeOK
  <2>3. Cardinality(Open(id)') = Cardinality(Open(id)) - Occurrences(curr, deps[id])
    BY <1>3, <2>1, <2>2, OpenShrinks DEF Open
  <2>4. Cardinality(Open(id)') \in Nat
    BY <2>1, <2>2, FinitePart
  <2>. QED
    BY <1>1, <2>3, <2>4 DEF DegreesOK, Lowered
<1>5. DegreesOK' /\ Closed(TaskIDs, Graph)'
  BY <1>1, <1>4 DEF Visit, DegreesOK, Closed, Graph, Named
<1>6. Named(curr) \subseteq order
  BY <1>1, <1>3, OpenEmpty DEF DegreesOK
<1>7. Acyclic(order, Graph)' /\ DependenciesVisitedFirst'
  <2>1. Acyclic(order \cup {curr}, Graph)
    BY <1>1, <1>3, <1>6, AcyclicGrows DEF TypeOK, DependenciesVisitedFirst
  <2>2. Graph' = Graph /\ \A id : Named(id)' = Named(id)
    BY DEF Visit, Graph, Named
  <2>. QED
    BY <1>1, <1>3, <1>6, <2>1, <2>2 DEF Acyclic, DependenciesVisitedFirst
<1>8. visited' = Cardinality(order') /\ visited' \in Nat
  <2>1. IsFiniteSet(order)
    BY <1>1, DAGAssumption, FS_Subset DEF TypeOK
  <2>2. Cardinality(order \cup {curr}) = Cardinality(order) + 1 /\ Cardinality(order) \in Nat
    BY <1>3, <2>1, FS_AddElement, FS_CardinalityType
  <2>. QED
    BY <1>1, <1>3, <2>2 DEF Visit
<1>9. QueueOK' /\ queue' \in Seq(TaskIDs)
  <2>. PICK more \in Listings(Freed(curr)) : queue' = Tail(queue) \o more
    BY DEF Visit
  <2>1. Freed(curr) \in SUBSET TaskIDs
    BY DEF Freed
  <2>2. /\ more \in Seq(TaskIDs) /\ {more[i] : i \in DOMAIN more} = Freed(curr)
        /\ \A i, j \in DOMAIN more : more[i] = more[j] => i = j
    BY <2>1, ListingProperties
  <2>3. ASSUME NEW id \in Freed(curr)
        PROVE  id \notin order \cup Queued /\ inDegree'[id] = 0
    <3>1. id \in TaskIDs /\ curr \in Named(id) /\ inDegree'[id] = 0
      <4>1. Occurrences(curr, deps[id]) # 0
        BY <1>1, FinitePart DEF Freed, Occurrences, TypeOK
      <4>2. curr \in Named(id)
        BY <4>1, FS_EmptySet DEF Occurrences, Named
      <4>. QED
        BY <4>2 DEF Freed, Visit
    <3>2. inDegree[id] # 0
      BY <1>1, <1>3, <3>1, OpenEmpty DEF DegreesOK
    <3>. QED
      BY <1>1, <3>1, <3>2 DEF QueueOK
  <2>4. /\ \A i, j \in DOMAIN queue' : queue'[i] = queue'[j] => i = j
        /\ Queued' = (Queued \ {curr}) \cup Freed(curr)
        /\ queue' \in Seq(TaskIDs)
    <3>1. \A i \in DOMAIN queue, j \in DOMAIN more : queue[i] # more[j]
      BY <2>2, <2>3 DEF Queued
    <3>2. /\ Tail(queue) \o more \in Seq(TaskIDs)
          /\ \A i, j \in DOMAIN (Tail(queue) \o more) :
               (Tail(queue) \o more)[i] = (Tail(queue) \o more)[j] => i = j
          /\ {(Tail(queue) \o more)[i] : i \in DOMAIN (Tail(queue) \o more)}
               = (Queued \ {curr}) \cup Freed(curr)
      <4>1. /\ queue \in Seq(TaskIDs) /\ queue # <<>> /\ curr = Head(queue)
            /\ \A i, j \in DOMAIN queue : queue[i] = queue[j] => i = j
        BY <1>1, <1>2 DEF QueueOK
      <4>. QED
        BY <2>2, <3>1, <4>1, QueueGrows DEF Queued
    <3>. QED
      BY <3>2 DEF Queued
  <2>5. \A id \in TaskIDs : inDegree'[id] = 0 <=> id \in Queued \cup order \cup Freed(curr)
    <3>. SUFFICES ASSUME NEW id \in TaskIDs
                  PROVE  inDegree'[id] = 0 <=> id \in Queued \cup order \cup Freed(curr)
      OBVIOUS
    <3>1. Occurrences(curr, deps[id]) \in Nat /\ inDegree[id] \in Nat
      BY <1>1, FinitePart DEF Occurrences, TypeOK
    <3>2. inDegree'[id] = inDegree[id] - Occurrences(curr, deps[id]) /\ inDegree'[id] \in Nat
      BY <1>4 DEF Visit, Lowered
    <3>3. id \in Queued \cup order <=> inDegree[id] = 0
      BY <1>1 DEF QueueOK
    <3>4. id \in Freed(curr) <=> Occurrences(curr, deps[id]) > 0 /\ inDegree'[id] = 0
      BY DEF Freed, Visit
    <3>. QED
      BY <3>1, <3>2, <3>3, <3>4
  <2>6. Queued \subseteq TaskIDs /\ Queued \cap order = {} /\ curr \in Queued
    BY <1>1, <1>2 DEF QueueOK, Queued, TypeOK
  <2>7. order \subseteq TaskIDs
    BY <1>1 DEF TypeOK
  <2>. QED
    BY <1>3, <2>1, <2>3, <2>4, <2>5, <2>6, <2>7 DEF QueueOK
<1>10. TypeOK'
  <2>1. inDegree' \in [TaskIDs -> Nat]
    BY <1>4 DEF Visit, Lowered
  <2>. QED
    BY <1>1, <1>3, <1>8, <1>9, <2>1 DEF Visit, TypeOK
<1>. QED
  BY <1>1, <1>5, <1>7, <1>8, <1>9, <1>10 DEF Visit, VerdictRight, LoopInv

LEMMA NextInv == LoopInv /\ [Next]_vars => LoopInv'
<1>. SUFFICES ASSUME LoopInv, [Next]_vars PROVE LoopInv'
  OBVIOUS
<1>0. /\ TypeOK /\ DependenciesVisitedFirst /\ Acyclic(order, Graph)
      /\ visited = Cardinality(order)
  BY DEF LoopInv
<1>1. CASE UnknownTask
  <2>1. TypeOK' /\ Acyclic(order, Graph)' /\ DependenciesVisitedFirst'
    BY <1>0, <1>1, GraphFrame DEF UnknownTask, Return, TypeOK
  <2>2. ~Closed(TaskIDs, Graph)'
    BY <1>1 DEF UnknownTask, Closed, Graph, Named
  <2>3. verdict' = "unknown" /\ pc' = "end" /\ visited' = Cardinality(order)' /\ VerdictRight'
    BY <1>0, <1>1, <2>2 DEF UnknownTask, Return, VerdictRight, Graph
  <2>. QED
    BY <2>1, <2>3 DEF LoopInv
<1>2. CASE Conclude
  <2>1. TypeOK' /\ Acyclic(order, Graph)' /\ DependenciesVisitedFirst'
    BY <1>0, <1>2, GraphFrame DEF Conclude, Return, TypeOK
  <2>2. visited = Cardinality(TaskIDs) <=> order = TaskIDs
    BY <1>0, DAGAssumption, FS_Subset DEF TypeOK
  <2>3. pc = "visit" /\ queue = <<>> /\ Closed(TaskIDs, Graph)
    BY <1>2 DEF Conclude, LoopInv
  <2>4. verdict' = "ok" => Acyclic(TaskIDs, Graph)
    BY <1>0, <1>2, <2>2 DEF Conclude, Return
  <2>5. verdict' = "circular" => ~Acyclic(TaskIDs, Graph)
    BY <1>2, <2>2, <2>3, LeftoverIsCyclic DEF Conclude, Return
  <2>6. Graph' = Graph /\ verdict' \in {"ok", "circular"}
    BY <1>2 DEF Conclude, Return, Graph, Named
  <2>7. VerdictRight'
    BY <2>3, <2>4, <2>5, <2>6 DEF VerdictRight, ValidPlan, Closed, Acyclic, Graph
  <2>. QED
    BY <1>0, <1>2, <2>1, <2>7 DEF Conclude, Return, LoopInv
<1>3. CASE UNCHANGED vars
  <2>1. TypeOK' /\ Acyclic(order, Graph)' /\ DependenciesVisitedFirst' /\ Graph' = Graph
    BY <1>0, <1>3, GraphFrame DEF vars, TypeOK
  <2>2. DegreesOK' <=> DegreesOK
    BY <1>3 DEF vars, DegreesOK, Open
  <2>3. QueueOK' <=> QueueOK
    BY <1>3 DEF vars, QueueOK, Queued
  <2>4. VerdictRight' <=> VerdictRight
    BY <1>3, <2>1 DEF vars, VerdictRight, Graph, ValidPlan, Closed, Acyclic
  <2>5. Closed(TaskIDs, Graph)' <=> Closed(TaskIDs, Graph)
    BY <1>3, GraphFrame DEF vars
  <2>. QED
    BY <1>3, <2>1, <2>2, <2>3, <2>4, <2>5 DEF vars, LoopInv
<1>. QED
  BY <1>1, <1>2, <1>3, CountInv, SeedInv, VisitInv DEF Next

\* For every plan and every dependency lists, the verdict is the right one.
THEOREM VerdictCorrect == Spec => []VerdictRight
<1>1. LoopInv => VerdictRight
  BY DEF LoopInv
<1>. QED
  BY <1>1, InitInv, NextInv, PTL DEF Spec

\* Every variable has its type, whatever the plan.
THEOREM TypeCorrect == Spec => []TypeOK
<1>1. LoopInv => TypeOK
  BY DEF LoopInv
<1>. QED
  BY <1>1, InitInv, NextInv, PTL DEF Spec

\* The tasks that left the queue come after everything they depend on, whatever
\* the plan.
THEOREM VisitedInOrder == Spec => []DependenciesVisitedFirst
<1>1. LoopInv => DependenciesVisitedFirst
  BY DEF LoopInv
<1>. QED
  BY <1>1, InitInv, NextInv, PTL DEF Spec

\* Only the loop fills the queue, and it ends with an empty one.
QueueQuiet == pc # "visit" => queue = <<>>

LEMMA QueueQuietKept == QueueQuiet /\ [Next]_vars => QueueQuiet'
  BY DEF QueueQuiet, Next, UnknownTask, CountDegrees, SeedQueue, Visit, Conclude, Return, vars

\* Turns of the loop are tasks: none is queued twice, and visited counts them.
THEOREM VisitsOnce == Spec => []VisitsAreTasks
<1>1. LoopInv /\ QueueQuiet => VisitsAreTasks
  <2>1. ASSUME LoopInv, QueueQuiet, pc = "visit" PROVE VisitsAreTasks
    <3>1. queue \in Seq(TaskIDs) /\ QueueOK
      BY <2>1 DEF LoopInv, TypeOK
    <3>. QED
      BY <2>1, <3>1 DEF LoopInv, VisitsAreTasks, QueueOK, Queued
  <2>2. ASSUME LoopInv, QueueQuiet, pc # "visit" PROVE VisitsAreTasks
    BY <2>2 DEF LoopInv, QueueQuiet, VisitsAreTasks
  <2>. QED
    BY <2>1, <2>2
<1>2. Init => QueueQuiet
  BY DEF Init, QueueQuiet
<1>. QED
  BY <1>1, <1>2, InitInv, NextInv, QueueQuietKept, PTL DEF Spec
=============================================================================
