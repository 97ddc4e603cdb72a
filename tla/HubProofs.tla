----------------------------- MODULE HubProofs -----------------------------
(* Theorems about Hub, for any number of browsers and any channel sizes.     *)
EXTENDS Hub, TLAPS

\* A client that Run has not met yet: nobody can unregister it.
Fresh(c) == reader[c] \in {"none", "registering"}

FreshOK ==
  \A c \in Clients :
    /\ conn[c] = "new" => reader[c] = "none"
    /\ Fresh(c) => closes[c] = 0 /\ c \notin clients /\ c \notin missed /\ dropping[c] = 0

\* The inductive invariant.
HubOK ==
  /\ TypeOK
  /\ FreshOK
  /\ ChannelsCloseOnce
  /\ MissedMeansLeaving

LEMMA InitHub == Init => HubOK
  BY HubAssumption
  DEF Init, HubOK, TypeOK, FreshOK, Fresh, ChannelsCloseOnce, MissedMeansLeaving

\* A case of Run that unregisters a client which is not fresh, whichever
\* goroutine asked for it.
LEMMA UnregisterKeeps ==
  ASSUME HubOK, NEW c \in Clients, ~Fresh(c), Unregister(c),
         UNCHANGED <<broadcast, offered, send>>
  PROVE  /\ ChannelsCloseOnce'
         /\ clients' \in SUBSET Clients /\ closes' \in [Clients -> Nat]
         /\ c \notin clients'
         /\ \A d \in Clients \ {c} : closes'[d] = closes[d] /\ (d \in clients' <=> d \in clients)
         /\ running' = running /\ missed' = missed
  BY DEF HubOK, TypeOK, ChannelsCloseOnce, Unregister

LEMMA RunKeeps ==
  ASSUME HubOK, NEW c \in Clients, Register(c) \/ Leaves(c)
  PROVE  HubOK'
<1>. USE DEF HubOK, TypeOK, FreshOK, Fresh
<1>1. CASE Register(c)
  BY <1>1 DEF Register, ChannelsCloseOnce, MissedMeansLeaving
<1>2. CASE UnregisterReader(c)
  <2>1. ~Fresh(c) /\ UNCHANGED <<broadcast, offered, send>>
    BY <1>2 DEF UnregisterReader, Unregister
  <2>2. TypeOK'
    BY <1>2, <2>1, UnregisterKeeps DEF UnregisterReader
  <2>3. FreshOK'
    BY <1>2, <2>1, UnregisterKeeps DEF UnregisterReader
  <2>4. ChannelsCloseOnce' /\ MissedMeansLeaving'
    BY <1>2, <2>1, UnregisterKeeps DEF UnregisterReader, MissedMeansLeaving
  <2>. QED
    BY <2>2, <2>3, <2>4
<1>3. CASE UnregisterSlow(c)
  <2>1. ~Fresh(c) /\ UNCHANGED <<broadcast, offered, send>>
    BY <1>3 DEF UnregisterSlow, Unregister
  <2>2. TypeOK'
    BY <1>3, <2>1, UnregisterKeeps DEF UnregisterSlow
  <2>3. FreshOK'
    BY <1>3, <2>1, UnregisterKeeps DEF UnregisterSlow
  <2>4. ChannelsCloseOnce' /\ MissedMeansLeaving'
    BY <1>3, <2>1, UnregisterKeeps DEF UnregisterSlow, MissedMeansLeaving
  <2>. QED
    BY <2>2, <2>3, <2>4
<1>. QED
  BY <1>1, <1>2, <1>3 DEF Leaves

LEMMA BroadcastKeeps ==
  ASSUME HubOK, BroadcastMessage \/ Deliver \/ Stop
  PROVE  HubOK'
<1>. USE HubAssumption DEF HubOK, TypeOK, FreshOK, Fresh, ChannelsCloseOnce, MissedMeansLeaving
<1>1. CASE BroadcastMessage
  BY <1>1 DEF BroadcastMessage
<1>2. CASE Deliver
  <2>1. send' \in [Clients -> 0..SendSize]
    BY <1>2 DEF Deliver, Slow
  <2>2. dropping' \in [Clients -> Nat] /\ missed' \in SUBSET Clients
    BY <1>2 DEF Deliver, Slow
  <2>3. \A c \in Slow : c \in clients /\ dropping'[c] > 0
    BY <1>2 DEF Deliver, Slow
  <2>4. \A c \in Clients \ Slow : dropping'[c] = dropping[c] /\ (c \in missed' <=> c \in missed)
    BY <1>2 DEF Deliver
  <2>5. TypeOK'
    BY <1>2, <2>1, <2>2 DEF Deliver
  <2>6. FreshOK'
    BY <1>2, <2>3, <2>4 DEF Deliver
  <2>7. MissedMeansLeaving'
    BY <1>2, <2>2, <2>3, <2>4 DEF Deliver
  <2>. QED
    BY <1>2, <2>5, <2>6, <2>7 DEF Deliver
<1>3. CASE Stop
  BY <1>3 DEF Stop
<1>. QED
  BY <1>1, <1>2, <1>3

LEMMA ConnectionKeeps ==
  ASSUME HubOK, NEW c \in Clients, Connect(c) \/ Disconnect(c) \/ Pumps(c)
  PROVE  HubOK'
<1>. USE DEF HubOK, TypeOK, FreshOK, Fresh, ChannelsCloseOnce, MissedMeansLeaving
<1>1. CASE Connect(c)
  BY <1>1 DEF Connect
<1>2. CASE Disconnect(c)
  BY <1>2 DEF Disconnect
<1>3. CASE WriteMessage(c)
  BY <1>3, HubAssumption DEF WriteMessage
<1>4. CASE WriterEnds(c)
  BY <1>4 DEF WriterEnds
<1>5. CASE ReadFails(c)
  BY <1>5 DEF ReadFails
<1>. QED
  BY <1>1, <1>2, <1>3, <1>4, <1>5 DEF Pumps

LEMMA NextHub == HubOK /\ [Next]_vars => HubOK'
<1>. SUFFICES ASSUME HubOK, [Next]_vars PROVE HubOK'
  OBVIOUS
<1>1. CASE UNCHANGED vars
  BY <1>1 DEF vars, HubOK, TypeOK, FreshOK, Fresh, ChannelsCloseOnce, MissedMeansLeaving
<1>. QED
  BY <1>1, RunKeeps, BroadcastKeeps, ConnectionKeeps DEF Next

THEOREM HubInvariant == Spec => []HubOK
  BY InitHub, NextHub, PTL DEF Spec

\* No channel is closed twice and Run never sends to a closed one, however many
\* goroutines unregister a client and in whatever order: nothing panics.
THEOREM NoDoubleClose == Spec => []ChannelsCloseOnce
<1>1. HubOK => ChannelsCloseOnce
  BY DEF HubOK
<1>. QED
  BY <1>1, HubInvariant, PTL

\* A client that missed a broadcast is out, or a goroutine is about to put it
\* out.
THEOREM MissedLeave == Spec => []MissedMeansLeaving
<1>1. HubOK => MissedMeansLeaving
  BY DEF HubOK
<1>. QED
  BY <1>1, HubInvariant, PTL
=============================================================================
