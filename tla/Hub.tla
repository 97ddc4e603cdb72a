-------------------------------- MODULE Hub --------------------------------
(***************************************************************************)
(* The browser side of internal/web/ws.go: Hub.Run alone owns the set of   *)
(* clients and their send channels; each client has a goroutine that       *)
(* writes (writePump) and one that reads (readPump).  register and         *)
(* unregister are unbuffered, so their senders wait for a turn of Run.     *)
(* Every bus message is offered to the hub by an observer.                 *)
(***************************************************************************)
EXTENDS Naturals, Sequences

CONSTANTS
  Clients,       \* connections, each used once
  SendSize,      \* size of a client's send channel: 256
  BroadcastSize, \* size of the broadcast channel: 256
  MaxMessages    \* bound: the messages offered

ASSUME HubAssumption ==
  SendSize \in Nat \ {0} /\ BroadcastSize \in Nat \ {0} /\ MaxMessages \in Nat

VARIABLES
  running,    \* Run has not returned
  clients,    \* Hub.clients
  broadcast,  \* Hub.broadcast: how many messages are in it
  offered,    \* history: how many were offered
  send,       \* how many messages are in each client's send channel
  closes,     \* how often each send channel was closed
  conn,       \* the connection: new, open or closed
  reader,     \* readPump: registering before it starts
  writer,     \* writePump
  dropping,   \* the goroutines that unregister a slow client
  missed      \* history: clients that a broadcast skipped

vars == <<running, clients, broadcast, offered, send, closes, conn, reader, writer,
          dropping, missed>>

Init ==
  /\ running = TRUE
  /\ clients = {}
  /\ broadcast = 0
  /\ offered = 0
  /\ send = [c \in Clients |-> 0]
  /\ closes = [c \in Clients |-> 0]
  /\ conn = [c \in Clients |-> "new"]
  /\ reader = [c \in Clients |-> "none"]
  /\ writer = [c \in Clients |-> "none"]
  /\ dropping = [c \in Clients |-> 0]
  /\ missed = {}

\* BroadcastMessage: a full channel drops the message for everybody.
BroadcastMessage ==
  /\ offered < MaxMessages
  /\ offered' = offered + 1
  /\ broadcast' = IF broadcast < BroadcastSize THEN broadcast + 1 ELSE broadcast
  /\ UNCHANGED <<running, clients, send, closes, conn, reader, writer, dropping, missed>>

(* Hub.Run *)

Register(c) ==
  /\ running
  /\ reader[c] = "registering"
  /\ clients' = clients \cup {c}
  /\ reader' = [reader EXCEPT ![c] = "reading"]
  /\ writer' = [writer EXCEPT ![c] = "writing"]
  /\ UNCHANGED <<running, broadcast, offered, send, closes, conn, dropping, missed>>

\* A mistake: the channel is closed whether or not the client is still there.
Unregister_Always(c) ==
  /\ running
  /\ clients' = clients \ {c}
  /\ closes' = [closes EXCEPT ![c] = @ + 1]
  /\ UNCHANGED <<running, broadcast, offered, send, missed>>

\* Several goroutines may unregister one client; its channel is closed once.
Unregister(c) ==
  /\ running
  /\ clients' = clients \ {c}
  /\ closes' = IF c \in clients THEN [closes EXCEPT ![c] = @ + 1] ELSE closes
  /\ UNCHANGED <<running, broadcast, offered, send, missed>>

UnregisterReader(c) ==
  /\ reader[c] = "leaving"
  /\ Unregister(c)
  /\ reader' = [reader EXCEPT ![c] = "ended"]
  /\ conn' = [conn EXCEPT ![c] = "closed"]
  /\ UNCHANGED <<writer, dropping>>

UnregisterSlow(c) ==
  /\ dropping[c] > 0
  /\ Unregister(c)
  /\ dropping' = [dropping EXCEPT ![c] = @ - 1]
  /\ UNCHANGED <<conn, reader, writer>>

Slow == {c \in clients : send[c] = SendSize}

\* A mistake: a slow client is passed over and kept.
Deliver_Skips ==
  /\ running
  /\ broadcast > 0
  /\ broadcast' = broadcast - 1
  /\ send' = [c \in Clients |-> IF c \in clients \ Slow THEN send[c] + 1 ELSE send[c]]
  /\ missed' = missed \cup Slow
  /\ UNCHANGED <<running, clients, offered, closes, conn, reader, writer, dropping>>

Deliver ==
  /\ running
  /\ broadcast > 0
  /\ broadcast' = broadcast - 1
  /\ send' = [c \in Clients |-> IF c \in clients \ Slow THEN send[c] + 1 ELSE send[c]]
  /\ dropping' = [c \in Clients |-> IF c \in Slow THEN dropping[c] + 1 ELSE dropping[c]]
  /\ missed' = missed \cup Slow
  /\ UNCHANGED <<running, clients, offered, closes, conn, reader, writer>>

Stop ==
  /\ running
  /\ running' = FALSE
  /\ UNCHANGED <<clients, broadcast, offered, send, closes, conn, reader, writer, dropping, missed>>

(* The connections. *)

Connect(c) ==
  /\ conn[c] = "new"
  /\ conn' = [conn EXCEPT ![c] = "open"]
  /\ reader' = [reader EXCEPT ![c] = "registering"]
  /\ UNCHANGED <<running, clients, broadcast, offered, send, closes, writer, dropping, missed>>

\* The browser goes away, or the network fails.
Disconnect(c) ==
  /\ conn[c] = "open"
  /\ conn' = [conn EXCEPT ![c] = "closed"]
  /\ UNCHANGED <<running, clients, broadcast, offered, send, closes, reader, writer, dropping, missed>>

WriteMessage(c) ==
  /\ writer[c] = "writing"
  /\ send[c] > 0
  /\ send' = [send EXCEPT ![c] = @ - 1]
  /\ writer' = [writer EXCEPT ![c] = IF conn[c] = "open" THEN @ ELSE "ended"]
  /\ UNCHANGED <<running, clients, broadcast, offered, closes, conn, reader, dropping, missed>>

\* The channel is closed and empty.
WriterEnds(c) ==
  /\ writer[c] = "writing"
  /\ send[c] = 0
  /\ closes[c] > 0
  /\ writer' = [writer EXCEPT ![c] = "ended"]
  /\ conn' = [conn EXCEPT ![c] = "closed"]
  /\ UNCHANGED <<running, clients, broadcast, offered, send, closes, reader, dropping, missed>>

\* A mistake: readPump ends without unregistering.
ReadFails_Silent(c) ==
  /\ reader[c] = "reading"
  /\ conn[c] = "closed"
  /\ reader' = [reader EXCEPT ![c] = "ended"]
  /\ UNCHANGED <<running, clients, broadcast, offered, send, closes, conn, writer, dropping, missed>>

ReadFails(c) ==
  /\ reader[c] = "reading"
  /\ conn[c] = "closed"
  /\ reader' = [reader EXCEPT ![c] = "leaving"]
  /\ UNCHANGED <<running, clients, broadcast, offered, send, closes, conn, writer, dropping, missed>>

Pumps(c) == WriteMessage(c) \/ WriterEnds(c) \/ ReadFails(c)

Leaves(c) == UnregisterReader(c) \/ UnregisterSlow(c)

Next ==
  \/ BroadcastMessage \/ Deliver \/ Stop
  \/ \E c \in Clients : Connect(c) \/ Register(c) \/ Leaves(c) \/ Disconnect(c) \/ Pumps(c)

\* The goroutines go on, and Run's select does not pass over a sender or the
\* broadcast channel for ever.  A write to an open connection may block for ever
\* (there is no deadline), and nobody has to connect, to leave or to send.
Fairness ==
  /\ WF_vars(Deliver)
  /\ \A c \in Clients :
       /\ SF_vars(Register(c)) /\ SF_vars(Leaves(c))
       /\ WF_vars(WriterEnds(c) \/ ReadFails(c) \/ (conn[c] = "closed" /\ WriteMessage(c)))

Spec == Init /\ [][Next]_vars /\ Fairness

-----------------------------------------------------------------------------
(* Correctness. *)

TypeOK ==
  /\ running \in BOOLEAN
  /\ clients \subseteq Clients
  /\ broadcast \in 0..BroadcastSize
  /\ offered \in 0..MaxMessages
  /\ send \in [Clients -> 0..SendSize]
  /\ closes \in [Clients -> Nat]
  /\ conn \in [Clients -> {"new", "open", "closed"}]
  /\ reader \in [Clients -> {"none", "registering", "reading", "leaving", "ended"}]
  /\ writer \in [Clients -> {"none", "writing", "ended"}]
  /\ dropping \in [Clients -> Nat]
  /\ missed \subseteq Clients

\* No goroutine panics: however many of them unregister a client, its channel
\* is closed once, and Run sends only to channels that are open (the check of
\* h.clients before close).
ChannelsCloseOnce ==
  \A c \in Clients : closes[c] <= 1 /\ (c \in clients => closes[c] = 0)

\* A client that missed a broadcast is not served on as if nothing was lost:
\* it is out, or a goroutine is about to put it out.
MissedMeansLeaving ==
  \A c \in missed : c \notin clients \/ dropping[c] > 0

\* A dead connection is found out and forgotten, with its goroutines, unless
\* the hub stops first; readPump notices what writePump and the hub did.
DeadAreForgotten ==
  \A c \in Clients :
    (conn[c] = "closed") ~> ((c \notin clients /\ reader[c] = "ended") \/ ~running)

\* A client that missed a broadcast leaves the hub, unless the hub stops first,
\* even when the write to its browser blocks for ever.
SlowAreDropped == \A c \in Clients : (c \in missed) ~> (c \notin clients \/ ~running)
=============================================================================
