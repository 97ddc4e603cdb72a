---------------------------- MODULE MessageBus ----------------------------
(***************************************************************************)
(* The delivery half of internal/bus/bus.go: one bounded channel per       *)
(* subscriber.  Send never blocks and reports nothing: a message to a name *)
(* nobody subscribed, or to a channel that is full, is gone.               *)
(***************************************************************************)
EXTENDS Naturals, Sequences

CONSTANTS
  Subscribers,  \* the names Subscribe was called with
  Capacity      \* the size of each channel: 32 in Subscribe

ASSUME CapacityAssumption == Capacity \in Nat \ {0}

VARIABLE inbox  \* MessageBus.subs

BusInit == inbox = [n \in Subscribers |-> <<>>]

Accepts(to) == to \in Subscribers /\ Len(inbox[to]) < Capacity

Send(to, msg) ==
  inbox' = IF Accepts(to) THEN [inbox EXCEPT ![to] = Append(@, msg)] ELSE inbox

Receive(name, msg) ==
  /\ inbox[name] # <<>>
  /\ msg = Head(inbox[name])
  /\ inbox' = [inbox EXCEPT ![name] = Tail(@)]

InInbox(name, msg) ==
  name \in Subscribers /\ \E k \in 1..Len(inbox[name]) : inbox[name][k] = msg
=============================================================================
