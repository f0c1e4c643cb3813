----------------------------- MODULE ReplyStream -----------------------------
(***************************************************************************)
(* What the receiving half of a client call promises: the reply is a       *)
(* stream of bytes that is consumed in order and never ahead of what has   *)
(* arrived, the call is settled exactly once, and it is settled as a       *)
(* success only when everything that arrived has been consumed.            *)
(***************************************************************************)
EXTENDS Integers

VARIABLES
  arrived,   \* bytes of the reply taken from the transport
  consumed,  \* bytes of it decoded or discarded, in order
  outcome    \* "pending" until the call is settled

vars == <<arrived, consumed, outcome>>

Init ==
  /\ arrived = 0
  /\ consumed = 0
  /\ outcome = "pending"

Arrive ==
  /\ outcome = "pending"
  /\ arrived' \in Nat
  /\ arrived' > arrived
  /\ UNCHANGED <<consumed, outcome>>

Consume ==
  /\ outcome = "pending"
  /\ consumed' \in consumed .. arrived
  /\ UNCHANGED <<arrived, outcome>>

Settle ==
  /\ outcome = "pending"
  /\ outcome' \in {"ok", "failed", "crashed"}
  /\ outcome' = "ok" => consumed = arrived
  /\ UNCHANGED <<arrived, consumed>>

Next == Arrive \/ Consume \/ Settle

Spec == Init /\ [][Next]_vars
=============================================================================
