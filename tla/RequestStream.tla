---------------------------- MODULE RequestStream ----------------------------
(***************************************************************************)
(* What the sending half of a client call promises: the marshalled request *)
(* is a stream of bytes that reaches the transport in order, each byte     *)
(* once, and is closed (the last packet of the request is marked as such)  *)
(* at most once and only when all of it has been handed over.              *)
(***************************************************************************)
EXTENDS Integers

VARIABLES
  produced,  \* bytes of the request marshalled so far
  sent,      \* bytes of it the transport holds, in order
  closed     \* the transport has been told that the request ends here

vars == <<produced, sent, closed>>

Init ==
  /\ produced = 0
  /\ sent = 0
  /\ closed = FALSE

Produce ==
  /\ ~closed
  /\ produced' \in Nat
  /\ produced' > produced
  /\ UNCHANGED <<sent, closed>>

Send ==
  /\ ~closed
  /\ sent' \in sent .. produced
  /\ closed' \in BOOLEAN
  /\ closed' => sent' = produced
  /\ UNCHANGED produced

Next == Produce \/ Send

Spec == Init /\ [][Next]_vars
=============================================================================
