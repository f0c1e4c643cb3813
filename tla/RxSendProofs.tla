---------------------------- MODULE RxSendProofs ----------------------------
(***************************************************************************)
(* What holds of RxSend for every buffer size, every iov[] length and      *)
(* every request, provided sendmsg() takes all it is offered.              *)
(*                                                                         *)
(* The argument: the chain starts a whole number of buffers before its     *)
(* tail, so a full sendmsg() ends either at the last byte marshalled or at *)
(* a buffer boundary, and the freeing loop can then leave a buffer only    *)
(* once it is spent.  Hence the first byte the chain still holds is always *)
(* the first one the kernel does not.                                      *)
(***************************************************************************)
EXTENDS RxSend, TLAPS

\* b is a whole number of buffers after a.
Aligned(a, b) == \E k \in Nat : b = a + k * BufSize

\* A position is aligned with itself.
LEMMA AlignedSelf == ASSUME NEW a \in Nat PROVE Aligned(a, a)
<1>1. 0 \in Nat /\ a = a + 0 * BufSize
  BY BufSizeAssumption
<1> QED
  BY <1>1 DEF Aligned

\* Chaining a buffer keeps the tail aligned with the head.
LEMMA AlignedNext ==
  ASSUME NEW a \in Nat, NEW b \in Nat, Aligned(a, b)
  PROVE  Aligned(a, b + BufSize)
<1>1. PICK k \in Nat : b = a + k * BufSize
  BY DEF Aligned
<1>2. (k + 1) * BufSize = k * BufSize + BufSize
  BY BufSizeAssumption
<1>3. k + 1 \in Nat /\ k * BufSize \in Int
  BY BufSizeAssumption
<1>4. b + BufSize = a + (k + 1) * BufSize
  BY <1>1, <1>2, <1>3, BufSizeAssumption
<1> QED
  BY <1>3, <1>4 DEF Aligned

\* Two aligned positions that differ are at least a buffer apart, and moving
\* the first one on by a buffer keeps them aligned.
LEMMA AlignedApart ==
  ASSUME NEW a \in Nat, NEW b \in Nat, Aligned(a, b), a # b
  PROVE  a + BufSize <= b /\ Aligned(a + BufSize, b)
<1>1. PICK k \in Nat : b = a + k * BufSize
  BY DEF Aligned
<1>2. k # 0
  <2> SUFFICES ASSUME k = 0 PROVE FALSE
    OBVIOUS
  <2>1. k * BufSize = 0
    BY BufSizeAssumption
  <2> QED
    BY <1>1, <2>1
<1>3. PICK j \in Nat : k = j + 1
  <2>1. k - 1 \in Nat /\ k = (k - 1) + 1
    BY <1>2
  <2> QED
    BY <2>1
<1>4. (j + 1) * BufSize = j * BufSize + BufSize
  BY BufSizeAssumption
<1>5. j * BufSize \in Nat
  BY BufSizeAssumption
<1>6. b = (a + BufSize) + j * BufSize
  BY <1>1, <1>3, <1>4, <1>5, BufSizeAssumption
<1> QED
  BY <1>5, <1>6, BufSizeAssumption DEF Aligned

\* One sendmsg() gathers at least a buffer, and a whole number of them.
LEMMA SpanIsWhole ==
  /\ IovMax * BufSize \in Nat
  /\ IovMax * BufSize >= BufSize
  /\ \A a \in Nat : Aligned(a, a + IovMax * BufSize)
<1>1. PICK j \in Nat : IovMax = j + 1
  <2>1. IovMax - 1 \in Nat /\ IovMax = (IovMax - 1) + 1
    BY IovMaxAssumption
  <2> QED
    BY <2>1
<1>2. (j + 1) * BufSize = j * BufSize + BufSize
  BY BufSizeAssumption
<1>3. j * BufSize \in Nat
  BY BufSizeAssumption
<1>4. IovMax * BufSize \in Nat /\ IovMax * BufSize >= BufSize
  BY <1>1, <1>2, <1>3, BufSizeAssumption
<1>5. \A a \in Nat : Aligned(a, a + IovMax * BufSize)
  BY IovMaxAssumption DEF Aligned
<1> QED
  BY <1>4, <1>5

-----------------------------------------------------------------------------
(* The inductive invariant. *)

Sending == state # "waiting_for_response"

\* Where the thread can be in each state of the call.
Control ==
  /\ pc \in {"offer", "free", "sent"} => state = "encoding_params"
  /\ state = "waiting_for_response" <=> pc = "done"
  /\ pc = "caller" => more_send
  /\ closed => ~more_send

\* The chain: head and tail are aligned, and the tail holds at least a byte
\* unless it is the only buffer.
Chain ==
  Sending =>
    /\ Aligned(head_base, tail_base)
    /\ tail_base <= data_cursor
    /\ data_cursor <= tail_base + BufSize
    /\ head_base # tail_base => tail_base < data_cursor

\* The counters.
Counts ==
  Sending =>
    /\ data_count \in Nat
    /\ bytes_sent + data_count = data_start
    /\ data_start <= data_cursor
    /\ data_cursor = encoded
    /\ delivered = bytes_sent
    /\ pc \in {"offer", "free", "sent"} => data_start = data_cursor

\* The first unsent byte, outside the freeing loop and in it.
Position ==
  Sending =>
    /\ pc # "free" => head_base + head_io = bytes_sent
    /\ pc = "free" =>
         /\ head_base + head_io + ret = bytes_sent
         /\ head_base # tail_base => ret > 0
         /\ bytes_sent = data_cursor \/ Aligned(head_base, bytes_sent)

\* The kernel knows of the end of the request as soon as it has all of it.
Closing ==
  /\ closed => bytes_sent = encoded /\ delivered = bytes_sent
  /\ pc \in {"free", "sent"} /\ ~more_send /\ bytes_sent = encoded => closed
  /\ pc = "offer" => ~closed
  /\ state = "waiting_for_response" =>
       closed /\ bytes_sent = encoded /\ delivered = encoded

IInv == TypeOK /\ Control /\ Chain /\ Counts /\ Position /\ Closing

LEMMA InitInv == Init => IInv
<1> SUFFICES ASSUME Init PROVE IInv
  OBVIOUS
<1>1. Aligned(head_base, tail_base)
  BY AlignedSelf DEF Init
<1>2. TypeOK
  <2>1. more_send \in BOOLEAN /\ known_to_kernel \in BOOLEAN /\ closed \in BOOLEAN
    BY Zenon DEF Init
  <2> QED
    BY <2>1, BufSizeAssumption DEF Init, TypeOK, CallStates
<1>3. Control /\ Closing
  <2>1. more_send /\ ~closed
    BY Zenon DEF Init
  <2>2. pc = "caller" /\ state = "not_started"
    BY DEF Init
  <2> QED
    BY <2>1, <2>2 DEF Control, Closing
<1>4. Chain /\ Counts /\ Position
  BY <1>1, BufSizeAssumption DEF Init, Chain, Counts, Position, Sending
<1> QED
  BY <1>2, <1>3, <1>4 DEF IInv

\* Marshalling ends for want of memory: all is accounted for, and the call over.
LEMMA EncodeFailsInv == IInv /\ EncodeFails => IInv'
<1> SUFFICES ASSUME IInv, EncodeFails PROVE IInv'
  OBVIOUS
<1>1. /\ pc = "caller" /\ pc' = "failed" /\ Sending /\ Sending'
      /\ UNCHANGED <<callVars, chainVars, data_cursor, bytes_sent, ret, historyVars>>
      /\ data_count' = data_count + (data_cursor - data_start)
      /\ data_start' = data_cursor
  BY DEF EncodeFails, Accounted, IInv, Control, Sending, callVars
<1>2. TypeOK'
  BY <1>1 DEF IInv, TypeOK, callVars, chainVars, historyVars, CallStates
<1>3. Control' /\ Closing'
  BY <1>1 DEF IInv, Control, Closing, Sending, callVars, historyVars
<1>4. Chain' /\ Counts' /\ Position'
  BY <1>1
     DEF IInv, TypeOK, Chain, Counts, Position, callVars, chainVars, historyVars
<1> QED
  BY <1>2, <1>3, <1>4 DEF IInv

\* Marshalling a byte, into the tail or into a new buffer.
LEMMA EncodeInv == IInv /\ EncodeByte => IInv'
<1> SUFFICES ASSUME IInv, EncodeByte PROVE IInv'
  OBVIOUS
<1> USE BufSizeAssumption
<1>1. TypeOK'
  BY DEF IInv, TypeOK, EncodeByte, TailHasRoom, Accounted, callVars, CallStates
<1>2. Control' /\ Closing'
  BY DEF IInv, TypeOK, EncodeByte, Control, Closing, callVars
<1>3. Chain' /\ Counts' /\ Position'
  <2>1. Sending /\ Sending' /\ pc = "caller" /\ pc' = "caller"
    BY DEF IInv, EncodeByte, Control, Sending, callVars
  <2>2. CASE TailHasRoom
    <3>1. tail_base' = tail_base /\ head_base' = head_base
      BY <2>2 DEF EncodeByte
    <3> QED
      BY <2>1, <2>2, <3>1
         DEF IInv, TypeOK, EncodeByte, TailHasRoom, Chain, Counts, Position
  <2>3. CASE ~TailHasRoom
    <3>1. tail_base' = tail_base + BufSize /\ head_base' = head_base
      BY <2>3 DEF EncodeByte
    <3>2. Aligned(head_base, tail_base')
      BY <2>1, <3>1, AlignedNext DEF IInv, TypeOK, Chain
    <3> QED
      BY <2>1, <2>3, <3>1, <3>2
         DEF IInv, TypeOK, EncodeByte, TailHasRoom, Accounted, Chain, Counts, Position
  <2> QED
    BY <2>2, <2>3
<1> QED
  BY <1>1, <1>2, <1>3 DEF IInv

\* The caller hands what it marshalled to rxrpc_send_data.
LEMMA SendDataInv == ASSUME NEW final \in BOOLEAN, IInv, SendData(final) PROVE IInv'
<1> USE BufSizeAssumption
<1>1. TypeOK'
  BY DEF IInv, TypeOK, SendData, Accounted, chainVars, historyVars, CallStates
<1>2. Control' /\ Closing'
  BY DEF IInv, SendData, Control, Closing, historyVars
<1>3. Chain' /\ Counts' /\ Position'
  BY DEF IInv, TypeOK, SendData, Accounted, Sending, Chain, Counts, Position,
         chainVars, historyVars
<1> QED
  BY <1>1, <1>2, <1>3 DEF IInv

\* Dropping a spent head keeps the chain and its first unsent byte.
LEMMA OfferChain ==
  ASSUME IInv, pc = "offer", ~(HeadSpent /\ head_base = tail_base)
  PROVE  /\ OfferBase \in Nat
         /\ OfferStart \in Nat
         /\ OfferStart = bytes_sent
         /\ OfferStart - OfferBase \in 0 .. BufSize
         /\ Aligned(OfferBase, tail_base)
         /\ OfferBase # tail_base =>
              OfferStart < OfferBase + BufSize /\ tail_base < data_cursor
<1> USE BufSizeAssumption
<1>1. Sending
  BY DEF IInv, Control, Sending
<1>2. CASE HeadSpent
  <2>1. head_base # tail_base
    BY <1>2
  <2>2. Aligned(head_base + BufSize, tail_base)
    BY <1>1, <2>1, AlignedApart DEF IInv, TypeOK, Chain
  <2> QED
    BY <1>1, <1>2, <2>1, <2>2
       DEF IInv, TypeOK, Chain, Position, HeadSpent, OfferBase, OfferStart
<1>3. CASE ~HeadSpent
  BY <1>1, <1>3 DEF IInv, TypeOK, Chain, Position, HeadSpent, OfferBase, OfferStart
<1> QED
  BY <1>2, <1>3

\* What is offered runs from the first unsent byte to the end of the request
\* so far, or to a buffer boundary short of it.
LEMMA OfferSpan ==
  ASSUME IInv, pc = "offer", ~(HeadSpent /\ head_base = tail_base)
  PROVE  /\ Offered \in Nat
         /\ bytes_sent + Offered <= data_cursor
         /\ bytes_sent + Offered = data_cursor
              \/ Aligned(OfferBase, bytes_sent + Offered)
         /\ OfferBase # tail_base => Offered > 0
         /\ bytes_sent + Offered = data_cursor => ReachesTail
         /\ ReachesTail => bytes_sent + Offered = data_cursor
<1> DEFINE Span == IovMax * BufSize
<1>1. Span \in Nat /\ Span >= BufSize
  BY SpanIsWhole
<1>2. \A a \in Nat : Aligned(a, a + Span)
  BY SpanIsWhole
<1>3. /\ ReachesTail <=> tail_base < OfferBase + Span
      /\ OfferEnd = IF ReachesTail THEN data_cursor ELSE OfferBase + Span
  BY DEF ReachesTail, OfferEnd
<1> HIDE DEF Span
<1> USE BufSizeAssumption
<1>4. Sending
  BY DEF IInv, Control, Sending
<1>5. /\ OfferBase \in Nat /\ OfferStart = bytes_sent
      /\ OfferStart - OfferBase \in 0 .. BufSize
      /\ Aligned(OfferBase, tail_base)
      /\ OfferBase # tail_base => OfferStart < OfferBase + BufSize
  BY OfferChain
<1>6. OfferBase # tail_base => OfferBase + BufSize <= tail_base
  BY <1>5, AlignedApart DEF IInv, TypeOK
<1>7. /\ head_base \in Nat /\ tail_base \in Nat /\ data_cursor \in Nat /\ bytes_sent \in Nat
      /\ tail_base <= data_cursor
      /\ bytes_sent <= data_cursor
  BY <1>4 DEF IInv, TypeOK, Chain, Counts
<1>8. CASE ReachesTail
  <2>1. OfferEnd = data_cursor
    BY <1>3, <1>8
  <2> QED
    BY <1>5, <1>6, <1>7, <1>8, <2>1 DEF Offered
<1>9. CASE ~ReachesTail
  <2>1. OfferEnd = OfferBase + Span /\ OfferBase + Span <= tail_base
    BY <1>1, <1>3, <1>5, <1>7, <1>9
  <2>2. OfferBase # tail_base
    BY <1>1, <1>5, <1>7, <2>1
  <2>3. tail_base < data_cursor
    BY <2>2, OfferChain
  <2>4. bytes_sent + Offered = OfferBase + Span
    BY <1>1, <1>5, <1>7, <2>1 DEF Offered
  <2>5. Aligned(OfferBase, bytes_sent + Offered)
    BY <1>2, <1>5, <2>4
  <2> QED
    BY <1>1, <1>5, <1>6, <1>7, <1>9, <2>1, <2>2, <2>3, <2>4, <2>5 DEF Offered
<1> QED
  BY <1>8, <1>9

\* sendmsg() takes all it is offered.
LEMMA SendMsgInv == ~ShortSends /\ IInv /\ SendMsg => IInv'
<1> SUFFICES ASSUME ~ShortSends, IInv, SendMsg PROVE IInv'
  OBVIOUS
<1> USE BufSizeAssumption
<1>1. /\ pc = "offer" /\ pc' = "free" /\ state = "encoding_params" /\ state' = state
      /\ Sending /\ Sending' /\ tail_base' = tail_base /\ data_start' = data_start
      /\ data_cursor' = data_cursor /\ encoded' = encoded
      /\ ~(HeadSpent /\ head_base = tail_base)
  BY DEF IInv, Control, SendMsg, Sending
<1>2. /\ OfferBase \in Nat /\ OfferStart \in Nat
      /\ OfferStart = bytes_sent
      /\ OfferStart - OfferBase \in 0 .. BufSize
      /\ Aligned(OfferBase, tail_base)
      /\ OfferBase # tail_base =>
           OfferStart < OfferBase + BufSize /\ tail_base < data_cursor
  BY <1>1, OfferChain
<1>3. /\ Offered \in Nat
      /\ bytes_sent + Offered <= data_cursor
      /\ bytes_sent + Offered = data_cursor \/ Aligned(OfferBase, bytes_sent + Offered)
      /\ OfferBase # tail_base => Offered > 0
      /\ bytes_sent + Offered = data_cursor => ReachesTail
      /\ ReachesTail => bytes_sent + Offered = data_cursor
  BY <1>1, OfferSpan
<1>4. /\ head_base' = OfferBase
      /\ head_io' = OfferStart - OfferBase
      /\ bytes_sent' = bytes_sent + Offered
      /\ data_count' = data_count - Offered
      /\ ret' = Offered
      /\ delivered' = IF OfferStart = delivered THEN delivered + Offered ELSE delivered
      /\ closed' = (closed \/ ~MsgMore)
  BY DEF SendMsg, Taken
<1>5. delivered' = bytes_sent'
  BY <1>1, <1>2, <1>4 DEF IInv, TypeOK, Counts
<1>6. TypeOK'
  <2>1. more_send' \in BOOLEAN /\ known_to_kernel' \in BOOLEAN /\ closed' \in BOOLEAN
    BY <1>4, Zenon DEF IInv, TypeOK, SendMsg
  <2>2. delivered' \in Nat
    BY <1>3, <1>4, <1>5 DEF IInv, TypeOK
  <2> QED
    BY <1>1, <1>2, <1>3, <1>4, <2>1, <2>2 DEF IInv, TypeOK, CallStates
<1>7. Chain'
  <2>1. Aligned(head_base', tail_base')
    BY <1>1, <1>2, <1>4
  <2> QED
    BY <1>1, <1>2, <1>4, <2>1 DEF IInv, TypeOK, Chain
<1>8. Counts'
  BY <1>1, <1>2, <1>3, <1>4, <1>5 DEF IInv, TypeOK, Counts
<1>9. Position'
  BY <1>1, <1>2, <1>3, <1>4 DEF IInv, TypeOK, Position
<1>10. closed' <=> (~more_send /\ bytes_sent' = encoded')
  <2>1. ~closed
    BY <1>1 DEF IInv, Closing
  <2>2. closed' <=> (~more_send /\ ReachesTail)
    BY <1>4, <2>1, Zenon DEF MsgMore
  <2>3. data_cursor = encoded
    BY <1>1 DEF IInv, Counts
  <2> QED
    BY <1>1, <1>3, <1>4, <2>2, <2>3
<1>11. more_send' = more_send
  BY DEF SendMsg
<1>12. Control' /\ Closing'
  BY <1>1, <1>5, <1>10, <1>11 DEF Control, Closing
<1> QED
  BY <1>6, <1>7, <1>8, <1>9, <1>12 DEF IInv

\* A turn of the freeing loop leaves the head only once it is spent.
LEMMA FreeSentInv == IInv /\ FreeSent => IInv'
<1> SUFFICES ASSUME IInv, FreeSent PROVE IInv'
  OBVIOUS
<1> USE BufSizeAssumption
<1> DEFINE count == Least(BufSize - head_io, ret)
<1>1. /\ pc = "free" /\ pc' \in {"free", "sent"}
      /\ state = "encoding_params" /\ state' = state
      /\ Sending /\ Sending' /\ tail_base' = tail_base /\ data_start' = data_start
      /\ data_cursor' = data_cursor /\ data_count' = data_count
      /\ encoded' = encoded /\ bytes_sent' = bytes_sent /\ delivered' = delivered
      /\ closed' = closed /\ more_send' = more_send /\ known_to_kernel' = known_to_kernel
  BY DEF IInv, Control, FreeSent, Sending, callVars, dataVars, historyVars
<1>2. /\ head_base \in Nat /\ head_io \in 0 .. BufSize /\ ret \in Nat /\ tail_base \in Nat
      /\ bytes_sent \in Nat /\ data_cursor \in Nat
      /\ head_base + head_io + ret = bytes_sent
      /\ head_base # tail_base => ret > 0
      /\ bytes_sent = data_cursor \/ Aligned(head_base, bytes_sent)
      /\ bytes_sent <= data_cursor
      /\ Aligned(head_base, tail_base)
      /\ tail_base <= data_cursor /\ data_cursor <= tail_base + BufSize
      /\ head_base # tail_base => tail_base < data_cursor
  BY <1>1 DEF IInv, TypeOK, Chain, Counts, Position
<1>3. Control' /\ Closing' /\ Counts'
  <2>1. Control' /\ Closing'
    BY <1>1 DEF IInv, Control, Closing
  <2>2. Counts'
    BY <1>1 DEF IInv, Counts
  <2> QED
    BY <2>1, <2>2
<1>4. CASE head_base = tail_base
  <2>1. count = ret
    BY <1>2, <1>4 DEF Least
  <2>2. ret' = 0 /\ head_base' = head_base /\ head_io' = head_io + ret /\ pc' = "sent"
    BY <1>2, <1>4, <2>1 DEF FreeSent
  <2>3. head_io' \in 0 .. BufSize
    BY <1>2, <1>4, <2>2
  <2>4. TypeOK'
    BY <1>1, <2>2, <2>3 DEF IInv, TypeOK
  <2>5. Chain' /\ Position'
    BY <1>1, <1>2, <1>4, <2>2 DEF Chain, Position
  <2> QED
    BY <1>3, <2>4, <2>5 DEF IInv
<1>5. CASE head_base # tail_base
  <2>1. head_base + BufSize <= tail_base /\ Aligned(head_base + BufSize, tail_base)
    BY <1>2, <1>5, AlignedApart
  <2>2. head_base + BufSize <= bytes_sent
    <3>1. CASE bytes_sent = data_cursor
      BY <1>2, <2>1, <3>1
    <3>2. CASE Aligned(head_base, bytes_sent)
      BY <1>2, <1>5, <3>2, AlignedApart
    <3> QED
      BY <1>2, <3>1, <3>2
  <2>3. count = BufSize - head_io
    BY <1>2, <2>2 DEF Least
  <2>4. /\ ret' = ret - (BufSize - head_io) /\ head_base' = head_base + BufSize
        /\ head_io' = 0 /\ pc' = IF ret' > 0 THEN "free" ELSE "sent"
    BY <1>5, <2>3 DEF FreeSent
  <2>5. ret' \in Nat /\ head_base' \in Nat /\ head_base' + head_io' + ret' = bytes_sent
    BY <1>2, <2>2, <2>4
  <2>6. bytes_sent = data_cursor \/ Aligned(head_base', bytes_sent) \/ head_base' = bytes_sent
    BY <1>2, <2>1, <2>2, <2>4, AlignedApart
  <2>7. TypeOK'
    BY <1>1, <2>4, <2>5 DEF IInv, TypeOK
  <2>8. Aligned(head_base', tail_base')
    BY <1>1, <2>1, <2>4
  <2>9. Chain'
    BY <1>1, <1>2, <1>5, <2>4, <2>8 DEF Chain
  <2>10. Position'
    BY <1>1, <1>2, <2>4, <2>5, <2>6 DEF Position
  <2> QED
    BY <1>3, <2>7, <2>9, <2>10 DEF IInv
<1> QED
  BY <1>4, <1>5

\* The call turns to its response with everything sent.
LEMMA ReturnRequestSentInv == IInv /\ ReturnRequestSent => IInv'
<1> SUFFICES ASSUME IInv, ReturnRequestSent PROVE IInv'
  OBVIOUS
<1> USE BufSizeAssumption
<1>1. /\ pc = "sent" /\ ~more_send /\ data_count = 0 /\ pc' = "done"
      /\ state' = "waiting_for_response" /\ more_send' = more_send /\ closed' = closed
      /\ encoded' = encoded /\ bytes_sent' = bytes_sent /\ delivered' = delivered
  BY DEF ReturnRequestSent, AllSent, historyVars
<1>2. bytes_sent = encoded /\ delivered = bytes_sent
  BY <1>1 DEF IInv, Control, Counts, TypeOK, Sending
<1>3. closed
  BY <1>1, <1>2 DEF IInv, Closing
<1>4. TypeOK'
  BY DEF IInv, TypeOK, ReturnRequestSent, CallStates, historyVars
<1>5. Control' /\ Closing' /\ Chain' /\ Counts' /\ Position'
  BY <1>1, <1>2, <1>3 DEF Control, Closing, Chain, Counts, Position, Sending
<1> QED
  BY <1>4, <1>5 DEF IInv

\* The steps that move only the thread or the state of the call.
LEMMA OtherInv ==
  IInv /\ (\/ SendRefused \/ SendInBadState \/ SendMsgFails \/ OfferEmptyQueue
           \/ SendRest \/ ReturnForMore \/ ReceiveAbort) => IInv'
<1> SUFFICES ASSUME IInv PROVE
      (\/ SendRefused \/ SendInBadState \/ SendMsgFails \/ OfferEmptyQueue
       \/ SendRest \/ ReturnForMore \/ ReceiveAbort) => IInv'
  OBVIOUS
<1> USE BufSizeAssumption DEF callVars, chainVars, dataVars, historyVars
<1>1. ASSUME SendRefused \/ SendInBadState \/ OfferEmptyQueue PROVE IInv'
  <2>1. /\ UNCHANGED <<callVars, chainVars, dataVars, bytes_sent, ret, historyVars>>
        /\ pc \in {"caller", "offer"} /\ pc' \in {"failed", "dead"}
    BY <1>1 DEF SendRefused, SendInBadState, OfferEmptyQueue
  <2> QED
    BY <2>1 DEF IInv, TypeOK, CallStates, Control, Chain, Counts, Position, Closing, Sending
<1>2. ASSUME SendMsgFails PROVE IInv'
  <2>1. /\ OfferBase \in Nat /\ OfferStart = bytes_sent
        /\ OfferStart - OfferBase \in 0 .. BufSize
        /\ Aligned(OfferBase, tail_base)
        /\ OfferBase # tail_base => tail_base < data_cursor
    BY <1>2, OfferChain DEF SendMsgFails
  <2>2. /\ UNCHANGED <<callVars, tail_base, dataVars, bytes_sent, ret, historyVars>>
        /\ pc = "offer" /\ pc' = "failed"
        /\ head_base' = OfferBase /\ head_io' = OfferStart - OfferBase
    BY <1>2 DEF SendMsgFails
  <2>3. Aligned(head_base', tail_base')
    BY <2>1, <2>2
  <2>4. TypeOK'
    BY <2>1, <2>2 DEF IInv, TypeOK, CallStates
  <2>5. Control' /\ Closing' /\ Counts'
    BY <2>2 DEF IInv, Control, Closing, Counts, Sending
  <2>6. Chain' /\ Position'
    BY <2>1, <2>2, <2>3 DEF IInv, TypeOK, Chain, Position, Sending
  <2> QED
    BY <2>4, <2>5, <2>6 DEF IInv
<1>3. ASSUME SendRest PROVE IInv'
  <2>1. /\ UNCHANGED <<callVars, chainVars, dataVars, bytes_sent, ret, historyVars>>
        /\ pc = "sent" /\ pc' = "offer" /\ data_count # 0
    BY <1>3 DEF SendRest, AllSent
  <2>2. bytes_sent # encoded
    BY <2>1 DEF IInv, TypeOK, Control, Counts, Sending
  <2>3. ~closed
    BY <2>2 DEF IInv, Closing
  <2> QED
    BY <2>1, <2>3
       DEF IInv, TypeOK, CallStates, Control, Chain, Counts, Position, Closing, Sending
<1>4. ASSUME ReturnForMore PROVE IInv'
  BY <1>4 DEF ReturnForMore, IInv, TypeOK, CallStates, Control, Chain, Counts, Position,
              Closing, Sending
<1>5. ASSUME ReceiveAbort PROVE IInv'
  BY <1>5 DEF ReceiveAbort, IInv, TypeOK, CallStates, Control, Chain, Counts, Position,
              Closing, Sending
<1> QED
  BY <1>1, <1>2, <1>3, <1>4, <1>5

LEMMA StutterInv == IInv /\ UNCHANGED vars => IInv'
<1> SUFFICES ASSUME IInv, UNCHANGED vars PROVE IInv'
  OBVIOUS
<1>1. TypeOK' /\ Control' /\ Chain' /\ Counts' /\ Position' /\ Closing'
  BY DEF IInv, TypeOK, CallStates, Control, Chain, Counts, Position, Closing, Sending,
         vars, callVars, chainVars, dataVars, historyVars
<1> QED
  BY <1>1 DEF IInv

LEMMA NextInv == ~ShortSends /\ IInv /\ [Next]_vars => IInv'
  BY EncodeInv, EncodeFailsInv, SendDataInv, SendMsgInv, FreeSentInv, ReturnRequestSentInv, OtherInv,
     StutterInv
     DEF Next, SendLoop

-----------------------------------------------------------------------------
(* The theorems. *)

\* The invariant holds throughout every call whose sends are full.
THEOREM Invariance == ~ShortSends => (Spec => []IInv)
<1> SUFFICES ASSUME ~ShortSends PROVE Spec => []IInv
  OBVIOUS
<1>1. Init => IInv
  BY InitInv
<1>2. IInv /\ [Next]_vars => IInv'
  BY NextInv
<1> QED
  BY <1>1, <1>2, PTL DEF Spec

\* Every variable keeps its type; in particular head_io never exceeds the
\* buffer and the freeing loop's ret never goes below zero.
THEOREM TypeCorrect == ~ShortSends => (Spec => []TypeOK)
<1>1. IInv => TypeOK
  BY DEF IInv
<1> QED
  BY <1>1, Invariance, PTL

\* bytes_sent, data_count and the data pointers agree (CountsAgree).
THEOREM CountsAlwaysAgree == ~ShortSends => (Spec => []CountsAgree)
<1>1. IInv => CountsAgree
  BY BufSizeAssumption DEF IInv, TypeOK, Counts, Chain, Sending, CountsAgree
<1> QED
  BY <1>1, Invariance, PTL

\* rxrpc_send_data never drops a byte it has not sent (NothingSkipped).
THEOREM NeverSkips == ~ShortSends => (Spec => []NothingSkipped)
<1>1. IInv => NothingSkipped
  BY DEF IInv, Counts, Position, Sending, NothingSkipped
<1> QED
  BY <1>1, Invariance, PTL

\* The call turns to its response with the whole request in the kernel
\* (WaitsForWholeRequest).
THEOREM WholeRequest == ~ShortSends => (Spec => []WaitsForWholeRequest)
<1>1. IInv => WaitsForWholeRequest
  BY DEF IInv, Closing, WaitsForWholeRequest
<1> QED
  BY <1>1, Invariance, PTL

\* Nothing is sent after the end of the request (NothingAfterEnd).
THEOREM EndIsEnd == ~ShortSends => (Spec => NothingAfterEnd)
<1>1. IInv /\ [Next]_vars => [closed => delivered' = delivered /\ bytes_sent' = bytes_sent]_vars
  <2> SUFFICES ASSUME IInv, Next, closed
               PROVE  delivered' = delivered /\ bytes_sent' = bytes_sent
    OBVIOUS
  <2>1. pc \notin {"offer", "caller"}
    BY DEF IInv, Control, Closing
  <2> QED
    BY <2>1
       DEF Next, SendLoop, EncodeByte, EncodeFails, SendData, SendRefused,
           SendInBadState, SendMsg,
           SendMsgFails, OfferEmptyQueue, FreeSent, SendRest, ReturnForMore,
           ReturnRequestSent, ReceiveAbort, historyVars
<1> QED
  BY <1>1, Invariance, PTL DEF Spec, NothingAfterEnd

\* An abort is taken off the socket, and the client dies, only between a send
\* and the next byte marshalled.
Settled == state = "remotely_aborted" \/ pc = "dead" => bytes_sent = encoded

\* rxrpc_send_data's two assertions hold for every caller that marshals
\* something before it sends (OnlyEmptySendsDie).
THEOREM SendLives == ~ShortSends => (Spec => []OnlyEmptySendsDie)
<1> SUFFICES ASSUME ~ShortSends PROVE Spec => []OnlyEmptySendsDie
  OBVIOUS
<1>1. Init => Settled
  BY DEF Init, Settled
<1>2. IInv /\ Settled /\ [Next]_vars => Settled'
  <2> SUFFICES ASSUME IInv, Settled, [Next]_vars PROVE Settled'
    OBVIOUS
  <2>1. ASSUME EncodeByte \/ EncodeFails \/ ReceiveAbort PROVE Settled'
    BY <2>1 DEF EncodeByte, EncodeFails, ReceiveAbort, Settled, callVars, historyVars
  <2>2. ASSUME OfferEmptyQueue PROVE Settled'
    <3>1. bytes_sent <= encoded /\ encoded <= tail_base + BufSize
      BY <2>2, BufSizeAssumption
         DEF OfferEmptyQueue, IInv, TypeOK, Control, Counts, Chain, Sending
    <3>2. bytes_sent = tail_base + BufSize
      BY <2>2 DEF OfferEmptyQueue, HeadSpent, IInv, Control, Position, Sending
    <3>3. bytes_sent = encoded
      BY <3>1, <3>2, BufSizeAssumption DEF IInv, TypeOK
    <3> QED
      BY <2>2, <3>3 DEF OfferEmptyQueue, Settled, historyVars
  <2>3. ASSUME SendInBadState PROVE Settled'
    <3>1. state = "remotely_aborted"
      BY <2>3 DEF SendInBadState, IInv, TypeOK, CallStates, Control
    <3> QED
      BY <2>3, <3>1 DEF SendInBadState, Settled, historyVars
  <2>4. ASSUME SendMsg \/ SendMsgFails \/ FreeSent \/ SendRest \/ ReturnRequestSent
        PROVE  Settled'
    <3>1. state # "remotely_aborted"
      BY <2>4 DEF SendMsg, SendMsgFails, FreeSent, SendRest, ReturnRequestSent, IInv, Control
    <3>2. state' # "remotely_aborted" /\ pc' # "dead"
      BY <2>4, <3>1 DEF SendMsg, SendMsgFails, FreeSent, SendRest, ReturnRequestSent, callVars
    <3> QED
      BY <3>2 DEF Settled
  <2>5. ASSUME NEW final \in BOOLEAN, SendData(final) PROVE Settled'
    BY <2>5 DEF SendData, Settled
  <2>6. ASSUME SendRefused \/ ReturnForMore PROVE Settled'
    BY <2>6 DEF SendRefused, ReturnForMore, Settled, callVars, historyVars
  <2>7. CASE UNCHANGED vars
    BY <2>7 DEF vars, callVars, historyVars, Settled
  <2> QED
    BY <2>1, <2>2, <2>3, <2>4, <2>5, <2>6, <2>7 DEF Next, SendLoop
<1>3. Settled => OnlyEmptySendsDie
  BY DEF Settled, OnlyEmptySendsDie
<1>4. Spec => []IInv
  BY Invariance
<1> QED
  BY <1>1, <1>2, <1>3, <1>4, PTL DEF Spec

\* The sending half of a call implements RequestStream (StreamSpec).
THEOREM SendsStream == ~ShortSends => (Spec => StreamSpec)
<1> SUFFICES ASSUME ~ShortSends PROVE Spec => StreamSpec
  OBVIOUS
<1>1. Init => Stream!Init
  BY DEF Init, Stream!Init
<1>2. IInv /\ IInv' /\ [Next]_vars => [Stream!Next]_(Stream!vars)
  <2> SUFFICES ASSUME IInv, IInv', [Next]_vars PROVE [Stream!Next]_(Stream!vars)
    OBVIOUS
  <2>1. ASSUME EncodeByte PROVE Stream!Produce
    <3>1. ~closed /\ encoded' = encoded + 1 /\ encoded \in Nat
      BY <2>1 DEF EncodeByte, IInv, TypeOK, Control
    <3>2. UNCHANGED <<delivered, closed>>
      BY <2>1 DEF EncodeByte
    <3> QED
      BY <3>1, <3>2 DEF Stream!Produce
  <2>2. ASSUME SendMsg PROVE Stream!Send
    <3>1. /\ ~closed /\ encoded' = encoded /\ pc' = "free" /\ Sending /\ Sending'
          /\ state' = state
      BY <2>2 DEF SendMsg, IInv, Control, Closing, Sending
    <3>2. delivered = bytes_sent
      BY <3>1 DEF IInv, Counts
    <3>3. delivered' = bytes_sent' /\ delivered' <= encoded
      <4>1. /\ delivered' = bytes_sent' /\ data_count' \in Nat
            /\ bytes_sent' + data_count' = data_start'
            /\ data_start' <= data_cursor' /\ data_cursor' = encoded'
        BY <3>1 DEF IInv, Counts
      <4>2. bytes_sent' \in Nat /\ encoded \in Nat
        BY DEF IInv, TypeOK
      <4> QED
        BY <3>1, <4>1, <4>2
    <3>4. delivered <= delivered'
      <4>1. Offered \in Nat /\ bytes_sent' = bytes_sent + Offered
        BY <2>2, OfferSpan DEF SendMsg, Taken
      <4> QED
        BY <3>2, <3>3, <4>1 DEF IInv, TypeOK
    <3>5. closed' \in BOOLEAN /\ (closed' => delivered' = encoded)
      BY <3>1 DEF IInv, TypeOK, Closing
    <3> QED
      BY <3>1, <3>3, <3>4, <3>5 DEF Stream!Send, IInv, TypeOK
  <2>3. ASSUME UNCHANGED historyVars PROVE UNCHANGED Stream!vars
    BY <2>3 DEF historyVars, Stream!vars
  <2>4. CASE UNCHANGED vars
    BY <2>3, <2>4 DEF vars
  <2>5. ASSUME Next, ~EncodeByte, ~SendMsg PROVE UNCHANGED historyVars
    BY <2>5 DEF Next, SendLoop, EncodeFails, SendData, SendRefused, SendInBadState, SendMsgFails,
                OfferEmptyQueue, FreeSent, SendRest, ReturnForMore, ReturnRequestSent,
                ReceiveAbort
  <2> QED
    BY <2>1, <2>2, <2>3, <2>4, <2>5 DEF Stream!Next
<1>3. Spec => []IInv
  BY Invariance
<1> QED
  BY <1>1, <1>2, <1>3, PTL DEF Spec, StreamSpec, Stream!Spec
=============================================================================
