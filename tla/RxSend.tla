------------------------------- MODULE RxSend -------------------------------
(***************************************************************************)
(* The sending half of a client RxRPC call: the marshaller filling a chain *)
(* of fixed-size buffers (rxrpc_enc_blob, rxrpc_post_enc) and              *)
(* rxrpc_send_data draining it into the AF_RXRPC socket.                   *)
(*                                                                         *)
(* The bytes of the request are numbered from 0 in the order they are      *)
(* marshalled, and every pointer of struct rx_call is the number of the    *)
(* byte it points at.  A buffer is named by the number of its first byte,  *)
(* so the chain is the buffers head_base, head_base + BufSize, ...,        *)
(* tail_base.  Only the head of the chain can have a nonzero io_cursor: a  *)
(* new buffer comes from calloc() and the loop that advances io_cursor     *)
(* frees each buffer it leaves.                                            *)
(***************************************************************************)
EXTENDS Integers

CONSTANTS
  BufSize,     \* RXGEN_BUFFER_SIZE
  IovMax,      \* buffers one sendmsg() can gather: the size of iov[]
  MaxBytes,    \* bound: the most bytes a call marshals
  ShortSends,  \* TRUE iff sendmsg() may take only part of what it is offered
  EarlyAbort   \* TRUE iff the server may abort before the request is complete

ASSUME BufSizeAssumption == BufSize \in Nat \ {0}
ASSUME IovMaxAssumption == IovMax \in Nat \ {0}
ASSUME MaxBytesAssumption == MaxBytes \in Nat
ASSUME SwitchesAssumption == ShortSends \in BOOLEAN /\ EarlyAbort \in BOOLEAN

VARIABLES
  pc,               \* where the client's thread is, see TypeOK
  state,            \* call->state
  more_send,        \* call->more_send
  known_to_kernel,  \* call->known_to_kernel
  head_base,        \* call->buffer_head
  head_io,          \* call->buffer_head->io_cursor
  tail_base,        \* call->buffer_tail
  data_start,       \* call->data_start
  data_cursor,      \* call->data_cursor
  data_count,       \* call->data_count
  bytes_sent,       \* call->bytes_sent
  ret,              \* what is left of sendmsg()'s result in the freeing loop
  encoded,          \* history: bytes marshalled by the caller
  delivered,        \* history: bytes the kernel holds as an unbroken prefix
  closed            \* history: the kernel has the end of the request

callVars == <<state, more_send, known_to_kernel>>
chainVars == <<head_base, head_io, tail_base>>
dataVars == <<data_start, data_cursor, data_count>>
historyVars == <<encoded, delivered, closed>>
vars == <<pc, callVars, chainVars, dataVars, bytes_sent, ret, historyVars>>

CallStates == {"not_started", "encoding_params", "waiting_for_response",
               "remotely_aborted"}

TypeOK ==
  /\ pc \in {"caller", "offer", "free", "sent", "done", "failed", "dead"}
  /\ state \in CallStates
  /\ more_send \in BOOLEAN
  /\ known_to_kernel \in BOOLEAN
  /\ head_base \in Nat
  /\ head_io \in 0 .. BufSize
  /\ tail_base \in Nat
  /\ data_start \in Nat
  /\ data_cursor \in Nat
  /\ data_count \in Int
  /\ bytes_sent \in Nat
  /\ ret \in Nat
  /\ encoded \in Nat
  /\ delivered \in Nat
  /\ closed \in BOOLEAN

\* rxrpc_alloc_call: one empty buffer ready to be marshalled into.
Init ==
  /\ pc = "caller"
  /\ state = "not_started"
  /\ more_send = TRUE
  /\ known_to_kernel = FALSE
  /\ head_base = 0 /\ head_io = 0 /\ tail_base = 0
  /\ data_start = 0 /\ data_cursor = 0 /\ data_count = 0
  /\ bytes_sent = 0
  /\ ret = 0
  /\ encoded = 0 /\ delivered = 0 /\ closed = FALSE

-----------------------------------------------------------------------------
(* Marshalling. *)

\* rxrpc_post_enc: account for what has been marshalled since the last time.
Accounted == data_count + (data_cursor - data_start)

TailHasRoom == data_cursor < tail_base + BufSize

\* rxrpc_enc_blob for one byte.  A blob is marshalled as its bytes one after
\* the other: the copy loop keeps no state but the call's between segments.
EncodeByte ==
  /\ pc = "caller"
  /\ more_send
  /\ state # "remotely_aborted"                \* call->error_code is clear
  /\ encoded < MaxBytes
  /\ encoded' = encoded + 1
  /\ data_cursor' = data_cursor + 1
  /\ \/ /\ TailHasRoom
        /\ UNCHANGED <<data_start, data_count, tail_base>>
     \/ \* The tail is full: account for it and chain a new buffer.
        /\ ~TailHasRoom
        /\ data_count' = Accounted
        /\ data_start' = data_cursor
        /\ tail_base' = tail_base + BufSize
  /\ UNCHANGED <<pc, callVars, head_base, head_io, bytes_sent, ret,
                 delivered, closed>>

\* There is no memory for another buffer: call->error_code is set, and whoever
\* marshals gives up the call at its next rxrpc_post_enc.
EncodeFails ==
  /\ pc = "caller"
  /\ more_send
  /\ state # "remotely_aborted"
  /\ encoded < MaxBytes
  /\ ~TailHasRoom
  /\ data_count' = Accounted
  /\ data_start' = data_cursor
  /\ pc' = "failed"
  /\ UNCHANGED <<callVars, chainVars, data_cursor, bytes_sent, ret, historyVars>>

-----------------------------------------------------------------------------
(* rxrpc_send_data. *)

\* The caller accounts for what it marshalled (rxrpc_post_enc), says whether
\* the request ends here and calls rxrpc_send_data.
SendData(final) ==
  /\ pc = "caller"
  /\ more_send
  /\ encoded > 0                               \* the opcode goes first
  /\ state \in {"not_started", "encoding_params"}
  /\ data_count' = Accounted
  /\ data_start' = data_cursor
  /\ more_send' = ~final
  /\ state' = "encoding_params"
  /\ pc' = "offer"
  /\ UNCHANGED <<known_to_kernel, chainVars, data_cursor, bytes_sent, ret,
                 historyVars>>

\* split_info.send() on an aborted call: py_enc_buffer_raw finds
\* call->error_code set and the transmit callback fails with OSError.
SendRefused ==
  /\ pc = "caller"
  /\ more_send
  /\ state = "remotely_aborted"
  /\ pc' = "failed"
  /\ UNCHANGED <<callVars, chainVars, dataVars, bytes_sent, ret, historyVars>>

\* The transmit callback returns None on an aborted call: the closing send
\* marshals nothing, so nothing looks at call->error_code before the default
\* case of rxrpc_send_data's switch, "Send in bad call state", abort()s.
SendInBadState ==
  /\ pc = "caller"
  /\ more_send
  /\ state \notin {"not_started", "encoding_params"}
  /\ pc' = "dead"
  /\ UNCHANGED <<callVars, chainVars, dataVars, bytes_sent, ret, historyVars>>

HeadSpentEarly == head_io >= BufSize - 1             \* mutant: off by one
HeadSpent == head_io = BufSize

\* The chain as sendmsg() sees it, once a spent head has been dropped.
OfferBase == IF HeadSpent THEN head_base + BufSize ELSE head_base
OfferStart == IF HeadSpent THEN OfferBase ELSE OfferBase + head_io
ReachesTail == tail_base < OfferBase + IovMax * BufSize
OfferEnd == IF ReachesTail THEN data_cursor ELSE OfferBase + IovMax * BufSize
Offered == OfferEnd - OfferStart

\* MSG_MORE is dropped only with the tail in iov[] and no more from the caller.
MsgMoreIfCallerHas == more_send                      \* mutant: iov[] may be full
MsgMore == more_send \/ ~ReachesTail

Taken(n) ==
  IF ShortSends /\ n > 0 THEN 1 .. n ELSE {n}

\* more_to_send: gather the chain into iov[] and hand it to sendmsg().
SendMsg ==
  /\ pc = "offer"
  /\ ~(HeadSpent /\ head_base = tail_base)
  /\ head_base' = OfferBase
  /\ head_io' = OfferStart - OfferBase
  /\ \E n \in Taken(Offered) :
       /\ bytes_sent' = bytes_sent + n
       /\ data_count' = data_count - n
       /\ ret' = n
       /\ delivered' = IF OfferStart = delivered THEN delivered + n
                                                 ELSE delivered
       /\ closed' = (closed \/ (~MsgMore /\ n = Offered))
  /\ known_to_kernel' = TRUE
  /\ pc' = "free"
  /\ UNCHANGED <<state, more_send, tail_base, data_start, data_cursor, encoded>>

\* sendmsg() fails: rxrpc_send_data returns -1 after dropping a spent head.
SendMsgFails ==
  /\ pc = "offer"
  /\ ~(HeadSpent /\ head_base = tail_base)
  /\ head_base' = OfferBase
  /\ head_io' = OfferStart - OfferBase
  /\ pc' = "failed"
  /\ UNCHANGED <<callVars, tail_base, dataVars, bytes_sent, ret, historyVars>>

\* The only buffer has been sent completely: "The buffer queue isn't allowed
\* to be empty at any point", and the code abort()s.
OfferEmptyQueue ==
  /\ pc = "offer"
  /\ HeadSpent
  /\ head_base = tail_base
  /\ pc' = "dead"
  /\ UNCHANGED <<callVars, chainVars, dataVars, bytes_sent, ret, historyVars>>

Least(a, b) == IF a < b THEN a ELSE b

\* One turn of the loop that frees the buffers sendmsg() emptied.
FreeSent ==
  LET count == Least(BufSize - head_io, ret) IN
  /\ pc = "free"
  /\ ret' = ret - count
  /\ \/ \* the tail stays, whatever was sent of it
        /\ head_base = tail_base
        /\ head_io' = head_io + count
        /\ pc' = "sent"
        /\ UNCHANGED head_base
     \/ /\ head_base # tail_base
        /\ head_base' = head_base + BufSize
        /\ head_io' = 0
        /\ pc' = IF ret' > 0 THEN "free" ELSE "sent"
  /\ UNCHANGED <<callVars, tail_base, dataVars, bytes_sent, historyVars>>

AllSentNearly == data_count <= 1                     \* mutant: off by one
AllSent == data_count = 0

\* Some of the request is still in the chain: goto more_to_send.
SendRest ==
  /\ pc = "sent"
  /\ ~AllSent
  /\ pc' = "offer"
  /\ UNCHANGED <<callVars, chainVars, dataVars, bytes_sent, ret, historyVars>>

\* All sent, more to come from the caller.
ReturnForMore ==
  /\ pc = "sent"
  /\ AllSent
  /\ more_send
  /\ pc' = "caller"
  /\ UNCHANGED <<callVars, chainVars, dataVars, bytes_sent, ret, historyVars>>

\* All sent and no more to come: the head buffer is made ready for the reply.
ReturnRequestSent ==
  /\ pc = "sent"
  /\ AllSent
  /\ ~more_send
  /\ state' = "waiting_for_response"
  /\ head_io' = 0
  /\ data_start' = head_base
  /\ data_cursor' = head_base
  /\ data_count' = 0
  /\ pc' = "done"
  /\ UNCHANGED <<more_send, known_to_kernel, head_base, tail_base, bytes_sent,
                 ret, historyVars>>

-----------------------------------------------------------------------------
\* py_rx_split_do_recv after a send that was not the last: the socket is
\* polled and an abort from the server may be taken off it.
ReceiveAbort ==
  /\ EarlyAbort
  /\ pc = "caller"
  /\ state = "encoding_params"
  /\ encoded = bytes_sent
  /\ known_to_kernel
  /\ known_to_kernel' = FALSE
  /\ state' = "remotely_aborted"
  /\ UNCHANGED <<pc, more_send, chainVars, dataVars, bytes_sent, ret,
                 historyVars>>

SendLoop == SendMsg \/ SendMsgFails \/ OfferEmptyQueue \/ FreeSent \/ SendRest
            \/ ReturnForMore \/ ReturnRequestSent

Next ==
  \/ EncodeByte \/ EncodeFails
  \/ \E final \in BOOLEAN : SendData(final)
  \/ SendRefused
  \/ SendInBadState
  \/ SendLoop
  \/ ReceiveAbort

Spec == Init /\ [][Next]_vars

\* rxrpc_send_data runs on the caller's thread and sendmsg() returns.
FairSpec == Spec /\ WF_vars(SendLoop)

-----------------------------------------------------------------------------
(* Properties. *)

\* The counters agree with the chain: between rxrpc_alloc_call and the switch
\* to waiting_for_response, data_count is exactly what has been accounted for
\* and not sent, whichever way the marshaller and the send loop alternate.
CountsAgree ==
  state # "waiting_for_response" =>
    /\ bytes_sent + data_count = data_start
    /\ data_start <= data_cursor
    /\ data_cursor = encoded
    /\ data_cursor - tail_base \in 0 .. BufSize

\* The freeing loop never gives away unsent bytes: whenever the chain is
\* offered, it starts at the first byte the kernel does not hold.
NothingSkipped ==
  pc \in {"caller", "offer", "sent"} /\ state # "waiting_for_response" =>
    /\ head_base + head_io = bytes_sent
    /\ delivered = bytes_sent

\* The call waits for its response only when the kernel holds every byte of
\* the request, in order, and knows that it is complete.
WaitsForWholeRequest ==
  state = "waiting_for_response" =>
    closed /\ delivered = encoded /\ bytes_sent = encoded

\* The end of the request is the end: nothing is offered to the kernel after
\* the message that was sent without MSG_MORE.
NothingAfterEnd == [][closed => delivered' = delivered /\ bytes_sent' = bytes_sent]_vars

\* rxrpc_send_data's own assertions, that it is called in a state that can send
\* and that the chain never holds nothing but a sent buffer, can fail only a
\* caller that sends with nothing new marshalled.
OnlyEmptySendsDie == pc = "dead" => bytes_sent = encoded

\* The sending half of a call implements RequestStream.
Stream == INSTANCE RequestStream
            WITH produced <- encoded, sent <- delivered, closed <- closed
StreamSpec == Stream!Spec
=============================================================================
