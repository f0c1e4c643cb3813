------------------------------- MODULE RxRecv -------------------------------
(***************************************************************************)
(* The receiving half of a synchronous client call: rxrpc_run_sync_call    *)
(* polls the socket, rxrpc_recv_data chains what arrives onto the call and *)
(* runs the reply decoder that rxgen generated for the operation, and the  *)
(* decoder's phases take words, bulk items and strings off the chain with  *)
(* rxrpc_dec, rxrpc_dec_blob and rxrpc_dec_advance_buffer.                 *)
(*                                                                         *)
(* As in RxSend the bytes of the reply are numbered from 0, every pointer  *)
(* of struct rx_call is the number of the byte it points at and a buffer   *)
(* is named by the number of its first byte.  Every buffer of the chain    *)
(* but the tail is full, and the tail's io_cursor is received - tail_base. *)
(*                                                                         *)
(* A decoder is a sequence of phases.  A "flat" phase is a fixed number of *)
(* words; its last word is the element count or the length of the phase    *)
(* after it if that is a "bulk" array, a "string" or "opaque" data.        *)
(***************************************************************************)
EXTENDS Integers, Sequences

CONSTANTS
  WordSize,   \* sizeof(net_xdr_t)
  BufSize,    \* RXGEN_BUFFER_SIZE
  RecvIov,    \* buffers one recvmsg() can scatter over: the size of bufs[]
  Decoders,   \* decoders: sequences of [form, words], words is of one item
  MaxItems,   \* bound: most elements of a bulk array, bytes of a string
  Slack,      \* bound: bytes the reply is longer (shorter) than it should be
  Chunks,     \* bound: bytes a message holds if it does not hold all the rest
  Faults      \* what else than data may come back from recvmsg()

ASSUME SizesAssumption ==
  /\ WordSize \in Nat \ {0}
  /\ BufSize \in Nat \ {0} /\ BufSize % WordSize = 0
  /\ RecvIov \in Nat \ {0, 1}
ASSUME DecodersAssumption ==
  \A d \in Decoders :
    /\ d \in Seq([form : {"flat", "bulk", "string", "opaque"}, words : Nat \ {0}])
    /\ \A k \in DOMAIN d : d[k].form # "flat" => k > 1 /\ d[k - 1].form = "flat"
    /\ \A k \in DOMAIN d : d[k].form \in {"string", "opaque"} => d[k].words = 1
ASSUME BoundsAssumption ==
  /\ MaxItems \in Nat
  /\ Slack \subseteq Int
  /\ Chunks \subseteq Nat \ {0}
  /\ Faults \subseteq {"abort", "net_error", "local_error", "busy",
                       "recvmsg", "no_memory", "no_object"}

VARIABLES
  pc,               \* where the client's thread is, see TypeOK
  state,            \* call->state
  known_to_kernel,  \* call->known_to_kernel
  more_recv,        \* call->more_recv
  error_code,       \* call->error_code
  verdict,          \* what rxrpc_run_sync_call returned
  head_base,        \* call->buffer_head
  tail_base,        \* call->buffer_tail
  received,         \* the end of the data in the tail
  data_start,       \* call->data_start
  data_cursor,      \* call->data_cursor
  data_stop,        \* call->data_stop
  data_count,       \* call->data_count, a negative number is a huge unsigned
  need_size,        \* call->need_size
  phase,            \* call->phase
  cur,              \* the phase whose code is running
  count,            \* the decoder's local copy of data_count
  words_left,       \* words of the item still to be decoded
  bulk_count,       \* call->bulk_count, or the length of a string or of opaque data
  bulk_index,       \* call->bulk_index
  blob_left,        \* call->blob_size - call->blob_offset
  soaking,          \* call->blob is the padding sink
  lost,             \* history: buffers neither freed nor reachable
  phases,           \* the decoder of the operation that is called
  sizes,            \* history: the counts and lengths the server replied with
  reply_len         \* history: the length of the server's reply

callVars == <<state, known_to_kernel, more_recv, error_code, verdict>>
chainVars == <<head_base, tail_base, received, lost>>
dataVars == <<data_start, data_cursor, data_stop, data_count>>
decodeVars == <<need_size, phase, cur, count, words_left>>
itemVars == <<bulk_count, bulk_index, blob_left, soaking>>
replyVars == <<phases, sizes, reply_len>>
vars == <<pc, callVars, chainVars, dataVars, decodeVars, itemVars, replyVars>>

N == Len(phases)
Words(k) == phases[k].words
Counted(k) == k \in 1 .. N /\ phases[k].form # "flat"

Aborted == {"remotely_aborted", "locally_aborted", "net_error", "local_error",
            "rejected_busy"}

TypeOK ==
  /\ pc \in {"poll", "switch", "select", "enter", "check", "word", "blob",
             "string", "advance", "decoded", "return", "done", "dead", "astray"}
  /\ state \in {"waiting_for_response", "decoding_response",
                "wait_for_no_MSG_MORE", "complete"} \cup Aborted
  /\ known_to_kernel \in BOOLEAN /\ more_recv \in BOOLEAN
  /\ error_code \in {"none", "ENODATA", "ECONNABORTED", "ECONNREFUSED",
                     "net_error", "local_error"}
  /\ verdict \in {"pending", "ok", "failed"}
  /\ head_base \in Nat /\ tail_base \in Nat /\ received \in Nat
  /\ data_start \in Nat /\ data_cursor \in Nat /\ data_stop \in Nat
  /\ data_count \in Int /\ count \in Int
  /\ need_size \in Nat
  /\ phase \in 0 .. N + 1 /\ cur \in 0 .. N + 1
  /\ words_left \in Nat
  /\ bulk_count \in 0 .. MaxItems /\ bulk_index \in 0 .. MaxItems
  /\ blob_left \in Nat /\ soaking \in BOOLEAN
  /\ lost \in Nat
  /\ phases \in Decoders
  /\ sizes \in [1 .. N -> 0 .. MaxItems] /\ reply_len \in Nat

-----------------------------------------------------------------------------
(* The reply on the wire, as the XDR encoding lays it out. *)

RoundUp(n) == n + ((-n) % WordSize)

PhaseBytes(k, sz) ==
  CASE phases[k].form = "flat"   -> Words(k) * WordSize
    [] phases[k].form = "bulk"   -> sz[k] * Words(k) * WordSize
    [] phases[k].form \in {"string", "opaque"} -> RoundUp(sz[k])

\* Layout(sz)[k] is where phase k begins, Layout(sz)[N + 1] the reply's length.
Layout(sz) ==
  LET begins[k \in 1 .. N + 1] ==
        IF k = 1 THEN 0 ELSE begins[k - 1] + PhaseBytes(k - 1, sz)
  IN  begins

\* The request has been sent: rxrpc_send_data has prepared the empty buffer.
Init ==
  /\ pc = "poll"
  /\ state = "waiting_for_response"
  /\ known_to_kernel = TRUE /\ more_recv = TRUE
  /\ error_code = "none" /\ verdict = "pending"
  /\ head_base = 0 /\ tail_base = 0 /\ received = 0 /\ lost = 0
  /\ data_start = 0 /\ data_cursor = 0 /\ data_stop = 0 /\ data_count = 0
  /\ need_size = 0 /\ phase = 0 /\ cur = 0 /\ count = 0 /\ words_left = 0
  /\ bulk_count = 0 /\ bulk_index = 0 /\ blob_left = 0 /\ soaking = FALSE
  /\ phases \in Decoders
  /\ sizes \in {sz \in [1 .. N -> 0 .. MaxItems] :
                  \A k \in 1 .. N : ~Counted(k) => sz[k] = 0}
  /\ \E slack \in Slack :
       /\ Layout(sizes)[N + 1] + slack >= 0
       /\ reply_len = Layout(sizes)[N + 1] + slack

-----------------------------------------------------------------------------
(* rxrpc_recv_data: taking a message off the socket. *)

TailFull == received = tail_base + BufSize
Fresh == IF TailFull THEN RecvIov ELSE RecvIov - 1
Space == tail_base + BufSize - received + Fresh * BufSize

\* The fresh buffers the attach loop gives back, of which `used` are attached.
FreedAfterBreak(len, used) ==                        \* mutant: off by one
  IF len > 0 /\ used < Fresh THEN Fresh - used - 1 ELSE 0
FreedUnused(len, used) == IF len > 0 THEN Fresh - used ELSE 0

Attach(len) ==
  /\ received' = received + len
  /\ data_count' = data_count + len
  /\ \E used \in 0 .. Fresh :
       /\ received' <= tail_base + (used + 1) * BufSize
       /\ used > 0 => received' > tail_base + used * BufSize
       /\ tail_base' = tail_base + used * BufSize
       /\ lost' = lost + Fresh - used - FreedUnused(len, used)

\* A message of the reply.  The last one comes without MSG_MORE, and MSG_EOR
\* with it or in an empty message of its own.
ReceiveData(len, last, eor) ==
  /\ pc = "poll"
  /\ known_to_kernel
  /\ more_recv
  /\ len <= Space
  /\ len <= reply_len - received
  /\ IF last THEN len = reply_len - received ELSE len > 0
  /\ eor => last
  /\ Attach(len)
  /\ known_to_kernel' = ~eor
  /\ more_recv' = ~last
  /\ pc' = "switch"
  /\ UNCHANGED <<state, error_code, verdict, head_base, data_start,
                 data_cursor, data_stop, decodeVars, itemVars, replyVars>>

ReceiveEnd ==
  /\ pc = "poll"
  /\ known_to_kernel
  /\ ~more_recv
  /\ Attach(0)
  /\ known_to_kernel' = FALSE
  /\ pc' = "switch"
  /\ UNCHANGED <<state, more_recv, error_code, verdict, head_base, data_start,
                 data_cursor, data_stop, decodeVars, itemVars, replyVars>>

\* The call is over for another reason: an empty message with MSG_EOR, no
\* MSG_MORE, and the reason in a control message.
Reason ==
  [abort       |-> [state |-> "remotely_aborted", error |-> "ECONNABORTED"],
   net_error   |-> [state |-> "net_error",        error |-> "net_error"],
   local_error |-> [state |-> "local_error",      error |-> "local_error"],
   busy        |-> [state |-> "rejected_busy",    error |-> "ECONNREFUSED"]]

ReceiveFailure(kind) ==
  /\ pc = "poll"
  /\ known_to_kernel
  /\ more_recv
  /\ Attach(0)
  /\ known_to_kernel' = FALSE
  /\ more_recv' = FALSE
  /\ state' = Reason[kind].state
  /\ error_code' = Reason[kind].error
  /\ pc' = "switch"
  /\ UNCHANGED <<verdict, head_base, data_start, data_cursor, data_stop,
                 decodeVars, itemVars, replyVars>>

\* recvmsg() or malloc() fails: rxrpc_recv_data and with it the call fail.
\* The buffers set up for the message are freed only if malloc() failed; if it
\* is calloc() that failed, its result is written to before it is looked at.
ReceiveError(kind) ==
  /\ pc = "poll"
  /\ known_to_kernel
  /\ \/ /\ kind = "recvmsg"
        /\ lost' = lost + Fresh
        /\ verdict' = "failed" /\ pc' = "return"
     \/ /\ kind = "no_memory"
        /\ UNCHANGED lost
        /\ \/ verdict' = "failed" /\ pc' = "return"
           \/ verdict' = verdict /\ pc' = "astray"
  /\ UNCHANGED <<state, known_to_kernel, more_recv, error_code, head_base,
                 tail_base, received, dataVars, decodeVars, itemVars, replyVars>>

-----------------------------------------------------------------------------
(* rxrpc_recv_data: the state machine. *)

Below(n, size) == n \in 0 .. size - 1                \* n < size, unsigned
Decoding == state \in {"waiting_for_response", "decoding_response"}

\* Not enough for the decoder to go on with: wait, or give up on the call.
WaitForData ==
  /\ pc = "switch"
  /\ Decoding
  /\ Below(data_count, need_size)
  /\ \/ /\ more_recv
        /\ state' = "decoding_response"
        /\ UNCHANGED <<error_code, known_to_kernel>>
     \/ /\ ~more_recv
        /\ error_code' = "ENODATA"
        /\ state' = "locally_aborted"                \* rxrpc_abort_call
        /\ known_to_kernel' = FALSE
  /\ pc' = "poll"
  /\ UNCHANGED <<more_recv, verdict, chainVars, dataVars, decodeVars, itemVars,
                 replyVars>>

\* Call the decoder: it resumes in the phase it returned from.
CallDecoder ==
  /\ pc = "switch"
  /\ Decoding
  /\ ~Below(data_count, need_size)
  /\ state' = "decoding_response"
  /\ count' = data_count
  /\ IF phase = 0 THEN cur' = 1 /\ pc' = "enter"
                  ELSE cur' = phase /\ pc' = "check"
  /\ UNCHANGED <<known_to_kernel, more_recv, error_code, verdict, chainVars,
                 dataVars, need_size, phase, words_left, itemVars, replyVars>>

\* Everything is decoded, or the call is over already.
SwitchFinished ==
  /\ pc = "switch"
  /\ ~Decoding
  /\ pc' = IF state = "wait_for_no_MSG_MORE" THEN "decoded" ELSE "poll"
  /\ UNCHANGED <<callVars, chainVars, dataVars, decodeVars, itemVars, replyVars>>

\* rxgen_dec_discard_excess, and the call is complete if that was the last
\* message.
FinishedIfDecoded == TRUE                            \* mutant: more_recv ignored
Finished == ~more_recv

DiscardExcess ==
  /\ pc = "decoded"
  /\ head_base' = tail_base
  /\ data_start' = received /\ data_cursor' = received /\ data_stop' = received
  /\ data_count' = 0
  /\ state' = IF Finished THEN "complete" ELSE "wait_for_no_MSG_MORE"
  /\ pc' = "poll"
  /\ UNCHANGED <<known_to_kernel, more_recv, error_code, verdict, tail_base,
                 received, lost, decodeVars, itemVars, replyVars>>

-----------------------------------------------------------------------------
(* The generated decoder: its phases. *)

\* rxrpc_post_dec: account for what has been decoded since the last time.  It
\* lowers need_size too, which is always set again before it is looked at.
PostDec ==
  /\ data_count' = data_count - (data_cursor - data_start)
  /\ data_start' = data_cursor

\* select_phase: note how much there is and go on with the phase.
SelectPhase ==
  /\ pc = "select"
  /\ count' = data_count
  /\ pc' = "check"
  /\ UNCHANGED <<callVars, chainVars, dataVars, need_size, phase, cur,
                 words_left, itemVars, replyVars>>

\* The code before a phase's case label, reached from the phase before it.
EnterFlat ==
  /\ pc = "enter"
  /\ cur <= N /\ ~Counted(cur)
  /\ phase' = cur
  /\ pc' = "check"
  /\ UNCHANGED <<callVars, chainVars, dataVars, need_size, cur, count,
                 words_left, itemVars, replyVars>>

SkipEmpty ==
  /\ pc = "enter"
  /\ Counted(cur) /\ phases[cur].form # "opaque"
  /\ bulk_count = 0
  /\ cur' = cur + 1
  /\ UNCHANGED <<pc, callVars, chainVars, dataVars, need_size, phase, count,
                 words_left, itemVars, replyVars>>

EnterBulk ==
  /\ pc = "enter"
  /\ Counted(cur) /\ phases[cur].form = "bulk"
  /\ bulk_count > 0
  /\ bulk_index' = 0
  /\ phase' = cur
  /\ pc' = "check"
  /\ UNCHANGED <<callVars, chainVars, dataVars, need_size, cur, count,
                 words_left, bulk_count, blob_left, soaking, replyVars>>

\* py_dec_init_string
EnterString ==
  /\ pc = "enter"
  /\ Counted(cur) /\ phases[cur].form = "string"
  /\ bulk_count > 0
  /\ blob_left' = bulk_count
  /\ soaking' = FALSE
  /\ phase' = cur
  /\ pc' = "check"
  /\ UNCHANGED <<callVars, chainVars, dataVars, need_size, cur, count,
                 words_left, bulk_count, bulk_index, replyVars>>

\* py_dec_init_opaque returns 0 whatever there is to do, which is taken to mean
\* that it is nothing: the data stay in front of what the next phase decodes.
SkipOpaque ==
  /\ pc = "enter"
  /\ Counted(cur) /\ phases[cur].form = "opaque"
  /\ need_size' = bulk_count
  /\ cur' = cur + 1
  /\ UNCHANGED <<pc, callVars, chainVars, dataVars, phase, count, words_left,
                 itemVars, replyVars>>

\* Python cannot make the list, the string or the buffer of a phase, or an item
\* of a list: the decoder returns -1 and rxrpc_recv_data aborts the call.
DecoderFails ==
  /\ "no_object" \in Faults
  /\ \/ pc = "enter" /\ Counted(cur)
     \/ pc = "word" /\ words_left = 0 /\ phases[cur].form = "bulk"
  /\ state' = "locally_aborted"                      \* rxrpc_abort_call
  /\ known_to_kernel' = FALSE
  /\ cur' = 0
  /\ pc' = "poll"
  /\ UNCHANGED <<more_recv, error_code, verdict, chainVars, dataVars, need_size,
                 phase, count, words_left, itemVars, replyVars>>

EnterEnd ==
  /\ pc = "enter"
  /\ cur = N + 1
  /\ phase' = N + 1
  /\ need_size' = 0
  /\ state' = "wait_for_no_MSG_MORE"                  \* the decoder returns 0
  /\ pc' = "decoded"
  /\ UNCHANGED <<known_to_kernel, more_recv, error_code, verdict, chainVars,
                 dataVars, cur, count, words_left, itemVars, replyVars>>

\* The phase's case label: is there enough for one item?
EnoughButOne(n, size) == ~Below(n, size - WordSize)  \* mutant: a word short
EnoughStrict(n, size) == ~Below(n, size + 1)         \* mutant: <= for <
Enough(n, size) == ~Below(n, size)

CheckPhase ==
  /\ pc = "check"
  /\ need_size' = Words(cur) * WordSize
  /\ IF Enough(count, need_size')
       THEN /\ words_left' = Words(cur)
            /\ pc' = IF phases[cur].form = "string" THEN "string" ELSE "word"
       ELSE /\ pc' = "switch"                         \* return 1; goto loop
            /\ UNCHANGED words_left
  /\ UNCHANGED <<callVars, chainVars, dataVars, phase, cur, count, itemVars,
                 replyVars>>

\* The number that a count or a length is decoded to: what the server sent, if
\* that is where it is read from.
CountsRead ==
  IF data_cursor = Layout(sizes)[cur + 1] THEN {sizes[cur + 1]} ELSE 0 .. MaxItems

\* All words of a flat phase are decoded; on to the next phase, with the count
\* noted before they were.
EndFlat ==
  /\ pc = "word" /\ words_left = 0
  /\ phases[cur].form = "flat"
  /\ PostDec
  /\ IF Counted(cur + 1) THEN bulk_count' \in CountsRead ELSE UNCHANGED bulk_count
  /\ cur' = cur + 1
  /\ pc' = "enter"
  /\ UNCHANGED <<callVars, chainVars, data_cursor, data_stop, need_size, phase,
                 count, words_left, bulk_index, blob_left, soaking, replyVars>>

\* An item of a bulk array is decoded: the next item, or the next phase.
MoreItems == bulk_index' < bulk_count

EndItem ==
  /\ pc = "word" /\ words_left = 0
  /\ phases[cur].form = "bulk"
  /\ PostDec
  /\ bulk_index' = bulk_index + 1
  /\ IF MoreItems THEN pc' = "select" /\ UNCHANGED cur
                  ELSE pc' = "enter" /\ cur' = cur + 1
  /\ UNCHANGED <<callVars, chainVars, data_cursor, data_stop, need_size, phase,
                 count, words_left, bulk_count, blob_left, soaking, replyVars>>

-----------------------------------------------------------------------------
(* Taking data off the chain. *)

Aligned == data_cursor % WordSize = 0

\* rxrpc_dec: the word is in the head buffer ...
DecodeWord ==
  /\ pc = "word" /\ words_left > 0
  /\ Aligned /\ data_cursor < data_stop
  /\ data_cursor' = data_cursor + WordSize
  /\ words_left' = words_left - 1
  /\ UNCHANGED <<pc, callVars, chainVars, data_start, data_stop, data_count,
                 need_size, phase, cur, count, itemVars, replyVars>>

\* ... or rxrpc_dec_slow has to put it together, and abort()s if it cannot.
DecodeSlow ==
  /\ pc = "word" /\ words_left > 0
  /\ ~(Aligned /\ data_cursor < data_stop)
  /\ IF Below(data_count, WordSize)
       THEN pc' = "dead" /\ UNCHANGED blob_left
       ELSE pc' = "blob" /\ blob_left' = WordSize
  /\ UNCHANGED <<callVars, chainVars, dataVars, decodeVars, bulk_count,
                 bulk_index, soaking, replyVars>>

\* What rxrpc_dec_blob and py_dec_into_string copy.  The room up to data_stop is
\* an unsigned number: if data_cursor is past data_stop, it is huge.
Segment ==
  IF data_cursor <= data_stop /\ data_stop - data_cursor < blob_left
  THEN data_stop - data_cursor ELSE blob_left

PastHead == data_cursor + Segment > head_base + BufSize

\* rxrpc_dec_blob for the word being put together.  Copying what is not in the
\* head buffer copies something else: nothing is said of the call after that.
DecodeBlob ==
  /\ pc = "blob"
  /\ PostDec
  /\ data_cursor' = data_cursor + Segment
  /\ blob_left' = blob_left - Segment
  /\ words_left' = IF blob_left' = 0 THEN words_left - 1 ELSE words_left
  /\ pc' = IF PastHead THEN "astray"
           ELSE IF blob_left' = 0 THEN "word" ELSE "advance"
  /\ UNCHANGED <<callVars, chainVars, data_stop, need_size, phase, cur, count,
                 bulk_count, bulk_index, soaking, replyVars>>

\* The bytes after a string that py_dec_into_string takes for its padding.
PaddingSize == WordSize - (bulk_count % WordSize)

\* py_dec_into_string: copy what there is, then soak up the padding.
DecodeString ==
  /\ pc = "string"
  /\ data_cursor' = data_cursor + Segment
  /\ \/ /\ Segment < blob_left                        \* rxrpc_dec_advance_buffer
        /\ PostDec
        /\ blob_left' = blob_left - Segment
        /\ pc' = "advance"
        /\ UNCHANGED <<soaking, cur>>
     \/ /\ Segment = blob_left
        /\ ~soaking /\ PaddingSize > 0
        /\ PostDec
        /\ soaking' = TRUE
        /\ blob_left' = PaddingSize
        /\ pc' = IF PastHead THEN "astray" ELSE "select"
        /\ UNCHANGED cur
     \/ \* the string is done: the decoder calls rxrpc_post_dec once more
        /\ Segment = blob_left
        /\ soaking \/ PaddingSize = 0
        /\ data_count' = data_count - (data_cursor' - data_start)
        /\ data_start' = data_cursor'
        /\ blob_left' = 0
        /\ cur' = cur + 1
        /\ pc' = IF PastHead THEN "astray" ELSE "enter"
        /\ UNCHANGED soaking
  /\ UNCHANGED <<callVars, chainVars, data_stop, need_size, phase, count,
                 words_left, bulk_count, bulk_index, replyVars>>

\* Where the data in a buffer of the chain ends.
BufferEnd(base) == base + BufSize                    \* mutant: io_cursor ignored
DataEnd(base) == IF base = tail_base THEN received ELSE base + BufSize

InString == phases[cur].form = "string"
Advanced == pc' = IF InString THEN "select" ELSE "blob"

\* rxrpc_dec_advance_buffer: more has come into the head since it was read ...
ReadOn ==
  /\ pc = "advance"
  /\ data_stop < DataEnd(head_base)
  /\ data_stop' = DataEnd(head_base)
  /\ Advanced
  /\ UNCHANGED <<callVars, chainVars, data_start, data_cursor, data_count,
                 decodeVars, itemVars, replyVars>>

\* ... or it is used up and freed ...
NextBuffer ==
  /\ pc = "advance"
  /\ data_stop >= DataEnd(head_base)
  /\ head_base # tail_base
  /\ data_count' = data_count - (data_cursor - data_start)
  /\ head_base' = head_base + BufSize
  /\ data_start' = head_base' /\ data_cursor' = head_base'
  /\ data_stop' = DataEnd(head_base')
  /\ Advanced
  /\ UNCHANGED <<callVars, tail_base, received, lost, decodeVars, itemVars,
                 replyVars>>

\* ... or there is nothing more to read, and the code abort()s.
OutOfData ==
  /\ pc = "advance"
  /\ data_stop >= DataEnd(head_base)
  /\ head_base = tail_base
  /\ pc' = "dead"
  /\ UNCHANGED <<callVars, chainVars, dataVars, decodeVars, itemVars, replyVars>>

-----------------------------------------------------------------------------
(* rxrpc_run_sync_call returns (in any other state it would abort()), and     *)
(* rxrpc_terminate_call.                                                      *)

ReturnCall ==
  /\ pc = "poll"
  /\ ~known_to_kernel
  /\ verdict' = CASE state = "complete" -> "ok"
                  [] state \in Aborted  -> "failed"     \* errno = error_code
                  [] OTHER              -> verdict
  /\ pc' = IF verdict' = "pending" THEN "dead" ELSE "return"
  /\ UNCHANGED <<state, known_to_kernel, more_recv, error_code, chainVars,
                 dataVars, decodeVars, itemVars, replyVars>>

\* The wrapper is done with the call: it is aborted if the kernel has it still.
AbortIfUnsettled == known_to_kernel /\ error_code # "none"  \* mutant: wrong test
AbortNeeded == known_to_kernel

TerminateCall ==
  /\ pc = "return"
  /\ IF AbortNeeded
       THEN known_to_kernel' = FALSE /\ state' = "locally_aborted"
       ELSE UNCHANGED <<known_to_kernel, state>>
  /\ pc' = "done"
  /\ UNCHANGED <<more_recv, error_code, verdict, chainVars, dataVars,
                 decodeVars, itemVars, replyVars>>

-----------------------------------------------------------------------------
Receive ==
  \/ \E len \in Chunks \cup {reply_len - received}, last, eor \in BOOLEAN :
       ReceiveData(len, last, eor)
  \/ ReceiveEnd
  \/ \E kind \in Faults \cap DOMAIN Reason : ReceiveFailure(kind)
  \/ \E kind \in Faults \cap {"recvmsg", "no_memory"} : ReceiveError(kind)

Decode ==
  \/ SelectPhase \/ EnterFlat \/ SkipEmpty \/ SkipOpaque \/ EnterBulk
  \/ EnterString \/ EnterEnd \/ DecoderFails
  \/ CheckPhase \/ EndFlat \/ EndItem
  \/ DecodeWord \/ DecodeSlow \/ DecodeBlob \/ DecodeString
  \/ ReadOn \/ NextBuffer \/ OutOfData

Run == WaitForData \/ CallDecoder \/ SwitchFinished \/ DiscardExcess
       \/ ReturnCall \/ TerminateCall

Next == Receive \/ Decode \/ Run

Spec == Init /\ [][Next]_vars

\* The client's thread runs on, and the kernel delivers the reply or, as it
\* gives up on a call that hears nothing from its server, an error.
FairSpec == Spec /\ WF_vars(Decode \/ Run) /\ WF_vars(Receive)

-----------------------------------------------------------------------------
(* Properties. *)

\* The counters agree with the chain: data_count is what has arrived less what
\* has been accounted for, and the decoder is never ahead of what has arrived
\* nor outside the buffer it reads, across messages, buffers and discards.
CountsAgree ==
  /\ data_count = received - data_start
  /\ data_start <= data_cursor /\ data_cursor <= received
  /\ head_base <= data_start /\ data_cursor <= head_base + BufSize
  /\ data_stop <= received /\ data_stop <= head_base + BufSize
  /\ head_base # tail_base => received > tail_base
  /\ received \in tail_base .. tail_base + BufSize

\* The decoder keeps its place in the reply: each string ends inside a word, and
\* there are no opaque data.
KeepsPlace ==
  \A k \in 1 .. N :
    /\ phases[k].form = "string" /\ sizes[k] > 0 => sizes[k] % WordSize # 0
    /\ phases[k].form = "opaque" => sizes[k] = 0

\* What the caller is told is right: success only of a call that was decoded to
\* its end with nothing left to come, and only of a whole reply; ENODATA only of
\* a short one; and the kernel does not hold on to a call whose memory has been
\* freed.  A string that needs no padding costs a word of what follows it, and
\* opaque data are not taken at all, so what was sent and what was decoded can be
\* compared only if there are neither.
VerdictRight ==
  pc = "done" =>
    /\ ~known_to_kernel
    /\ verdict = "ok" => /\ error_code = "none"
                         /\ ~more_recv /\ received = reply_len
                         /\ phase = N + 1
    /\ KeepsPlace =>
         /\ verdict = "ok" => reply_len >= Layout(sizes)[N + 1]
         /\ error_code = "ENODATA" => /\ verdict = "failed"
                                      /\ received = reply_len
                                      /\ reply_len < Layout(sizes)[N + 1]

\* The assertions of the receive path hold: the slow path and the advance to
\* the next buffer always find the data they need, and the call never ends in
\* a state that is neither complete nor failed.
NeverDies == pc # "dead"

\* They fail for these reasons only, however the reply is cut into messages: a
\* string that needs no padding, or opaque data that are not taken, so that other
\* things are read than were sent; a string whose end has not arrived, because one
\* word of it is all that is waited for; and a phase that was entered with the
\* count of the phase before it.  So a reply of fixed size kills nobody, nor
\* does one that has arrived as far as the phase that is being decoded goes.
DeathsExplained ==
  pc = "dead" =>
    \/ ~KeepsPlace
    \/ /\ received < Layout(sizes)[cur + 1]
       /\ InString \/ (cur > 1 /\ count > data_count)

\* A message that brings data costs no buffer: what it used is chained to the
\* call and the rest is freed.
DataLosesNothing == [][received' > received => lost' = lost]_vars

\* The call returns (or dies, where NeverDies does not hold): nothing that
\* arrives, or fails to, leaves rxrpc_recv_data and the decoder calling each
\* other for ever, or the client polling for a message that will not come.
CallReturns == <>(pc \in {"done", "dead", "astray"})

\* The receiving half of a call implements ReplyStream.
Stream == INSTANCE ReplyStream
            WITH arrived <- received, consumed <- data_cursor,
                 outcome <- IF pc \in {"dead", "astray"} THEN "crashed" ELSE verdict
StreamSpec == Stream!Spec
=============================================================================
