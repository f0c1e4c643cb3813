------------------------------ MODULE SplitCall ------------------------------
(***************************************************************************)
(* A split-mode call: part of the request or of the reply is left to a     *)
(* Python handler.  py_rxgen_split_transmit hands the call to the          *)
(* handler's transmit(); py_rxgen_split_receive, called by the generated   *)
(* decoder, drives the handler's receive() as a state machine.  The two    *)
(* handlers are those of `bos getlog`, which downloads a file, and         *)
(* `bos install`, which uploads one.                                       *)
(*                                                                         *)
(* The chains of buffers under the call are the business of RxSend and     *)
(* RxRecv; here data_count says all there is to know of them.              *)
(***************************************************************************)
EXTENDS Integers

CONSTANTS
  Handlers,   \* which of "getlog" and "install" are run
  FileSizes,  \* bound: blocks in the file to install
  LogSizes,   \* bound: bytes in the log to get
  UINT_MAX,   \* need_size of a call that wants everything as it comes
  BlockSize,  \* most bytes getlog asks for at a time (4096)
  EmptyLast,  \* TRUE iff the last message of the reply may hold no data
  EarlyAbort  \* TRUE iff the server may abort the call

ASSUME SplitAssumption ==
  /\ Handlers \subseteq {"getlog", "install"}
  /\ FileSizes \subseteq Nat /\ LogSizes \subseteq Nat
  /\ BlockSize \in Nat \ {0}
  /\ UINT_MAX \in Nat /\ \A size \in LogSizes : size < UINT_MAX
  /\ EmptyLast \in BOOLEAN /\ EarlyAbort \in BOOLEAN

VARIABLES
  pc,              \* where the client's thread is, see TypeOK
  handler,         \* the handler of the call
  file_size,       \* history: blocks to upload
  pos,             \* blocks handed to split_info.send()
  log_size,        \* history: bytes the server replies with
  arrived,         \* history: bytes of them taken off the socket
  output,          \* history: bytes written by the handler
  split_state,     \* split_info->split_state
  handler_state,   \* split_info->state
  receiving_data,  \* split_info->receiving_data
  target,          \* size of split_info->target, the handler's buffer
  buf_left,        \* blob_size - blob_offset of the buffer being filled
  aborted,         \* the call is in a failed state
  more_recv,       \* call->more_recv
  data_count,      \* call->data_count
  need_size,       \* call->need_size
  phase,           \* call->phase
  count            \* the decoder's local copy of data_count

replyVars == <<log_size, arrived, output>>
fileVars == <<handler, file_size, pos>>
bufferVars == <<receiving_data, target, buf_left>>
splitVars == <<split_state, handler_state, bufferVars>>
callVars == <<aborted, more_recv, data_count, need_size, phase, count>>
vars == <<pc, replyVars, fileVars, splitVars, callVars>>

TypeOK ==
  /\ pc \in {"transmit", "poll", "switch", "select", "case", "fill", "receive",
             "finish", "ok", "failed", "dead"}
  /\ handler \in Handlers
  /\ file_size \in FileSizes /\ pos \in 0 .. file_size
  /\ log_size \in LogSizes /\ arrived \in 0 .. log_size /\ output \in 0 .. arrived
  /\ split_state \in {"idle", "transmitting"}
  /\ handler_state \in 0 .. 3
  /\ receiving_data \in BOOLEAN
  /\ target \in 0 .. BlockSize /\ buf_left \in 0 .. target
  /\ aborted \in BOOLEAN /\ more_recv \in BOOLEAN
  /\ data_count \in 0 .. arrived /\ count \in 0 .. arrived
  /\ need_size \in 0 .. UINT_MAX
  /\ phase \in 0 .. 2

\* py_rxgen_split_transmit is called: the parameters are marshalled.
Init ==
  /\ pc = "transmit"
  /\ handler \in Handlers
  /\ file_size \in FileSizes /\ pos = 0
  /\ log_size \in LogSizes /\ arrived = 0 /\ output = 0
  /\ split_state = "transmitting" /\ handler_state = 0
  /\ receiving_data = FALSE /\ target = 0 /\ buf_left = 0
  /\ aborted = FALSE /\ more_recv = TRUE
  /\ data_count = 0 /\ need_size = 0 /\ phase = 0 /\ count = 0

-----------------------------------------------------------------------------
(* Transmission. *)

\* getlog: transmit() returns None and the request ends as it is.
TransmitNone ==
  /\ pc = "transmit"
  /\ handler = "getlog"
  /\ split_state' = "idle"
  /\ pc' = "poll"
  /\ UNCHANGED <<replyVars, fileVars, handler_state, bufferVars, callVars>>

\* install: split_info.send() of the next block.  The last one ends the request.
MoreIfBefore == pos < file_size                      \* mutant: tested too early
MoreIfTwo == pos' + 1 < file_size                    \* mutant: off by one
MoreBlocks == pos' < file_size

SendBlock ==
  /\ pc = "transmit"
  /\ handler = "install"
  /\ pos < file_size
  /\ ~aborted
  /\ pos' = pos + 1
  /\ split_state' = IF MoreBlocks THEN "transmitting" ELSE "idle"
  /\ UNCHANGED <<pc, replyVars, handler, file_size, handler_state,
                 bufferVars, callVars>>

\* send() polls the socket and takes an abort off it ...
ReceiveAbort ==
  /\ EarlyAbort
  /\ ~aborted
  /\ \/ pc = "transmit" /\ pos > 0
     \/ pc = "poll" /\ more_recv
  /\ aborted' = TRUE
  /\ more_recv' = FALSE
  /\ UNCHANGED <<pc, replyVars, fileVars, splitVars, data_count, need_size,
                 phase, count>>

\* ... after which the next one raises an exception, as nothing can be encoded.
SendRefused ==
  /\ pc = "transmit"
  /\ handler = "install"
  /\ pos < file_size
  /\ aborted
  /\ pc' = "failed"
  /\ UNCHANGED <<replyVars, fileVars, splitVars, callVars>>

\* transmit() returns True: has it ended the request?
TransmitDone ==
  /\ pc = "transmit"
  /\ handler = "install"
  /\ pos = file_size
  /\ pc' = IF split_state = "idle" THEN "poll" ELSE "dead"
  /\ UNCHANGED <<replyVars, fileVars, splitVars, callVars>>

-----------------------------------------------------------------------------
(* Reception: rxrpc_recv_data. *)

ReceiveData(len, last) ==
  /\ pc = "poll"
  /\ more_recv
  /\ arrived + len <= log_size
  /\ IF last THEN arrived + len = log_size ELSE arrived + len < log_size \/ EmptyLast
  /\ len = 0 => last /\ (EmptyLast \/ log_size = 0)
  /\ arrived' = arrived + len
  /\ data_count' = data_count + len
  /\ more_recv' = ~last
  /\ pc' = "switch"
  /\ UNCHANGED <<log_size, output, fileVars, splitVars, aborted, need_size,
                 phase, count>>

Wanting ==
  IF need_size = UINT_MAX THEN data_count = 0 /\ more_recv
                          ELSE data_count < need_size

\* Not enough for the decoder: wait for more, or give up (ENODATA).
WaitForData ==
  /\ pc = "switch"
  /\ Wanting
  /\ pc' = IF more_recv THEN "poll" ELSE "failed"
  /\ UNCHANGED <<replyVars, fileVars, splitVars, callVars>>

\* Call the decoder; a call that wants everything "is willing to settle for
\* nothing also".
CallDecoder ==
  /\ pc = "switch"
  /\ ~Wanting
  /\ pc' = IF phase = 0 THEN "receive" ELSE "case"
  /\ count' = data_count
  /\ UNCHANGED <<replyVars, fileVars, splitVars, aborted, more_recv, data_count,
                 need_size, phase>>

-----------------------------------------------------------------------------
(* Reception: the decoder's split phase and py_rxgen_split_receive. *)

\* The first call, with init set.  getlog's receive() asks for everything.
ReceiveInit ==
  /\ pc = "receive"
  /\ phase = 0
  /\ handler = "getlog"
  /\ need_size' = UINT_MAX                           \* will_recv_all()
  /\ handler_state' = 1
  /\ phase' = 1
  /\ pc' = "case"
  /\ UNCHANGED <<replyVars, fileVars, split_state, bufferVars,
                 aborted, more_recv, data_count, count>>

\* install's receive() takes one parameter more than it is called with: the
\* TypeError makes the decoder return -1 and the call is aborted.
ReceiveRaises ==
  /\ pc = "receive"
  /\ phase = 0
  /\ handler = "install"
  /\ aborted' = TRUE
  /\ pc' = "failed"
  /\ UNCHANGED <<replyVars, fileVars, splitVars, more_recv, data_count,
                 need_size, phase, count>>

\* select_phase and the case label of the split phase.
SelectPhase ==
  /\ pc = "select"
  /\ count' = data_count
  /\ pc' = "case"
  /\ UNCHANGED <<replyVars, fileVars, splitVars, aborted, more_recv, data_count,
                 need_size, phase>>

LackingEqual == IF need_size = UINT_MAX THEN count = 0    \* mutant: <= for <
                                        ELSE count <= need_size
Lacking == IF need_size = UINT_MAX THEN count = 0 ELSE count < need_size

CheckPhase ==
  /\ pc = "case"
  /\ pc' = IF Lacking
           THEN "switch"                             \* return 1; goto loop
           ELSE IF receiving_data THEN "fill" ELSE "receive"
  /\ UNCHANGED <<replyVars, fileVars, splitVars, callVars>>

\* py_dec_into_buffer: fill the handler's buffer from one buffer of the chain.
FillBuffer ==
  /\ pc = "fill"
  /\ \E n \in 1 .. buf_left :
       /\ data_count' = data_count - n
       /\ need_size' = need_size - n
       /\ buf_left' = buf_left - n
  /\ IF buf_left' > 0
       THEN pc' = "select" /\ UNCHANGED <<receiving_data, handler_state>>
       ELSE /\ pc' = "receive"
            /\ receiving_data' = FALSE
            /\ handler_state' = handler_state + 1
  /\ UNCHANGED <<replyVars, fileVars, split_state, target, aborted, more_recv,
                 phase, count>>

\* getlog's receive(), state 1: is there anything, will there be?
Avail == IF data_count > BlockSize THEN BlockSize ELSE data_count

BeginReceive ==
  /\ pc = "receive"
  /\ phase = 1 /\ handler_state = 1
  /\ data_count > 0
  /\ target' = Avail
  /\ buf_left' = Avail                               \* begin_recv(buf, False)
  /\ need_size' = Avail
  /\ receiving_data' = TRUE
  /\ handler_state' = 2
  /\ pc' = "fill"
  /\ UNCHANGED <<replyVars, fileVars, split_state, aborted, more_recv,
                 data_count, phase, count>>

ReceiveAgain ==
  /\ pc = "receive"
  /\ phase = 1 /\ handler_state = 1
  /\ data_count = 0 /\ more_recv
  /\ need_size' = UINT_MAX                           \* will_recv_all()
  /\ pc' = "select"
  /\ UNCHANGED <<replyVars, fileVars, splitVars, aborted, more_recv, data_count,
                 phase, count>>

ReceiveDone ==
  /\ pc = "receive"
  /\ phase = 1 /\ handler_state = 1
  /\ data_count = 0 /\ ~more_recv
  /\ need_size' = 0
  /\ phase' = 2
  /\ pc' = "finish"
  /\ UNCHANGED <<replyVars, fileVars, splitVars, aborted, more_recv, data_count,
                 count>>

\* getlog's receive(), state 3: write what the buffer holds.
OutputBuffer ==
  /\ pc = "receive"
  /\ phase = 1 /\ handler_state = 3
  /\ output' = output + target
  /\ target' = 0
  /\ handler_state' = 1
  /\ pc' = "select"
  /\ UNCHANGED <<log_size, arrived, fileVars, split_state, receiving_data,
                 buf_left, callVars>>

\* The decoder returned 0: the call is complete if the reply has ended.
Finish ==
  /\ pc = "finish"
  /\ data_count' = 0                                 \* rxgen_dec_discard_excess
  /\ pc' = "poll"
  /\ UNCHANGED <<replyVars, fileVars, splitVars, aborted, more_recv, need_size,
                 phase, count>>

\* rxrpc_run_sync_call returns.
ReturnCall ==
  /\ pc = "poll"
  /\ ~more_recv
  /\ pc' = IF aborted THEN "failed" ELSE "ok"
  /\ UNCHANGED <<replyVars, fileVars, splitVars, callVars>>

-----------------------------------------------------------------------------
Transmit == TransmitNone \/ SendBlock \/ SendRefused \/ TransmitDone

Arrive == \E len \in 0 .. log_size - arrived, last \in BOOLEAN :
            ReceiveData(len, last)

Receive ==
  \/ WaitForData \/ CallDecoder \/ ReceiveInit \/ ReceiveRaises
  \/ SelectPhase \/ CheckPhase \/ FillBuffer
  \/ BeginReceive \/ ReceiveAgain \/ ReceiveDone \/ OutputBuffer
  \/ Finish \/ ReturnCall

Next == Transmit \/ ReceiveAbort \/ Arrive \/ Receive

Spec == Init /\ [][Next]_vars

\* The client's thread runs on and the kernel delivers the reply.
FairSpec == Spec /\ WF_vars(Transmit \/ Receive) /\ WF_vars(Arrive)

-----------------------------------------------------------------------------
(* Properties. *)

\* begin_recv() asks for no more than has arrived: while the handler's buffer is
\* being filled what it still lacks is there, and need_size says how much.
BufferCanBeFilled ==
  receiving_data => buf_left <= data_count /\ need_size = buf_left

\* A call that succeeds has written the whole log, or sent the whole file, and
\* the request was not ended before the file was.
WholeTransfer ==
  /\ pc = "ok" => handler = "getlog" /\ output = log_size
  /\ split_state = "idle" /\ handler = "install" => pos = file_size

\* The assertion of py_rxgen_split_transmit, that a handler which reports success
\* has ended its request, fails only for the upload of an empty file.
OnlyEmptyFileDies == pc = "dead" => file_size = 0

\* The call is over.
Over == pc \in {"ok", "failed", "dead"}

\* The reply ended with a message that held no data, while all there is was wanted.
NothingToSettleFor ==
  need_size = UINT_MAX /\ data_count = 0 /\ ~more_recv /\ ~aborted

\* The call ends however the log is divided into messages and wherever the server
\* aborts, but for one case: the reply, or what is left of it, ends with nothing.
CallEnds == <>(Over \/ NothingToSettleFor)

\* It ends in that case too: a split mode call "wants everything as it comes in,
\* and is willing to settle for nothing also".  Violated: rxrpc_recv_data calls
\* the decoder, which says that it wants more, and is called again, for ever.
SettlesForNothing == <>Over
=============================================================================
