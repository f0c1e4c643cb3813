---------------------------- MODULE RxRecvProofs ----------------------------
(***************************************************************************)
(* What holds of RxRecv for every decoder, every reply and every buffer    *)
(* size, provided what recvmsg() returns ends between words.               *)
(*                                                                         *)
(* The argument: then the chain is a sequence of whole words, so an item   *)
(* is cut only where a buffer or the data ends, data_cursor never passes   *)
(* data_stop, and wherever the decoder stands it is at a place the layout  *)
(* of the reply determines: phase, item and word.                          *)
(***************************************************************************)
EXTENDS RxRecv, WellFoundedInduction, TLAPS

Whole(n) == n % WordSize = 0

\* Messages and replies are made of whole words.
WholeWords ==
  /\ \A c \in Chunks : Whole(c)
  /\ \A s \in Slack : Whole(s)

\* b is a whole number of buffers after a.
Behind(a, b) == \E q \in Nat : b = a + q * BufSize

\* The pcs of a decoder inside an item, and those at which it is between items
\* or has returned for want of data.
ItemPcs == {"word", "blob", "advance"}
IdlePcs == {"select", "check", "switch", "poll"}
DecoderPcs == ItemPcs \cup {"select", "enter", "check", "string"}

Form(k) == phases[k].form
InStringPhase == pc # "enter" /\ cur \in 1 .. N /\ InString
Soaking == InStringPhase /\ soaking

\* The counters and the chain agree, and the chain is made of whole words.
ChainInv ==
  /\ data_count = received - data_start
  /\ data_start <= data_cursor /\ data_cursor <= data_stop
  /\ head_base <= data_start
  /\ data_stop <= DataEnd(head_base)
  /\ received \in tail_base .. tail_base + BufSize
  /\ head_base # tail_base => received > tail_base
  /\ received <= reply_len
  /\ count \in 0 .. received

WordsInv ==
  /\ Behind(head_base, tail_base)
  /\ Whole(head_base) /\ Whole(tail_base) /\ Whole(received) /\ Whole(reply_len)
  /\ Whole(data_start) /\ Whole(data_stop)

\* Where the cursor may stand inside a word.
CursorInv ==
  /\ ~Soaking => Whole(data_cursor)
  /\ Soaking => Whole(data_cursor + blob_left) /\ blob_left = PaddingSize
  /\ InStringPhase /\ ~soaking => Whole(data_cursor + blob_left - bulk_count)
  /\ InStringPhase => blob_left > 0 /\ bulk_count > 0
  /\ pc = "advance" => data_cursor = data_stop
  /\ pc = "blob" => blob_left = WordSize
  /\ pc = "advance" /\ ~InString => blob_left = WordSize /\ data_start = data_cursor

\* Which state of the call goes with which place in the code.
ControlInv ==
  /\ pc \in DecoderPcs => state = "decoding_response"
  /\ pc = "decoded" => state = "wait_for_no_MSG_MORE"
  /\ IF pc = "enter" THEN phase < cur ELSE phase = cur \/ state = "locally_aborted"
  /\ pc \in DecoderPcs \ {"enter"} => cur \in 1 .. N
  /\ pc \in {"word", "blob"} => ~InString
  /\ pc = "string" => InString
  /\ Decoding => phase <= N
  /\ state \in {"wait_for_no_MSG_MORE", "complete"} => phase = N + 1
  /\ verdict = "pending" <=> pc \notin {"return", "done"}
  /\ pc # "astray"  \/ verdict = "pending"
  /\ pc # "done" /\ ~known_to_kernel => ~more_recv \/ state = "locally_aborted"
  /\ pc = "poll" /\ ~more_recv => state \in Aborted \cup {"complete"}
  /\ ~more_recv => received = reply_len \/ state \in Aborted
  /\ state = "locally_aborted" => ~known_to_kernel

\* How the call is settled.
VerdictInv ==
  /\ state \notin Aborted => error_code = "none"
  /\ state = "complete" => ~more_recv /\ data_cursor = received
  /\ verdict = "ok" => state = "complete" /\ ~known_to_kernel
  /\ pc = "done" => ~known_to_kernel
  /\ error_code = "ENODATA" =>
       /\ state = "locally_aborted" /\ ~more_recv /\ ~known_to_kernel
       /\ received = reply_len
       /\ verdict # "ok"

\* What the decoder knows of the item it is at.
ItemInv ==
  /\ pc \in ItemPcs \cup {"string"} => count >= Words(cur) * WordSize
  /\ pc \in {"blob", "advance"} /\ ~InString => words_left > 0
  /\ pc \in ItemPcs \cup IdlePcs /\ cur \in 1 .. N /\ Form(cur) = "bulk" =>
       bulk_index < bulk_count
  /\ pc \in {"switch", "poll"} /\ Decoding =>
       need_size = IF cur = 0 THEN 0 ELSE Words(cur) * WordSize
  /\ pc # "enter" /\ cur \in 1 .. N => Form(cur) # "opaque"

\* Where the decoder is in the reply.
L(k) == Layout(sizes)[k]

AtEntry ==
  /\ cur = 0 => data_cursor = 0
  /\ pc = "enter" => /\ data_cursor = L(cur)
                     /\ Counted(cur) => bulk_count = sizes[cur]

AtFlat ==
  cur \in 1 .. N /\ Form(cur) = "flat" =>
    /\ pc \in ItemPcs => data_cursor + words_left * WordSize = L(cur + 1)
    /\ pc \in IdlePcs => data_cursor = L(cur)

ItemBytes == Words(cur) * WordSize

AtBulk ==
  cur \in 1 .. N /\ Form(cur) = "bulk" /\ pc \in ItemPcs \cup IdlePcs =>
    /\ bulk_count = sizes[cur]
    /\ pc \in ItemPcs =>
         data_cursor + words_left * WordSize
           = L(cur) + bulk_index * ItemBytes + ItemBytes
    /\ pc \in IdlePcs => data_cursor = L(cur) + bulk_index * ItemBytes

AtString ==
  InStringPhase =>
    /\ bulk_count = sizes[cur]
    /\ data_cursor + blob_left
         = IF soaking THEN L(cur + 1) ELSE L(cur) + bulk_count

OnTrack == Decoding => AtEntry /\ AtFlat /\ AtBulk /\ AtString

\* What the layout says of a call that is decoded, or given up on.
Outcome ==
  /\ state \in {"wait_for_no_MSG_MORE", "complete"} => L(N + 1) <= received
  /\ error_code = "ENODATA" => received < L(N + 1)

TrackInv == KeepsPlace => OnTrack /\ Outcome

Inv ==
  /\ TypeOK /\ ChainInv /\ WordsInv /\ CursorInv /\ ControlInv /\ VerdictInv
  /\ ItemInv /\ TrackInv /\ DeathsExplained

-----------------------------------------------------------------------------
(* Numbers of whole words, and whole numbers of buffers. *)

\* Whole numbers of words are the multiples of WordSize ...
LEMMA WholeQuotient ==
  ASSUME NEW n \in Int PROVE Whole(n) <=> \E q \in Int : n = q * WordSize
<1>1. /\ n \div WordSize \in Int
      /\ n = ((n \div WordSize) * WordSize) + (n % WordSize)
  BY SizesAssumption
<1>2. ASSUME NEW q \in Int, n = q * WordSize PROVE n % WordSize = 0
  BY <1>2, SizesAssumption
<1>3. ASSUME n % WordSize = 0 PROVE n = (n \div WordSize) * WordSize
  <2>1. (n \div WordSize) * WordSize \in Int
    BY <1>1, SizesAssumption
  <2> QED
    BY <2>1, <1>1, <1>3
<1> QED
  BY <1>1, <1>2, <1>3 DEF Whole

\* ... and products with WordSize are some.
LEMMA WholeTimes == ASSUME NEW k \in Int PROVE Whole(k * WordSize)
BY SizesAssumption DEF Whole

\* Sums and differences of whole numbers of words are such.
LEMMA WholeSum ==
  ASSUME NEW a \in Int, NEW b \in Int, Whole(a), Whole(b)
  PROVE  Whole(a + b) /\ Whole(a - b)
<1>1. PICK p \in Int : a = p * WordSize
  BY WholeQuotient
<1>2. PICK q \in Int : b = q * WordSize
  BY WholeQuotient
<1>3. a + b = (p + q) * WordSize /\ a - b = (p - q) * WordSize
  BY <1>1, <1>2, SizesAssumption
<1>4. p + q \in Int /\ p - q \in Int
  OBVIOUS
<1> QED
  BY <1>3, <1>4, WholeQuotient

\* Two of them that differ do so by a word at least.
LEMMA WholeApart ==
  ASSUME NEW a \in Int, NEW b \in Int, Whole(a), Whole(b), a < b
  PROVE  a + WordSize <= b
<1>1. PICK p \in Int : a = p * WordSize
  BY WholeQuotient
<1>2. PICK q \in Int : b = q * WordSize
  BY WholeQuotient
<1>3. p < q
  <2> SUFFICES ASSUME q <= p PROVE FALSE
    OBVIOUS
  <2>1. (p - q) * WordSize \in Nat
    <3>1. p - q \in Nat
      OBVIOUS
    <3> QED
      BY <3>1, SizesAssumption
  <2>2. (p - q) * WordSize = p * WordSize - q * WordSize
    BY SizesAssumption
  <2> QED
    BY <2>1, <2>2, <1>1, <1>2
<1>4. (q - p - 1) * WordSize \in Nat
  <2>1. q - p - 1 \in Nat
    BY <1>3
  <2> QED
    BY <2>1, SizesAssumption
<1>5. (q - p - 1) * WordSize = q * WordSize - p * WordSize - WordSize
  BY SizesAssumption
<1> QED
  BY <1>1, <1>2, <1>4, <1>5, SizesAssumption

\* Zero, a word and a buffer are whole numbers of words.
LEMMA WholeUnits == Whole(0) /\ Whole(WordSize) /\ Whole(BufSize)
<1>1. 0 = 0 * WordSize /\ WordSize = 1 * WordSize
  BY SizesAssumption
<1> QED
  BY <1>1, WholeTimes, SizesAssumption DEF Whole

\* What py_dec_into_string takes for the padding of a string brings it to the
\* end of a word, if not of the word the string ends in.
LEMMA PaddingIsWhole ==
  ASSUME NEW n \in Nat
  PROVE  /\ WordSize - (n % WordSize) \in 1 .. WordSize
         /\ Whole(n + (WordSize - (n % WordSize)))
         /\ RoundUp(n) \in Nat /\ n <= RoundUp(n) /\ Whole(RoundUp(n))
         /\ n % WordSize # 0 => RoundUp(n) = n + (WordSize - (n % WordSize))
<1>1. /\ n \div WordSize \in Int
      /\ n = ((n \div WordSize) * WordSize) + (n % WordSize)
      /\ n % WordSize \in 0 .. WordSize - 1
  BY SizesAssumption
<1> DEFINE q == n \div WordSize
           r == n % WordSize
<1>2. q * WordSize \in Int /\ (q + 1) * WordSize = q * WordSize + WordSize
  BY <1>1, SizesAssumption
<1>3. n + (WordSize - r) = (q + 1) * WordSize
  BY <1>1, <1>2, SizesAssumption
<1>4. Whole(n + (WordSize - r))
  BY <1>1, <1>3, WholeTimes
<1>5. CASE r = 0
  <2>1. -n = (-q) * WordSize
    BY <1>1, <1>2, <1>5, SizesAssumption
  <2>2. (-n) % WordSize = 0
    BY <2>1, <1>1, WholeTimes DEF Whole
  <2>3. RoundUp(n) = n
    BY <2>2 DEF RoundUp
  <2> QED
    BY <2>3, <1>1, <1>4, <1>5, SizesAssumption DEF Whole
<1>6. CASE r # 0
  <2>1. (-(q + 1)) * WordSize = -((q + 1) * WordSize)
    BY <1>1, SizesAssumption
  <2>2. -n = ((-(q + 1)) * WordSize) + (WordSize - r)
    BY <2>1, <1>1, <1>2, <1>3, SizesAssumption
  <2>3. WordSize - r \in 0 .. WordSize - 1
    BY <1>1, <1>6, SizesAssumption
  <2>4. \A m \in Int, k \in 0 .. WordSize - 1 : ((m * WordSize) + k) % WordSize = k
    BY SizesAssumption
  <2>5. -(q + 1) \in Int
    BY <1>1
  <2>6. (-n) % WordSize = WordSize - r
    BY <2>2, <2>3, <2>4, <2>5
  <2> QED
    BY <2>6, <2>3, <1>1, <1>4, <1>6, SizesAssumption DEF RoundUp
<1> QED
  BY <1>5, <1>6

\* A buffer chained behind others is whole buffers behind the first of them ...
LEMMA BehindMore ==
  ASSUME NEW a \in Nat, NEW b \in Nat, Behind(a, b), NEW n \in Nat
  PROVE  Behind(a, b + n * BufSize) /\ n * BufSize \in Nat /\ Whole(n * BufSize)
<1>1. PICK q \in Nat : b = a + q * BufSize
  BY DEF Behind
<1>2. /\ q + n \in Nat /\ q * BufSize \in Nat /\ n * BufSize \in Nat
      /\ (q + n) * BufSize = q * BufSize + n * BufSize
  BY SizesAssumption
<1>3. Behind(a, b + n * BufSize)
  BY <1>1, <1>2 DEF Behind
<1>4. PICK w \in Int : BufSize = w * WordSize
  BY SizesAssumption, WholeQuotient DEF Whole
<1>5. n * w \in Int /\ n * BufSize = (n * w) * WordSize
  BY <1>4, SizesAssumption
<1> QED
  BY <1>2, <1>3, <1>5, WholeTimes

\* ... and one buffer behind it at least, if it is another.
LEMMA BehindApart ==
  ASSUME NEW a \in Nat, NEW b \in Nat, Behind(a, b)
  PROVE  /\ a <= b
         /\ a # b => a + BufSize <= b /\ Behind(a + BufSize, b)
<1>1. PICK q \in Nat : b = a + q * BufSize
  BY DEF Behind
<1>2. q * BufSize \in Nat /\ 0 * BufSize = 0
  BY SizesAssumption
<1>3. CASE q = 0
  BY <1>1, <1>2, <1>3
<1>4. CASE q # 0
  <2>1. PICK p \in Nat : q = p + 1
    <3>1. q - 1 \in Nat /\ q = (q - 1) + 1
      BY <1>4
    <3> QED
      BY <3>1
  <2>2. p * BufSize \in Nat /\ (p + 1) * BufSize = p * BufSize + BufSize
    BY SizesAssumption
  <2>3. b = (a + BufSize) + p * BufSize
    BY <1>1, <2>1, <2>2, SizesAssumption
  <2>4. Behind(a + BufSize, b)
    BY <2>3 DEF Behind
  <2> QED
    BY <2>2, <2>3, <2>4, SizesAssumption
<1> QED
  BY <1>3, <1>4

\* A buffer is behind itself.
LEMMA BehindSelf == ASSUME NEW a \in Nat PROVE Behind(a, a)
<1>1. 0 \in Nat /\ a = a + 0 * BufSize
  BY SizesAssumption
<1> QED
  BY <1>1 DEF Behind

-----------------------------------------------------------------------------
(* The layout of a reply.  Layout is defined by recursion, so what it is has *)
(* to be shown by induction, on sets of numbers here: the least number that  *)
(* is not in such a set has a predecessor that is.                           *)

Less == OpToRel(<, Nat)

\* A set of numbers that is not empty has a least member.
LEMMA LeastMember ==
  \A T \in SUBSET Nat : T # {} => \E x \in T : \A y \in T : ~ (<<y, x>> \in Less)
BY NatLessThanWellFounded, WFMin DEF Less

\* Less is the order of the natural numbers.
LEMMA LessHolds == \A x, y \in Nat : x < y => <<x, y>> \in Less
BY DEF OpToRel, Less

\* A set of numbers with 0 in it, and with each number the next, has them all.
LEMMA Induction ==
  ASSUME NEW S, 0 \in S, \A n \in Nat : n \in S => n + 1 \in S
  PROVE  Nat \subseteq S
<1> SUFFICES ASSUME ~(Nat \subseteq S) PROVE FALSE
  OBVIOUS
<1>1. PICK x \in Nat \ S : \A y \in Nat \ S : ~ (<<y, x>> \in Less)
  <2>1. (Nat \ S) \in SUBSET Nat /\ (Nat \ S) # {}
    OBVIOUS
  <2> QED
    BY LeastMember, <2>1
<1>2. \A y \in Nat \ S : ~ (y < x)
  BY LessHolds, <1>1
<1>3. x # 0 /\ x - 1 \in Nat /\ x - 1 < x /\ x - 1 + 1 = x
  BY <1>1
<1>4. x - 1 \in S
  BY <1>2, <1>3
<1> QED
  BY <1>1, <1>3, <1>4

\* Lengths can be added up: there is a function that begins with 0 and goes on
\* from each number to the next by the length in between.
LEMMA RunningTotal ==
  ASSUME NEW m \in Nat, NEW P \in [1 .. m -> Nat]
  PROVE  \E f : f = [k \in 1 .. m + 1 |-> IF k = 1 THEN 0 ELSE f[k - 1] + P[k - 1]]
<1> DEFINE Total(n, f) ==
             f = [k \in 1 .. n + 1 |-> IF k = 1 THEN 0 ELSE f[k - 1] + P[k - 1]]
           S == {n \in Nat : n <= m => \E f : Total(n, f)}
<1>1. 0 \in S
  <2>1. Total(0, [k \in 1 .. 1 |-> 0])
    OBVIOUS
  <2> QED
    BY <2>1
<1>2. ASSUME NEW n \in Nat, n \in S PROVE n + 1 \in S
  <2> SUFFICES ASSUME n + 1 <= m PROVE \E f : Total(n + 1, f)
    OBVIOUS
  <2>1. PICK f : Total(n, f)
    BY <1>2
  <2> DEFINE g == [k \in 1 .. n + 2 |-> IF k = n + 2 THEN f[n + 1] + P[n + 1] ELSE f[k]]
  <2>2. \A k \in 1 .. n + 1 : g[k] = f[k]
    OBVIOUS
  <2>3. \A k \in 1 .. n + 1 : f[k] = IF k = 1 THEN 0 ELSE f[k - 1] + P[k - 1]
    BY <2>1
  <2>4. ASSUME NEW k \in 1 .. n + 2
        PROVE  g[k] = IF k = 1 THEN 0 ELSE g[k - 1] + P[k - 1]
    <3>1. CASE k = n + 2
      <4>1. k - 1 = n + 1 /\ k # 1 /\ n + 1 \in 1 .. n + 1
        BY <3>1
      <4>2. g[k] = f[n + 1] + P[n + 1] /\ g[k - 1] = f[n + 1]
        BY <4>1, <3>1, <2>2
      <4> QED
        BY <4>1, <4>2
    <3>2. CASE k # n + 2
      <4>1. k \in 1 .. n + 1 /\ (k # 1 => k - 1 \in 1 .. n + 1)
        BY <3>2
      <4> QED
        BY <4>1, <2>2, <2>3
    <3> QED
      BY <3>1, <3>2
  <2> HIDE DEF g
  <2>5. g = [k \in 1 .. n + 2 |-> g[k]]
    BY DEF g
  <2>6. g = [k \in 1 .. n + 2 |-> IF k = 1 THEN 0 ELSE g[k - 1] + P[k - 1]]
    BY <2>4, <2>5
  <2>7. n + 1 + 1 = n + 2
    OBVIOUS
  <2>8. Total(n + 1, g)
    BY <2>6, <2>7
  <2> QED
    BY <2>8
<1> HIDE DEF S
<1>3. m \in S
  BY <1>1, <1>2, Induction
<1> QED
  BY <1>3 DEF S

\* The part of the type invariant that is about the reply.
ReplyOK == phases \in Decoders /\ sizes \in [1 .. N -> 0 .. MaxItems]

\* What a decoder is: its phases, and what is counted before them.
LEMMA DecoderShape ==
  ASSUME ReplyOK
  PROVE  /\ N \in Nat
         /\ \A k \in 1 .. N : /\ Form(k) \in {"flat", "bulk", "string", "opaque"}
                              /\ Words(k) \in Nat \ {0}
                              /\ sizes[k] \in 0 .. MaxItems
                              /\ Counted(k) => k > 1 /\ Form(k - 1) = "flat"
                              /\ Form(k) = "string" => Words(k) = 1
         /\ \A k \in Int : Counted(k) => ~ Counted(k + 1)
<1>1. /\ phases \in Seq([form : {"flat", "bulk", "string", "opaque"}, words : Nat \ {0}])
      /\ \A k \in DOMAIN phases :
           phases[k].form # "flat" => k > 1 /\ phases[k - 1].form = "flat"
      /\ \A k \in DOMAIN phases : phases[k].form \in {"string", "opaque"} => phases[k].words = 1
      /\ sizes \in [1 .. N -> 0 .. MaxItems]
  BY DecodersAssumption DEF ReplyOK
<1>2. N \in Nat /\ DOMAIN phases = 1 .. N
  BY <1>1 DEF N
<1>3. ASSUME NEW k \in 1 .. N
      PROVE  /\ Form(k) \in {"flat", "bulk", "string", "opaque"} /\ Words(k) \in Nat \ {0}
             /\ sizes[k] \in 0 .. MaxItems
  <2>1. \A S : \A s \in Seq(S) : \A j \in 1 .. Len(s) : s[j] \in S
    OBVIOUS
  <2>2. phases[k] \in [form : {"flat", "bulk", "string", "opaque"}, words : Nat \ {0}]
    BY <1>1, <2>1 DEF N
  <2> QED
    BY <1>1, <2>2 DEF Form, Words
<1>4. ASSUME NEW k \in 1 .. N
      PROVE  /\ Counted(k) => k > 1 /\ Form(k - 1) = "flat"
             /\ Form(k) = "string" => Words(k) = 1
  BY <1>1, <1>2 DEF Form, Words, Counted
<1>5. ASSUME NEW k \in Int, Counted(k) PROVE ~ Counted(k + 1)
  <2>1. ASSUME Counted(k + 1) PROVE Form((k + 1) - 1) = "flat"
    <3>1. k + 1 \in 1 .. N
      BY <2>1 DEF Counted
    <3> QED
      BY <2>1, <3>1, <1>4
  <2> QED
    BY <1>5, <2>1 DEF Counted, Form
<1> QED
  BY <1>2, <1>3, <1>4, <1>5

\* A phase takes a whole number of words of the reply.
LEMMA PhaseIsWhole ==
  ASSUME ReplyOK, NEW k \in 1 .. N
  PROVE  /\ PhaseBytes(k, sizes) \in Nat
         /\ Whole(PhaseBytes(k, sizes))
<1>1. Words(k) \in Nat /\ sizes[k] \in Nat
  BY DecoderShape, BoundsAssumption
<1>2. CASE Form(k) = "flat"
  <2>1. PhaseBytes(k, sizes) = Words(k) * WordSize
    BY <1>2 DEF PhaseBytes, Form
  <2> QED
    BY <1>1, <2>1, WholeTimes, SizesAssumption
<1>3. CASE Form(k) = "bulk"
  <2>1. PhaseBytes(k, sizes) = sizes[k] * Words(k) * WordSize
    BY <1>3 DEF PhaseBytes, Form
  <2>2. sizes[k] * Words(k) \in Nat
    BY <1>1
  <2>3. Whole((sizes[k] * Words(k)) * WordSize)
    BY <2>2, WholeTimes
  <2> QED
    BY <2>1, <2>2, <2>3, SizesAssumption
<1>4. CASE Form(k) \in {"string", "opaque"}
  <2>1. PhaseBytes(k, sizes) = RoundUp(sizes[k])
    BY <1>4 DEF PhaseBytes, Form
  <2> QED
    BY <1>1, <2>1, PaddingIsWhole
<1> QED
  BY <1>2, <1>3, <1>4, DecoderShape

\* The layout begins with 0 and adds phase to phase.
LEMMA LayoutSteps ==
  ASSUME ReplyOK
  PROVE  L(1) = 0 /\ \A k \in 1 .. N : L(k + 1) = L(k) + PhaseBytes(k, sizes)
<1> DEFINE P == [k \in 1 .. N |-> PhaseBytes(k, sizes)]
           Sum(f) == f = [k \in 1 .. N + 1 |->
                            IF k = 1 THEN 0 ELSE f[k - 1] + PhaseBytes(k - 1, sizes)]
<1>1. N \in Nat
  BY DecoderShape
<1>2. P \in [1 .. N -> Nat]
  BY PhaseIsWhole
<1>3. PICK f : f = [k \in 1 .. N + 1 |-> IF k = 1 THEN 0 ELSE f[k - 1] + P[k - 1]]
  BY <1>1, <1>2, RunningTotal
<1>4. \A k \in 1 .. N + 1 : k # 1 => P[k - 1] = PhaseBytes(k - 1, sizes)
  BY <1>1
<1>5. \E g : Sum(g)
  <2>1. [k \in 1 .. N + 1 |-> IF k = 1 THEN 0 ELSE f[k - 1] + P[k - 1]]
          = [k \in 1 .. N + 1 |->
               IF k = 1 THEN 0 ELSE f[k - 1] + PhaseBytes(k - 1, sizes)]
    BY <1>4
  <2> QED
    BY <1>3, <2>1
<1>6. Sum(Layout(sizes))
  <2>1. Layout(sizes) = CHOOSE g : Sum(g)
    BY DEF Layout
  <2> HIDE DEF Sum
  <2> QED
    BY <1>5, <2>1
<1>7. 1 \in 1 .. N + 1 /\ \A k \in 1 .. N : k + 1 \in 1 .. N + 1 /\ k + 1 # 1
  BY <1>1
<1>8. \A k \in 1 .. N + 1 :
        L(k) = IF k = 1 THEN 0 ELSE L(k - 1) + PhaseBytes(k - 1, sizes)
  BY <1>6 DEF L
<1>9. \A k \in 1 .. N : (k + 1) - 1 = k
  BY <1>1
<1> QED
  BY <1>7, <1>8, <1>9

\* Every phase begins a whole number of words into the reply, and none of them
\* after its end.
LEMMA LayoutBounds ==
  ASSUME ReplyOK
  PROVE  \A k \in 1 .. N + 1 : L(k) \in Nat /\ Whole(L(k)) /\ L(k) <= L(N + 1)
<1> DEFINE Up == {n \in Nat : n + 1 <= N + 1 => L(n + 1) \in Nat /\ Whole(L(n + 1))}
           Down == {n \in Nat : n <= N => L((N + 1) - n) <= L(N + 1)}
<1>1. N \in Nat
  BY DecoderShape
<1>2. Nat \subseteq Up
  <2>1. 0 \in Up
    BY LayoutSteps, WholeUnits
  <2>2. ASSUME NEW n \in Nat, n \in Up PROVE n + 1 \in Up
    <3> SUFFICES ASSUME n + 2 <= N + 1 PROVE L(n + 2) \in Nat /\ Whole(L(n + 2))
      BY <1>1
    <3>1. L(n + 1) \in Nat /\ Whole(L(n + 1))
      BY <1>1, <2>2
    <3>2. n + 1 \in 1 .. N /\ (n + 1) + 1 = n + 2
      BY <1>1
    <3>3. L(n + 2) = L(n + 1) + PhaseBytes(n + 1, sizes)
      BY <3>2, LayoutSteps
    <3>4. PhaseBytes(n + 1, sizes) \in Nat /\ Whole(PhaseBytes(n + 1, sizes))
      BY <3>2, PhaseIsWhole
    <3>5. Whole(L(n + 1) + PhaseBytes(n + 1, sizes))
      BY <3>1, <3>4, WholeSum
    <3> QED
      BY <3>1, <3>3, <3>4, <3>5
  <2> HIDE DEF Up
  <2> QED
    BY <2>1, <2>2, Induction
<1>3. ASSUME NEW k \in 1 .. N + 1 PROVE L(k) \in Nat /\ Whole(L(k))
  <2>1. k - 1 \in Nat /\ (k - 1) + 1 = k
    BY <1>1
  <2>2. k - 1 \in Up
    BY <1>2, <2>1
  <2> QED
    BY <2>1, <2>2, <1>1
<1>4. Nat \subseteq Down
  <2>1. 0 \in Down
    BY <1>1, <1>3
  <2>2. ASSUME NEW n \in Nat, n \in Down PROVE n + 1 \in Down
    <3> SUFFICES ASSUME n + 1 <= N PROVE L((N + 1) - (n + 1)) <= L(N + 1)
      BY <1>1
    <3> DEFINE k == (N + 1) - (n + 1)
    <3>1. k \in 1 .. N /\ k + 1 = (N + 1) - n /\ k + 1 \in 1 .. N + 1 /\ k \in 1 .. N + 1
      BY <1>1
    <3>2. L(k + 1) <= L(N + 1)
      BY <1>1, <2>2, <3>1
    <3> HIDE DEF k
    <3>3. L(k + 1) = L(k) + PhaseBytes(k, sizes) /\ PhaseBytes(k, sizes) \in Nat
      BY <3>1, LayoutSteps, PhaseIsWhole
    <3>4. L(k) \in Nat /\ L(k + 1) \in Nat /\ L(N + 1) \in Nat
      BY <1>1, <1>3, <3>1
    <3> QED
      BY <3>2, <3>3, <3>4 DEF k
  <2> HIDE DEF Down
  <2> QED
    BY <2>1, <2>2, Induction
<1>5. ASSUME NEW k \in 1 .. N + 1 PROVE L(k) <= L(N + 1)
  <2>1. (N + 1) - k \in Nat /\ (N + 1) - k <= N /\ (N + 1) - ((N + 1) - k) = k
    BY <1>1
  <2>2. (N + 1) - k \in Down
    BY <1>4, <2>1
  <2> QED
    BY <2>1, <2>2
<1> QED
  BY <1>3, <1>5

\* No step of the call changes the reply or its layout.
LEMMA ReplyKept ==
  ASSUME UNCHANGED replyVars
  PROVE  /\ phases' = phases /\ sizes' = sizes /\ reply_len' = reply_len
         /\ N' = N /\ Layout(sizes)' = Layout(sizes)
         /\ KeepsPlace' = KeepsPlace
BY DEF replyVars, N, Words, Layout, PhaseBytes, RoundUp, KeepsPlace

\* What chaining what recvmsg() brought does to the chain.
LEMMA Attached ==
  ASSUME Inv, NEW len \in Nat, Whole(len), Attach(len)
  PROVE  /\ received' = received + len /\ received' \in Nat /\ Whole(received')
         /\ data_count' = data_count + len
         /\ tail_base' \in Nat /\ Whole(tail_base') /\ Behind(head_base, tail_base')
         /\ received' \in tail_base' .. tail_base' + BufSize
         /\ \/ tail_base' = tail_base
            \/ tail_base' >= tail_base + BufSize /\ received' > tail_base'
         /\ lost' \in Nat
         /\ len > 0 => lost' = lost
<1>1. /\ received \in Nat /\ tail_base \in Nat /\ head_base \in Nat /\ lost \in Nat
      /\ Whole(received) /\ Whole(tail_base) /\ Behind(head_base, tail_base)
      /\ received \in tail_base .. tail_base + BufSize
  BY DEF Inv, TypeOK, ChainInv, WordsInv
<1>2. Fresh \in Nat /\ BufSize \in Nat \ {0}
  BY SizesAssumption DEF Fresh
<1>3. received' = received + len /\ data_count' = data_count + len
  BY DEF Attach
<1>4. Whole(received')
  BY <1>1, <1>3, WholeSum
<1>5. PICK used \in 0 .. Fresh :
        /\ received' <= tail_base + (used + 1) * BufSize
        /\ used > 0 => received' > tail_base + used * BufSize
        /\ tail_base' = tail_base + used * BufSize
        /\ lost' = lost + Fresh - used - FreedUnused(len, used)
  BY DEF Attach
<1>6. used \in Nat
  BY <1>2
<1>7. /\ used * BufSize \in Nat /\ (used + 1) * BufSize = used * BufSize + BufSize
      /\ used # 0 => used * BufSize >= BufSize
      /\ used = 0 => used * BufSize = 0
  BY <1>2, <1>6
<1>8. Whole(tail_base') /\ Behind(head_base, tail_base')
  <2>1. Behind(head_base, tail_base + used * BufSize) /\ Whole(used * BufSize)
    BY <1>1, <1>6, BehindMore
  <2> QED
    BY <2>1, <1>1, <1>5, <1>7, WholeSum
<1>9. lost' \in Nat /\ (len > 0 => lost' = lost)
  BY <1>1, <1>2, <1>5 DEF FreedUnused
<1> QED
  BY <1>1, <1>2, <1>3, <1>4, <1>5, <1>6, <1>7, <1>8, <1>9

\* What it leaves true of the chain, if there was that much to come.
LEMMA AttachedChain ==
  ASSUME Inv, NEW len \in Nat, Whole(len), Attach(len), received + len <= reply_len,
         UNCHANGED <<head_base, data_start, data_cursor, data_stop, count, reply_len>>
  PROVE  ChainInv' /\ WordsInv'
<1>1. /\ head_base \in Nat /\ tail_base \in Nat /\ received \in Nat /\ BufSize \in Nat
      /\ data_start \in Nat /\ data_cursor \in Nat /\ data_stop \in Nat
      /\ reply_len \in Nat /\ count \in Int /\ data_count \in Int
  BY SizesAssumption DEF Inv, TypeOK
<1>2. ChainInv /\ WordsInv
  BY DEF Inv
<1>3. head_base <= tail_base /\ (head_base # tail_base => head_base + BufSize <= tail_base)
  BY <1>1, <1>2, BehindApart DEF WordsInv
<1>4. data_stop <= DataEnd(head_base)'
  BY <1>1, <1>2, <1>3, Attached DEF ChainInv, DataEnd
<1>5. ChainInv'
  BY <1>1, <1>2, <1>3, <1>4, Attached DEF ChainInv, DataEnd
<1>6. WordsInv'
  BY <1>2, Attached DEF WordsInv
<1> QED
  BY <1>5, <1>6

\* Multiples of a size.
LEMMA Multiples ==
  ASSUME NEW i \in Nat, NEW b \in Nat
  PROVE  /\ 0 * b = 0 /\ i * b \in Nat /\ (i + 1) * b = i * b + b
         /\ \A n \in Nat : i < n => i * b + b <= n * b
<1>1. 0 * b = 0 /\ i * b \in Nat /\ (i + 1) * b = i * b + b
  OBVIOUS
<1>2. ASSUME NEW n \in Nat, i < n PROVE i * b + b <= n * b
  <2>1. n - (i + 1) \in Nat
    BY <1>2
  <2>2. (n - (i + 1)) * b \in Nat
    BY <2>1
  <2>3. (n - (i + 1)) * b = n * b - (i * b + b)
    BY <1>1
  <2>4. n * b \in Nat
    OBVIOUS
  <2> QED
    BY <1>1, <2>2, <2>3, <2>4
<1> QED
  BY <1>1, <1>2

\* How a phase, and what is before and after it, lies in the reply.
LEMMA LayoutAt ==
  ASSUME ReplyOK, NEW k \in 1 .. N
  PROVE  /\ L(k) \in Nat /\ L(k + 1) \in Nat /\ L(N + 1) \in Nat
         /\ Whole(L(k)) /\ Whole(L(k + 1))
         /\ L(k) <= L(k + 1) /\ L(k + 1) <= L(N + 1)
         /\ Form(k) = "flat" => L(k + 1) = L(k) + Words(k) * WordSize
         /\ Form(k) = "bulk" =>
              /\ L(k + 1) = L(k) + sizes[k] * (Words(k) * WordSize)
              /\ \A i \in Nat : i < sizes[k] =>
                   L(k) + i * (Words(k) * WordSize) + Words(k) * WordSize <= L(k + 1)
         /\ Form(k) = "string" => L(k + 1) = L(k) + RoundUp(sizes[k])
         /\ Counted(k) /\ sizes[k] = 0 => L(k + 1) = L(k)
<1>1. N \in Nat /\ k + 1 \in 1 .. N + 1 /\ k \in 1 .. N + 1 /\ N + 1 \in 1 .. N + 1
  BY DecoderShape
<1>2. Words(k) \in Nat /\ sizes[k] \in Nat /\ Words(k) * WordSize \in Nat
  <2>1. Words(k) \in Nat /\ sizes[k] \in Nat
    BY DecoderShape, BoundsAssumption
  <2> QED
    BY <2>1, SizesAssumption
<1>3. /\ L(k) \in Nat /\ L(k + 1) \in Nat /\ L(N + 1) \in Nat
      /\ Whole(L(k)) /\ Whole(L(k + 1)) /\ L(k + 1) <= L(N + 1)
  BY <1>1, LayoutBounds
<1>4. L(k + 1) = L(k) + PhaseBytes(k, sizes) /\ PhaseBytes(k, sizes) \in Nat
  BY LayoutSteps, PhaseIsWhole
<1>5. L(k) <= L(k + 1)
  BY <1>3, <1>4
<1>6. CASE Form(k) = "flat"
  <2>1. PhaseBytes(k, sizes) = Words(k) * WordSize
    BY <1>6 DEF PhaseBytes, Form
  <2> QED
    BY <2>1, <1>3, <1>4, <1>5, <1>6 DEF Counted, Form
<1>7. CASE Form(k) = "bulk"
  <2> DEFINE b == Words(k) * WordSize
  <2>1. PhaseBytes(k, sizes) = sizes[k] * Words(k) * WordSize
    BY <1>7 DEF PhaseBytes, Form
  <2>2. sizes[k] * Words(k) * WordSize = sizes[k] * b
    BY <1>2, SizesAssumption
  <2>3. /\ L(k + 1) = L(k) + sizes[k] * b
        /\ b \in Nat /\ sizes[k] * b \in Nat /\ 0 * b = 0
    BY <2>1, <2>2, <1>2, <1>4
  <2> HIDE DEF b
  <2>4. ASSUME NEW i \in Nat, i < sizes[k] PROVE L(k) + i * b + b <= L(k + 1)
    <3>1. i * b + b <= sizes[k] * b /\ i * b \in Nat
      BY <1>2, <2>3, <2>4, Multiples
    <3> QED
      BY <3>1, <2>3, <1>3
  <2>5. sizes[k] = 0 => L(k + 1) = L(k)
    BY <2>3, <1>3
  <2> QED
    BY <2>3, <2>4, <2>5, <1>3, <1>5, <1>7 DEF b
<1>8. CASE Form(k) \in {"string", "opaque"}
  <2>1. PhaseBytes(k, sizes) = RoundUp(sizes[k])
    BY <1>8 DEF PhaseBytes, Form
  <2>2. RoundUp(0) = 0
    <3>1. (-0) % WordSize = 0
      BY WholeUnits DEF Whole
    <3> QED
      BY <3>1 DEF RoundUp
  <2> QED
    BY <2>1, <2>2, <1>3, <1>4, <1>5, <1>8
<1> QED
  BY <1>6, <1>7, <1>8, DecoderShape

\* The facts above, where the decoder is.
LEMMA Standing ==
  ASSUME Inv
  PROVE  /\ ReplyOK
         /\ N \in Nat /\ cur \in 0 .. N + 1 /\ phase \in 0 .. N + 1
         /\ L(1) = 0 /\ L(N + 1) \in Nat /\ WordSize \in Nat \ {0}
         /\ cur \in 1 .. N + 1 => L(cur) \in Nat /\ Whole(L(cur))
         /\ cur \in 1 .. N =>
              /\ cur + 1 \in 1 .. N + 1
              /\ Form(cur) \in {"flat", "bulk", "string", "opaque"}
              /\ pc # "enter" => Form(cur) \in {"flat", "bulk", "string"}
              /\ Words(cur) \in Nat \ {0} /\ ItemBytes \in Nat \ {0}
              /\ WordSize <= ItemBytes
              /\ Form(cur) = "string" => ItemBytes = WordSize
<1>1. ReplyOK /\ cur \in 0 .. N + 1 /\ phase \in 0 .. N + 1
  BY DEF Inv, TypeOK, ReplyOK
<1>2. N \in Nat
  BY <1>1, DecoderShape
<1>3. L(1) = 0 /\ L(N + 1) \in Nat
  BY <1>1, <1>2, LayoutSteps, LayoutBounds
<1>4. ASSUME cur \in 1 .. N
      PROVE  /\ Form(cur) \in {"flat", "bulk", "string", "opaque"}
             /\ pc # "enter" => Form(cur) # "opaque"
             /\ Words(cur) \in Nat \ {0}
             /\ Form(cur) = "string" => Words(cur) = 1
  BY <1>1, <1>4, DecoderShape DEF Inv, ItemInv
<1>5. ASSUME NEW w \in Nat \ {0}
      PROVE w * WordSize \in Nat \ {0} /\ WordSize <= w * WordSize
  <2>1. w - 1 \in Nat
    OBVIOUS
  <2>2. (w - 1) * WordSize \in Nat /\ (w - 1) * WordSize = w * WordSize - WordSize
    BY <2>1, SizesAssumption
  <2> QED
    BY <2>2, SizesAssumption
<1>6. 1 * WordSize = WordSize
  BY SizesAssumption
<1> QED
  BY <1>1, <1>2, <1>3, <1>4, <1>5, <1>6, LayoutBounds, SizesAssumption DEF ItemBytes

\* What the arrival of a message leaves true, whatever it says of the call.
LEMMA Arrived ==
  ASSUME Inv, NEW len \in Nat, Whole(len), received + len <= reply_len, Attach(len),
         known_to_kernel, pc = "poll", pc' = "switch",
         \/ UNCHANGED <<state, error_code>>
         \/ state' \in Aborted /\ error_code' \in {"ECONNABORTED", "ECONNREFUSED",
                                                   "net_error", "local_error"},
         known_to_kernel' \in BOOLEAN, more_recv' \in BOOLEAN,
         UNCHANGED <<verdict, head_base, data_start, data_cursor, data_stop,
                     decodeVars, itemVars, replyVars>>
  PROVE  /\ TypeOK' /\ ChainInv' /\ WordsInv' /\ CursorInv' /\ ItemInv' /\ TrackInv'
         /\ DeathsExplained'
         /\ received' = received + len /\ received' \in Nat
<1>1. /\ phases' = phases /\ sizes' = sizes /\ reply_len' = reply_len
      /\ N' = N /\ Layout(sizes)' = Layout(sizes) /\ KeepsPlace' = KeepsPlace
  BY ReplyKept
<1>2. ChainInv' /\ WordsInv'
  BY AttachedChain, <1>1 DEF decodeVars
<1>3. /\ received' = received + len /\ received' \in Nat /\ tail_base' \in Nat
      /\ data_count' = data_count + len /\ lost' \in Nat
  BY Attached
<1>4. /\ TypeOK /\ CursorInv /\ ControlInv /\ VerdictInv /\ ItemInv /\ TrackInv
      /\ received \in Nat /\ data_count \in Int /\ L(N + 1) \in Nat
  BY Standing DEF Inv, TypeOK
<1>5. TypeOK'
  BY <1>1, <1>3, <1>4 DEF TypeOK, Aborted, decodeVars, itemVars
<1>6. CursorInv'
  BY <1>1, <1>4 DEF CursorInv, Soaking, InStringPhase, InString, PaddingSize,
                    decodeVars, itemVars
<1>7. ItemInv'
  BY <1>1, <1>4 DEF ItemInv, InString, Decoding, Aborted, ItemPcs, IdlePcs, Form,
                    Words, decodeVars, itemVars
<1>8. TrackInv'
  <2>1. OnTrack => OnTrack'
    BY <1>1 DEF OnTrack, AtEntry, AtFlat, AtBulk, AtString, ItemBytes, L, Form, Words,
                InStringPhase, InString, Decoding, Aborted, ItemPcs, IdlePcs,
                decodeVars, itemVars
  <2>2. Outcome => Outcome'
    BY <1>1, <1>3, <1>4 DEF Outcome, VerdictInv, Aborted, L
  <2> QED
    BY <1>1, <1>4, <2>1, <2>2 DEF TrackInv
<1>9. DeathsExplained'
  BY DEF DeathsExplained
<1> QED
  BY <1>2, <1>3, <1>5, <1>6, <1>7, <1>8, <1>9

\* A message of the reply.
LEMMA ReceiveDataKeeps ==
  ASSUME Inv, WholeWords, NEW len \in Chunks \cup {reply_len - received},
         NEW last \in BOOLEAN, NEW eor \in BOOLEAN, ReceiveData(len, last, eor)
  PROVE  Inv'
<1>1. len \in Nat /\ Whole(len) /\ received + len <= reply_len
  <2>1. /\ reply_len \in Nat /\ received \in Nat /\ received <= reply_len
        /\ Whole(reply_len) /\ Whole(received)
    BY DEF Inv, TypeOK, WordsInv, ChainInv
  <2>2. Whole(reply_len - received) /\ reply_len - received \in Nat
    BY <2>1, WholeSum
  <2>3. \A c \in Chunks : Whole(c) /\ c \in Nat
    BY BoundsAssumption DEF WholeWords
  <2> QED
    BY <2>1, <2>2, <2>3 DEF ReceiveData
<1>2. /\ pc = "poll" /\ pc' = "switch" /\ known_to_kernel /\ more_recv
      /\ Attach(len)
      /\ known_to_kernel' \in BOOLEAN /\ more_recv' \in BOOLEAN
      /\ UNCHANGED <<state, error_code, verdict, head_base, data_start, data_cursor,
                     data_stop, decodeVars, itemVars, replyVars>>
  BY DEF ReceiveData
<1>3. /\ TypeOK' /\ ChainInv' /\ WordsInv' /\ CursorInv' /\ ItemInv' /\ TrackInv'
      /\ DeathsExplained'
      /\ received' = received + len /\ received' \in Nat
  BY <1>1, <1>2, Arrived
<1>4. /\ ~more_recv' => received' = reply_len
      /\ ~known_to_kernel' => ~more_recv'
  <2>1. reply_len \in Nat /\ received \in Nat
    BY DEF Inv, TypeOK
  <2>2. CASE last
    BY <1>3, <2>1, <2>2 DEF ReceiveData
  <2>3. CASE ~last
    BY <2>3 DEF ReceiveData
  <2> QED
    BY <2>2, <2>3
<1>5. ControlInv' /\ VerdictInv'
  <2>1. /\ phases' = phases /\ reply_len' = reply_len /\ N' = N
    BY ReplyKept, <1>2
  <2>2. ControlInv /\ VerdictInv
    BY DEF Inv
  <2>3. ControlInv'
    BY <1>2, <1>4, <2>1, <2>2 DEF ControlInv, Decoding, Aborted, DecoderPcs, ItemPcs,
                                  InString, decodeVars
  <2>4. VerdictInv'
    BY <1>2, <2>2 DEF VerdictInv, ControlInv, Aborted
  <2> QED
    BY <2>3, <2>4
<1> QED
  BY <1>3, <1>5 DEF Inv

\* The end of the call, after the reply.
LEMMA ReceiveEndKeeps == ASSUME Inv, ReceiveEnd PROVE Inv'
<1>1. received + 0 <= reply_len /\ Whole(0) /\ received \in Nat
  BY WholeUnits DEF Inv, ChainInv, TypeOK
<1>2. /\ pc = "poll" /\ pc' = "switch" /\ known_to_kernel /\ ~more_recv
      /\ Attach(0)
      /\ known_to_kernel' = FALSE
      /\ UNCHANGED <<state, more_recv, error_code, verdict, head_base, data_start,
                     data_cursor, data_stop, decodeVars, itemVars, replyVars>>
  BY DEF ReceiveEnd
<1>3. known_to_kernel' \in BOOLEAN /\ more_recv' \in BOOLEAN
  BY <1>2 DEF Inv, TypeOK
<1>4. /\ TypeOK' /\ ChainInv' /\ WordsInv' /\ CursorInv' /\ ItemInv' /\ TrackInv'
      /\ DeathsExplained'
      /\ received' = received
  BY <1>1, <1>2, <1>3, Arrived
<1>5. ControlInv' /\ VerdictInv'
  <2>1. /\ phases' = phases /\ reply_len' = reply_len /\ N' = N
    BY ReplyKept, <1>2
  <2>2. ControlInv /\ VerdictInv
    BY DEF Inv
  <2>3. ControlInv'
    BY <1>2, <1>4, <2>1, <2>2 DEF ControlInv, Decoding, Aborted, DecoderPcs, ItemPcs,
                                  InString, decodeVars
  <2>4. VerdictInv'
    BY <1>2, <1>4, <2>1, <2>2 DEF VerdictInv, ControlInv, Aborted
  <2> QED
    BY <2>3, <2>4
<1> QED
  BY <1>4, <1>5 DEF Inv

\* The end of the call, for another reason.
LEMMA ReceiveFailureKeeps ==
  ASSUME Inv, NEW kind \in Faults \cap DOMAIN Reason, ReceiveFailure(kind)
  PROVE  Inv'
<1>1. received + 0 <= reply_len /\ Whole(0) /\ received \in Nat
  BY WholeUnits DEF Inv, ChainInv, TypeOK
<1>2. /\ pc = "poll" /\ pc' = "switch" /\ known_to_kernel /\ more_recv
      /\ Attach(0)
      /\ known_to_kernel' = FALSE /\ more_recv' = FALSE
      /\ UNCHANGED <<verdict, head_base, data_start, data_cursor, data_stop,
                     decodeVars, itemVars, replyVars>>
      /\ state' \in Aborted
      /\ error_code' \in {"ECONNABORTED", "ECONNREFUSED", "net_error", "local_error"}
  BY DEF ReceiveFailure, Reason, Aborted
<1>3. /\ TypeOK' /\ ChainInv' /\ WordsInv' /\ CursorInv' /\ ItemInv' /\ TrackInv'
      /\ DeathsExplained'
  BY <1>1, <1>2, Arrived
<1>4. ControlInv' /\ VerdictInv'
  <2>1. /\ phases' = phases /\ reply_len' = reply_len /\ N' = N
    BY ReplyKept, <1>2
  <2>2. ControlInv /\ VerdictInv
    BY DEF Inv
  <2>3. ControlInv'
    BY <1>2, <2>1, <2>2 DEF ControlInv, Decoding, Aborted, DecoderPcs, ItemPcs,
                            InString, decodeVars
  <2>4. VerdictInv'
    BY <1>2, <2>2 DEF VerdictInv, ControlInv, Aborted
  <2> QED
    BY <2>3, <2>4
<1> QED
  BY <1>3, <1>4 DEF Inv

\* The order of the pointers.
LEMMA Bounds ==
  ASSUME Inv
  PROVE  /\ data_start \in Nat /\ data_cursor \in Nat /\ data_stop \in Nat
         /\ head_base \in Nat /\ tail_base \in Nat /\ received \in Nat
         /\ reply_len \in Nat
         /\ BufSize \in Nat \ {0} /\ WordSize \in Nat \ {0}
         /\ head_base <= data_start /\ data_start <= data_cursor
         /\ data_cursor <= data_stop /\ data_stop <= DataEnd(head_base)
         /\ DataEnd(head_base) <= received /\ DataEnd(head_base) <= head_base + BufSize
         /\ DataEnd(head_base) \in Nat /\ Whole(DataEnd(head_base))
         /\ Whole(data_start) /\ Whole(data_stop) /\ Whole(received)
         /\ data_count = received - data_start /\ data_count \in Nat
         /\ count \in Nat /\ count <= received
<1>1. /\ data_start \in Nat /\ data_cursor \in Nat /\ data_stop \in Nat
      /\ head_base \in Nat /\ tail_base \in Nat /\ received \in Nat
      /\ reply_len \in Nat /\ BufSize \in Nat \ {0} /\ WordSize \in Nat \ {0}
  BY SizesAssumption DEF Inv, TypeOK
<1>2. ChainInv /\ WordsInv
  BY DEF Inv
<1>3. /\ head_base <= tail_base
      /\ head_base # tail_base => head_base + BufSize <= tail_base
  BY <1>1, <1>2, BehindApart DEF WordsInv
<1>4. /\ DataEnd(head_base) <= received /\ DataEnd(head_base) <= head_base + BufSize
      /\ DataEnd(head_base) \in Nat
  BY <1>1, <1>2, <1>3 DEF ChainInv, DataEnd
<1>5. Whole(DataEnd(head_base))
  <2>1. Whole(head_base + BufSize)
    BY <1>1, <1>2, WholeSum, WholeUnits DEF WordsInv
  <2> QED
    BY <1>2, <2>1 DEF WordsInv, DataEnd
<1> QED
  BY <1>1, <1>2, <1>4, <1>5 DEF ChainInv, WordsInv

\* What DecodeBlob and DecodeString copy ends in the head buffer.
LEMMA SegmentFits ==
  ASSUME Inv
  PROVE  /\ blob_left \in Nat /\ Segment \in Nat /\ Segment <= blob_left
         /\ data_cursor + Segment <= data_stop /\ ~PastHead
         /\ Segment < blob_left => data_cursor + Segment = data_stop
<1>1. blob_left \in Nat
  BY DEF Inv, TypeOK
<1>2. /\ Segment \in Nat /\ Segment <= blob_left
      /\ data_cursor + Segment <= data_stop
      /\ Segment < blob_left => data_cursor + Segment = data_stop
  BY <1>1, Bounds DEF Segment
<1>3. ~PastHead
  BY <1>1, <1>2, Bounds DEF PastHead
<1> QED
  BY <1>1, <1>2, <1>3

-----------------------------------------------------------------------------
(* The steps of the decoder and of the call, one by one. *)

\* A call whose recvmsg() fails ends there, with nothing of it changed.
LEMMA ReceiveErrorKeeps ==
  ASSUME Inv, NEW kind \in Faults \cap {"recvmsg", "no_memory"}, ReceiveError(kind)
  PROVE  Inv'
<1>1. /\ phases' = phases /\ sizes' = sizes /\ reply_len' = reply_len
      /\ N' = N /\ Layout(sizes)' = Layout(sizes)
      /\ KeepsPlace' = KeepsPlace
  BY ReplyKept DEF ReceiveError, replyVars
<1>2. TypeOK'
  <2>1. Fresh \in Nat
    BY SizesAssumption DEF Fresh
  <2>2. /\ lost' \in Nat /\ pc' \in {"return", "astray"}
        /\ verdict' \in {"pending", "failed"}
        /\ UNCHANGED <<state, known_to_kernel, more_recv, error_code,
                       head_base, tail_base, received, dataVars, decodeVars,
                       itemVars, replyVars>>
    BY <2>1 DEF ReceiveError, Inv, TypeOK, ControlInv
  <2> QED
    BY <1>1, <2>2 DEF Inv, TypeOK, Aborted, dataVars, decodeVars, itemVars
<1>3. /\ ChainInv' /\ WordsInv' /\ CursorInv' /\ ControlInv' /\ VerdictInv'
      /\ ItemInv' /\ TrackInv' /\ DeathsExplained'
  BY <1>1
     DEF Inv, ChainInv, WordsInv, CursorInv, ControlInv, VerdictInv, ItemInv,
         TrackInv, DeathsExplained, ReceiveError, DataEnd, PaddingSize,
         InString, InStringPhase, Soaking, Aborted, Decoding, DecoderPcs, Words,
         ItemPcs, IdlePcs, Form, OnTrack, Outcome, dataVars, decodeVars,
         itemVars, replyVars, Fresh, AtEntry, AtFlat, AtBulk, AtString,
         TailFull, Counted, ItemBytes, L
<1> QED
  BY <1>2, <1>3 DEF Inv

\* Selecting a phase notes how much there is.
LEMMA SelectPhaseKeeps == ASSUME Inv, SelectPhase PROVE Inv'
<1>1. /\ phases' = phases /\ sizes' = sizes /\ reply_len' = reply_len
      /\ N' = N /\ Layout(sizes)' = Layout(sizes)
      /\ KeepsPlace' = KeepsPlace
  BY ReplyKept DEF SelectPhase, replyVars
<1>2. TypeOK'
  BY <1>1
     DEF Inv, TypeOK, SelectPhase, Aborted, callVars, chainVars, dataVars,
         itemVars, replyVars
<1>3. /\ WordsInv' /\ CursorInv' /\ ControlInv' /\ VerdictInv' /\ ItemInv'
      /\ TrackInv' /\ DeathsExplained'
  BY <1>1
     DEF Inv, WordsInv, CursorInv, ControlInv, VerdictInv, ItemInv, TrackInv,
         DeathsExplained, SelectPhase, PaddingSize, InString, InStringPhase,
         Soaking, Aborted, Decoding, DecoderPcs, Words, ItemPcs, IdlePcs, Form,
         OnTrack, Outcome, callVars, chainVars, dataVars, itemVars, replyVars,
         AtEntry, AtFlat, AtBulk, AtString, Counted, ItemBytes, L
<1>4. ChainInv'
  BY <1>1, Standing, Bounds
     DEF Inv, ChainInv, ControlInv, SelectPhase, DataEnd, Aborted, Decoding,
         InString, DecoderPcs, callVars, chainVars, dataVars, itemVars,
         replyVars, ItemPcs
<1> QED
  BY <1>2, <1>3, <1>4 DEF Inv

\* A flat phase begins where the phase before it ends.
LEMMA EnterFlatKeeps == ASSUME Inv, EnterFlat PROVE Inv'
<1>1. /\ phases' = phases /\ sizes' = sizes /\ reply_len' = reply_len
      /\ N' = N /\ Layout(sizes)' = Layout(sizes)
      /\ KeepsPlace' = KeepsPlace
  BY ReplyKept DEF EnterFlat, replyVars
<1>2. TypeOK'
  BY <1>1
     DEF Inv, TypeOK, EnterFlat, Aborted, callVars, chainVars, dataVars,
         itemVars, replyVars, Counted
<1>3. /\ ChainInv' /\ WordsInv' /\ CursorInv' /\ VerdictInv' /\ ItemInv'
      /\ TrackInv' /\ DeathsExplained'
  BY <1>1
     DEF Inv, ChainInv, WordsInv, CursorInv, VerdictInv, ItemInv, TrackInv,
         DeathsExplained, EnterFlat, DataEnd, PaddingSize, InString,
         InStringPhase, Soaking, Aborted, Words, Decoding, ItemPcs, IdlePcs,
         Form, OnTrack, Outcome, callVars, chainVars, dataVars, itemVars,
         replyVars, Counted, AtEntry, AtFlat, AtBulk, AtString, ItemBytes, L
<1>4. ControlInv'
  BY <1>1, Standing
     DEF Inv, ControlInv, EnterFlat, Aborted, Decoding, InString, DecoderPcs,
         callVars, chainVars, dataVars, itemVars, replyVars, Counted, ItemPcs
<1> QED
  BY <1>2, <1>3, <1>4 DEF Inv

\* An array or a string that is empty takes no room in the reply.
LEMMA SkipEmptyKeeps == ASSUME Inv, SkipEmpty PROVE Inv'
<1>1. /\ phases' = phases /\ sizes' = sizes /\ reply_len' = reply_len
      /\ N' = N /\ Layout(sizes)' = Layout(sizes)
      /\ KeepsPlace' = KeepsPlace
  BY ReplyKept DEF SkipEmpty, replyVars
<1>2. cur \in 1 .. N /\ cur' = cur + 1 /\ pc = "enter" /\ pc' = "enter"
  BY DEF SkipEmpty, Counted
<1>3. TypeOK'
  BY <1>1, <1>2, Standing
     DEF Inv, TypeOK, SkipEmpty, Aborted, callVars, chainVars, dataVars,
         itemVars
<1>4. TrackInv'
  <2> SUFFICES ASSUME KeepsPlace, Decoding PROVE AtEntry'
    BY <1>1, <1>2
       DEF Inv, TrackInv, OnTrack, AtFlat, AtBulk, AtString, Outcome, SkipEmpty,
           callVars, chainVars, Decoding, InStringPhase, IdlePcs, ItemPcs, Form,
           L
  <2>1. data_cursor = L(cur) /\ sizes[cur] = 0
    BY <1>2 DEF Inv, TrackInv, OnTrack, AtEntry, SkipEmpty
  <2>2. L(cur + 1) = L(cur) /\ ~Counted(cur + 1)
    BY <1>2, <2>1, Standing, LayoutAt, DecoderShape DEF SkipEmpty
  <2> QED
    BY <1>1, <1>2, <2>1, <2>2 DEF AtEntry, SkipEmpty, dataVars, L, Counted
<1>5. /\ ChainInv' /\ WordsInv' /\ CursorInv' /\ VerdictInv' /\ ItemInv'
      /\ DeathsExplained'
  BY <1>1
     DEF Inv, ChainInv, WordsInv, CursorInv, VerdictInv, ItemInv,
         DeathsExplained, SkipEmpty, DataEnd, PaddingSize, InString,
         InStringPhase, Soaking, Aborted, Words, Decoding, ItemPcs, IdlePcs,
         Form, callVars, chainVars, dataVars, itemVars, replyVars, Counted
<1>6. ControlInv'
  BY <1>1, Standing
     DEF Inv, ControlInv, SkipEmpty, Aborted, Decoding, InString, DecoderPcs,
         callVars, chainVars, dataVars, itemVars, replyVars, Counted, ItemPcs
<1> QED
  BY <1>3, <1>4, <1>5, <1>6 DEF Inv

\* The decoder keeps its place over opaque data if there are none.
LEMMA SkipOpaqueKeeps == ASSUME Inv, SkipOpaque PROVE Inv'
<1>1. /\ phases' = phases /\ sizes' = sizes /\ reply_len' = reply_len
      /\ N' = N /\ Layout(sizes)' = Layout(sizes)
      /\ KeepsPlace' = KeepsPlace
  BY ReplyKept DEF SkipOpaque, replyVars
<1>2. /\ cur \in 1 .. N /\ cur' = cur + 1 /\ pc = "enter" /\ pc' = "enter"
      /\ Form(cur) = "opaque"
  BY DEF SkipOpaque, Counted, Form
<1>3. TypeOK'
  <2>1. bulk_count \in Nat
    BY BoundsAssumption DEF Inv, TypeOK
  <2> QED
    BY <1>1, <1>2, <2>1, Standing
       DEF Inv, TypeOK, SkipOpaque, Aborted, callVars, chainVars, dataVars,
           itemVars
<1>4. TrackInv'
  <2> SUFFICES ASSUME KeepsPlace, Decoding PROVE AtEntry'
    BY <1>1, <1>2
       DEF Inv, TrackInv, OnTrack, AtFlat, AtBulk, AtString, Outcome, SkipOpaque,
           callVars, chainVars, Decoding, InStringPhase, IdlePcs, ItemPcs, Form,
           L
  <2>1. data_cursor = L(cur) /\ sizes[cur] = 0
    BY <1>2 DEF Inv, TrackInv, OnTrack, AtEntry, SkipOpaque, KeepsPlace, Form
  <2>2. L(cur + 1) = L(cur) /\ ~Counted(cur + 1)
    BY <1>2, <2>1, Standing, LayoutAt, DecoderShape DEF SkipOpaque
  <2> QED
    BY <1>1, <1>2, <2>1, <2>2 DEF AtEntry, SkipOpaque, dataVars, L, Counted
<1>5. /\ ChainInv' /\ WordsInv' /\ CursorInv' /\ VerdictInv' /\ ItemInv'
      /\ DeathsExplained'
  BY <1>1
     DEF Inv, ChainInv, WordsInv, CursorInv, VerdictInv, ItemInv,
         DeathsExplained, SkipOpaque, DataEnd, PaddingSize, InString,
         InStringPhase, Soaking, Aborted, Words, Decoding, ItemPcs, IdlePcs,
         Form, callVars, chainVars, dataVars, itemVars, replyVars, Counted
<1>6. ControlInv'
  BY <1>1, Standing
     DEF Inv, ControlInv, SkipOpaque, Aborted, Decoding, InString, DecoderPcs,
         callVars, chainVars, dataVars, itemVars, replyVars, Counted, ItemPcs
<1> QED
  BY <1>3, <1>4, <1>5, <1>6 DEF Inv

\* A decoder that fails leaves the data as they are, and the call aborted.
LEMMA DecoderFailsKeeps == ASSUME Inv, DecoderFails PROVE Inv'
<1>1. /\ phases' = phases /\ sizes' = sizes /\ reply_len' = reply_len
      /\ N' = N /\ Layout(sizes)' = Layout(sizes)
      /\ KeepsPlace' = KeepsPlace
  BY ReplyKept DEF DecoderFails, replyVars
<1>2. /\ pc \in {"enter", "word"} /\ pc' = "poll" /\ cur' = 0
      /\ state = "decoding_response" /\ state' = "locally_aborted"
      /\ known_to_kernel' = FALSE
      /\ UNCHANGED <<more_recv, error_code, verdict, chainVars, dataVars,
                     need_size, phase, count, words_left, itemVars>>
  BY DEF DecoderFails, Inv, ControlInv, DecoderPcs, ItemPcs
<1>3. TypeOK'
  <2>1. /\ 0 \in 0 .. N + 1 /\ phase' \in (0 .. N + 1)' /\ cur' \in (0 .. N + 1)'
        /\ phases' \in Decoders /\ sizes' \in [(1 .. N)' -> 0 .. MaxItems]
    BY <1>1, <1>2, Standing DEF Inv, TypeOK
  <2> QED
    BY <1>1, <1>2, <2>1 DEF Inv, TypeOK, Aborted, chainVars, dataVars, itemVars
<1>4. ChainInv' /\ WordsInv'
  BY <1>1, <1>2 DEF Inv, ChainInv, WordsInv, DataEnd, chainVars, dataVars
<1>5. CursorInv'
  <2>1. Whole(data_cursor)
    BY <1>2
       DEF Inv, CursorInv, ControlInv, Soaking, InStringPhase
  <2> QED
    BY <1>2, <2>1
       DEF CursorInv, Soaking, InStringPhase, dataVars, itemVars
<1>6. ControlInv' /\ DeathsExplained'
  BY <1>1, <1>2, Standing
     DEF Inv, ControlInv, DeathsExplained, Aborted, Decoding, DecoderPcs, ItemPcs,
         chainVars
<1>7. VerdictInv' /\ ItemInv' /\ TrackInv'
  <2>1. VerdictInv'
    BY <1>1, <1>2
       DEF Inv, VerdictInv, ControlInv, Aborted, DecoderPcs, ItemPcs, chainVars,
           dataVars
  <2>2. ItemInv'
    BY <1>1, <1>2, Standing DEF ItemInv, ItemPcs, IdlePcs, Decoding
  <2>3. TrackInv'
    BY <1>1, <1>2
       DEF Inv, TrackInv, OnTrack, Outcome, Decoding, VerdictInv, Aborted, L,
           chainVars
  <2> QED
    BY <2>1, <2>2, <2>3
<1> QED
  BY <1>3, <1>4, <1>5, <1>6, <1>7 DEF Inv

\* The first element of an array is where the array begins.
LEMMA EnterBulkKeeps == ASSUME Inv, EnterBulk PROVE Inv'
<1>1. /\ phases' = phases /\ sizes' = sizes /\ reply_len' = reply_len
      /\ N' = N /\ Layout(sizes)' = Layout(sizes)
      /\ KeepsPlace' = KeepsPlace
  BY ReplyKept DEF EnterBulk, replyVars
<1>2. /\ ChainInv' /\ WordsInv' /\ CursorInv' /\ ControlInv' /\ VerdictInv'
      /\ ItemInv' /\ DeathsExplained'
  BY <1>1
     DEF Inv, ChainInv, WordsInv, CursorInv, ControlInv, VerdictInv, ItemInv,
         DeathsExplained, EnterBulk, DataEnd, PaddingSize, InString,
         InStringPhase, Soaking, Aborted, Decoding, DecoderPcs, Words, ItemPcs,
         IdlePcs, Form, callVars, chainVars, dataVars, replyVars, Counted
<1>3. TrackInv'
  BY <1>1, Standing
     DEF Inv, TrackInv, ControlInv, EnterBulk, OnTrack, Outcome, Aborted,
         Decoding, InString, DecoderPcs, callVars, chainVars, dataVars,
         replyVars, Counted, AtEntry, AtFlat, AtBulk, AtString, ItemPcs,
         IdlePcs, Form, ItemBytes, InStringPhase, Words, L
<1>4. TypeOK'
  BY <1>1, Standing, BoundsAssumption
     DEF Inv, TypeOK, ControlInv, EnterBulk, Aborted, Decoding, InString,
         DecoderPcs, callVars, chainVars, dataVars, replyVars, Counted, ItemPcs
<1> QED
  BY <1>2, <1>3, <1>4 DEF Inv

\* A string begins where the flat phase before it ends.
LEMMA EnterStringKeeps == ASSUME Inv, EnterString PROVE Inv'
<1>1. /\ phases' = phases /\ sizes' = sizes /\ reply_len' = reply_len
      /\ N' = N /\ Layout(sizes)' = Layout(sizes)
      /\ KeepsPlace' = KeepsPlace
  BY ReplyKept DEF EnterString, replyVars
<1>2. cur \in 1 .. N /\ bulk_count \in Nat
  BY BoundsAssumption DEF EnterString, Counted, Inv, TypeOK
<1>3. TypeOK'
  BY <1>1, <1>2, Standing, ZenonT(60)
     DEF Inv, TypeOK, EnterString, Aborted, callVars, chainVars, dataVars,
         itemVars
<1>4. /\ ChainInv' /\ WordsInv' /\ ControlInv' /\ VerdictInv' /\ ItemInv'
      /\ TrackInv' /\ DeathsExplained'
  BY <1>1
     DEF Inv, ChainInv, WordsInv, ControlInv, VerdictInv, ItemInv, TrackInv,
         DeathsExplained, EnterString, DataEnd, Aborted, Decoding, InString,
         DecoderPcs, Words, ItemPcs, IdlePcs, Form, OnTrack, Outcome, callVars,
         chainVars, dataVars, replyVars, Counted, AtEntry, AtFlat, AtBulk,
         AtString, ItemBytes, InStringPhase, L
<1>5. CursorInv'
  BY <1>1, Standing, BoundsAssumption
     DEF Inv, CursorInv, ControlInv, TypeOK, EnterString, PaddingSize, InString,
         InStringPhase, Soaking, Aborted, Decoding, DecoderPcs, callVars,
         chainVars, dataVars, replyVars, Counted, ItemPcs
<1> QED
  BY <1>3, <1>4, <1>5 DEF Inv

\* A call that is decoded to its end has received all that the layout says.
LEMMA EnterEndKeeps == ASSUME Inv, EnterEnd PROVE Inv'
<1>1. /\ phases' = phases /\ sizes' = sizes /\ reply_len' = reply_len
      /\ N' = N /\ Layout(sizes)' = Layout(sizes)
      /\ KeepsPlace' = KeepsPlace
  BY ReplyKept DEF EnterEnd, replyVars
<1>2. TrackInv'
  <2> SUFFICES ASSUME KeepsPlace PROVE L(N + 1) <= received
    BY <1>1
       DEF Inv, TrackInv, OnTrack, Outcome, EnterEnd, callVars, chainVars,
           Decoding, L, VerdictInv
  <2>1. data_cursor = L(N + 1)
    BY DEF Inv, TrackInv, OnTrack, AtEntry, EnterEnd, ControlInv, DecoderPcs,
           Decoding
  <2>2. data_cursor <= received
    <3>1. /\ data_cursor <= data_stop /\ data_stop <= DataEnd(head_base)
          /\ DataEnd(head_base) <= received
      BY BehindApart, SizesAssumption
         DEF Inv, ChainInv, WordsInv, TypeOK, DataEnd
    <3> QED
      BY <3>1, SizesAssumption DEF Inv, TypeOK, DataEnd
  <2> QED
    BY <2>1, <2>2
<1>3. TypeOK'
  BY <1>1
     DEF Inv, TypeOK, EnterEnd, Aborted, chainVars, dataVars, itemVars,
         replyVars
<1>4. ChainInv' /\ WordsInv' /\ ControlInv' /\ ItemInv' /\ DeathsExplained'
  <2>1. N \in Nat /\ cur = N + 1 /\ cur \notin 1 .. N
    BY Standing DEF EnterEnd
  <2>2. ChainInv' /\ WordsInv' /\ DeathsExplained'
    BY <1>1
       DEF Inv, ChainInv, WordsInv, DeathsExplained, EnterEnd, DataEnd, Aborted,
           Decoding, DecoderPcs, chainVars, dataVars, itemVars, replyVars
  <2>3. ControlInv'
    BY <1>1, <2>1
       DEF Inv, ControlInv, EnterEnd, Aborted, Decoding, InString, DecoderPcs,
           ItemPcs, chainVars, dataVars, itemVars, replyVars
  <2>4. ItemInv'
    BY <1>1, <2>1
       DEF Inv, ItemInv, EnterEnd, Decoding, InString, Words, ItemPcs, IdlePcs,
           Form, chainVars, dataVars, itemVars, replyVars
  <2> QED
    BY <2>2, <2>3, <2>4
<1>5. VerdictInv'
  BY <1>1
     DEF Inv, VerdictInv, ControlInv, EnterEnd, Aborted, Decoding, InString,
         DecoderPcs, chainVars, dataVars, itemVars, replyVars, ItemPcs
<1>6. CursorInv'
  BY <1>1, Standing
     DEF Inv, CursorInv, ControlInv, EnterEnd, PaddingSize, InString,
         InStringPhase, Soaking, Aborted, Decoding, DecoderPcs, chainVars,
         dataVars, itemVars, replyVars, ItemPcs
<1> QED
  BY <1>2, <1>3, <1>4, <1>5, <1>6 DEF Inv

\* What is found of an item at its case label is what the item needs.
LEMMA CheckPhaseKeeps == ASSUME Inv, CheckPhase PROVE Inv'
<1>1. /\ phases' = phases /\ sizes' = sizes /\ reply_len' = reply_len
      /\ N' = N /\ Layout(sizes)' = Layout(sizes)
      /\ KeepsPlace' = KeepsPlace
  BY ReplyKept DEF CheckPhase, replyVars
<1>2. /\ pc = "check" /\ cur \in 1 .. N /\ phase = cur
      /\ state = "decoding_response"
      /\ need_size' = ItemBytes /\ ItemBytes' = ItemBytes
      /\ ItemBytes \in Nat \ {0}
      /\ Words(cur) \in Nat
  BY <1>1, Standing
     DEF CheckPhase, Inv, ControlInv, DecoderPcs, ItemBytes, Words
<1>3. /\ UNCHANGED <<callVars, chainVars, dataVars, phase, cur, count,
                     itemVars, replyVars>>
      /\ \/ /\ count >= ItemBytes
            /\ words_left' = Words(cur)
            /\ pc' = IF InString THEN "string" ELSE "word"
         \/ /\ pc' = "switch" /\ words_left' = words_left
  <2>1. count \in Nat
    BY Bounds
  <2> QED
    BY <1>2, <2>1 DEF CheckPhase, Enough, Below, InString, ItemBytes
<1>4. TypeOK'
  BY <1>1, <1>2, <1>3
     DEF Inv, TypeOK, Aborted, callVars, chainVars, dataVars, itemVars
<1>5. ItemInv'
  BY <1>1, <1>2, <1>3
     DEF Inv, ItemInv, ItemPcs, IdlePcs, Decoding, InString, Form, Words,
         ItemBytes, callVars, itemVars
<1>6. TrackInv'
  <2>2. OnTrack => OnTrack'
    BY <1>1, <1>2, <1>3, LayoutAt, Standing
       DEF OnTrack, AtEntry, AtFlat, AtBulk, AtString, ItemPcs, IdlePcs,
           Decoding, InString, InStringPhase, Form, Words, ItemBytes, callVars,
           itemVars, chainVars, dataVars, L
  <2>3. Outcome => Outcome'
    BY <1>1, <1>3 DEF Outcome, L, callVars, chainVars
  <2> QED
    BY <1>1, <2>2, <2>3 DEF Inv, TrackInv
<1>7. /\ ChainInv' /\ WordsInv' /\ CursorInv' /\ ControlInv' /\ VerdictInv'
      /\ DeathsExplained'
  BY <1>1
     DEF Inv, ChainInv, WordsInv, CursorInv, ControlInv, VerdictInv,
         DeathsExplained, CheckPhase, DataEnd, PaddingSize, InString,
         InStringPhase, Soaking, Aborted, Decoding, DecoderPcs, callVars,
         chainVars, dataVars, itemVars, replyVars, Words, Enough, ItemPcs, Below
<1> QED
  BY <1>4, <1>5, <1>6, <1>7 DEF Inv

\* A flat phase ends where the next begins, with the count of that just read.
LEMMA EndFlatKeeps == ASSUME Inv, EndFlat PROVE Inv'
<1>1. /\ phases' = phases /\ sizes' = sizes /\ reply_len' = reply_len
      /\ N' = N /\ Layout(sizes)' = Layout(sizes)
      /\ KeepsPlace' = KeepsPlace
  BY ReplyKept DEF EndFlat, replyVars
<1>2. /\ pc = "word" /\ words_left = 0 /\ cur \in 1 .. N /\ Form(cur) = "flat"
      /\ cur' = cur + 1 /\ pc' = "enter" /\ state = "decoding_response"
  BY DEF EndFlat, Inv, ControlInv, DecoderPcs, ItemPcs, Form
<1>3. bulk_count' \in 0 .. MaxItems
  <2>1. Counted(cur + 1) => sizes[cur + 1] \in 0 .. MaxItems
    BY DecoderShape, Standing DEF Counted
  <2> QED
    BY <2>1, <1>2 DEF EndFlat, CountsRead, Inv, TypeOK
<1>4. TypeOK'
  <2>1. data_count' \in Int /\ data_start' \in Nat
    BY Bounds DEF EndFlat, PostDec
  <2>2. UNCHANGED <<callVars, chainVars, data_cursor, data_stop, need_size,
                    phase, count, words_left, bulk_index, blob_left, soaking>>
    BY DEF EndFlat
  <2>3. cur' \in 0 .. N + 1 /\ N \in Nat
    BY <1>2, Standing
  <2>4. TypeOK
    BY DEF Inv
  <2> QED
    BY <1>1, <1>2, <1>3, <2>1, <2>2, <2>3, <2>4
       DEF TypeOK, Aborted, callVars, chainVars
<1>5. TrackInv'
  <2> SUFFICES ASSUME KeepsPlace PROVE AtEntry'
    BY <1>1, <1>2
       DEF Inv, TrackInv, OnTrack, AtFlat, AtBulk, AtString, Outcome, EndFlat,
           callVars, chainVars, Decoding, InStringPhase, IdlePcs, ItemPcs, Form,
           L
  <2>1. data_cursor = L(cur + 1)
    <3>1. data_cursor + words_left * WordSize = L(cur + 1)
      BY <1>2 DEF Inv, TrackInv, OnTrack, AtFlat, Decoding, ItemPcs
    <3>2. words_left * WordSize = 0
      BY <1>2, SizesAssumption
    <3> QED
      BY <3>1, <3>2, Bounds
  <2>2. Counted(cur + 1) => bulk_count' = sizes[cur + 1]
    BY <1>2, <2>1 DEF EndFlat, CountsRead, L
  <2> QED
    BY <1>1, <1>2, <2>1, <2>2 DEF AtEntry, EndFlat, L, Counted
<1>6. CursorInv' /\ ControlInv' /\ VerdictInv' /\ ItemInv' /\ DeathsExplained'
  BY <1>1
     DEF Inv, CursorInv, ControlInv, VerdictInv, ItemInv, DeathsExplained,
         EndFlat, PaddingSize, InString, InStringPhase, Soaking, Aborted,
         Decoding, DecoderPcs, Words, ItemPcs, IdlePcs, Form, callVars,
         chainVars, replyVars, Counted, PostDec, CountsRead
<1>7. ChainInv'
  BY <1>1, Standing, Bounds
     DEF Inv, ChainInv, ControlInv, EndFlat, DataEnd, Aborted, Decoding,
         InString, DecoderPcs, callVars, chainVars, replyVars, Counted, PostDec,
         CountsRead, ItemPcs
<1>8. WordsInv'
  BY <1>1, Bounds
     DEF Inv, WordsInv, CursorInv, ControlInv, EndFlat, PaddingSize, InString,
         InStringPhase, Soaking, Aborted, Decoding, DecoderPcs, callVars,
         chainVars, replyVars, Counted, PostDec, CountsRead, ItemPcs
<1> QED
  BY <1>4, <1>5, <1>6, <1>7, <1>8 DEF Inv

\* An element ends where the next begins, or the phase after the array does.
LEMMA EndItemKeeps == ASSUME Inv, EndItem PROVE Inv'
<1>1. /\ phases' = phases /\ sizes' = sizes /\ reply_len' = reply_len
      /\ N' = N /\ Layout(sizes)' = Layout(sizes)
      /\ KeepsPlace' = KeepsPlace
  BY ReplyKept DEF EndItem, replyVars
<1>2. /\ pc = "word" /\ words_left = 0 /\ cur \in 1 .. N /\ Form(cur) = "bulk"
      /\ state = "decoding_response"
      /\ bulk_count \in Nat /\ bulk_index \in Nat
      /\ bulk_index < bulk_count
  BY BoundsAssumption
     DEF EndItem, Inv, TypeOK, ControlInv, DecoderPcs, ItemPcs, Form, ItemInv
<1>3. /\ bulk_index' = bulk_index + 1 /\ bulk_count' = bulk_count
      /\ data_cursor' = data_cursor
      /\ \/ pc' = "select" /\ cur' = cur /\ bulk_index + 1 < bulk_count
         \/ pc' = "enter" /\ cur' = cur + 1 /\ bulk_index + 1 = bulk_count
  BY <1>2 DEF EndItem, MoreItems
<1>4. TypeOK'
  <2>1. data_count' \in Int /\ data_start' \in Nat
    BY Bounds DEF EndItem, PostDec
  <2>2. bulk_index' \in 0 .. MaxItems
    BY <1>2, <1>3, BoundsAssumption DEF Inv, TypeOK
  <2>3. UNCHANGED <<callVars, chainVars, data_cursor, data_stop, need_size,
                    phase, count, words_left, bulk_count, blob_left, soaking>>
    BY DEF EndItem
  <2>4. cur' \in 0 .. N + 1 /\ N \in Nat /\ pc' \in {"select", "enter"}
    BY <1>2, <1>3, Standing
  <2>5. TypeOK
    BY DEF Inv
  <2> QED
    BY <1>1, <2>1, <2>2, <2>3, <2>4, <2>5
       DEF TypeOK, Aborted, callVars, chainVars
<1>5. TrackInv'
  <2>1. Outcome => Outcome'
    BY <1>1 DEF Outcome, L, EndItem, callVars, chainVars
  <2> SUFFICES ASSUME KeepsPlace PROVE OnTrack'
    BY <1>1, <2>1 DEF Inv, TrackInv
  <2>2. /\ bulk_count = sizes[cur]
        /\ data_cursor + words_left * WordSize
             = L(cur) + bulk_index * ItemBytes + ItemBytes
    BY <1>2 DEF Inv, TrackInv, OnTrack, AtBulk, Decoding, ItemPcs
  <2>3. /\ L(cur) \in Nat /\ L(cur + 1) = L(cur) + sizes[cur] * ItemBytes
        /\ ItemBytes \in Nat
    BY <1>2, LayoutAt, Standing DEF ItemBytes
  <2>4. (bulk_index + 1) * ItemBytes = bulk_index * ItemBytes + ItemBytes
        /\ (bulk_index + 1) * ItemBytes \in Nat /\ bulk_index * ItemBytes \in Nat
    BY <1>2, <2>3, Multiples
  <2>5. data_cursor = L(cur) + (bulk_index + 1) * ItemBytes
    <3>1. words_left * WordSize = 0
      BY <1>2, SizesAssumption
    <3> QED
      BY <3>1, <2>2, <2>3, <2>4, Bounds
  <2>6. CASE pc' = "select"
    BY <1>1, <1>2, <1>3, <2>2, <2>5, <2>6
       DEF OnTrack, AtEntry, AtFlat, AtBulk, AtString, InStringPhase, InString,
           ItemPcs, IdlePcs, Form, ItemBytes, Words, L
  <2>7. CASE pc' = "enter"
    <3>1. data_cursor = L(cur + 1) /\ ~Counted(cur + 1)
      <4>1. Counted(cur)
        BY <1>2 DEF Counted, Form
      <4> QED
        BY <1>2, <1>3, <2>2, <2>3, <2>5, <2>7, <4>1, DecoderShape, Standing
    <3> QED
      BY <1>1, <1>2, <1>3, <2>7, <3>1
         DEF OnTrack, AtEntry, AtFlat, AtBulk, AtString, InStringPhase, ItemPcs,
             IdlePcs, L, Counted
  <2> QED
    BY <1>3, <2>6, <2>7
<1>6. CursorInv' /\ ControlInv' /\ VerdictInv' /\ ItemInv' /\ DeathsExplained'
  BY <1>1
     DEF Inv, CursorInv, ControlInv, VerdictInv, ItemInv, DeathsExplained,
         EndItem, PaddingSize, InString, InStringPhase, Soaking, Aborted,
         Decoding, DecoderPcs, Words, ItemPcs, IdlePcs, Form, callVars,
         chainVars, replyVars, PostDec, MoreItems
<1>7. ChainInv'
  BY <1>1, Standing, Bounds
     DEF Inv, ChainInv, ControlInv, EndItem, DataEnd, Aborted, Decoding,
         InString, DecoderPcs, callVars, chainVars, replyVars, PostDec,
         MoreItems, ItemPcs
<1>8. WordsInv'
  BY <1>1, Bounds
     DEF Inv, WordsInv, CursorInv, ControlInv, EndItem, PaddingSize, InString,
         InStringPhase, Soaking, Aborted, Decoding, DecoderPcs, callVars,
         chainVars, replyVars, PostDec, MoreItems, ItemPcs
<1> QED
  BY <1>4, <1>5, <1>6, <1>7, <1>8 DEF Inv

\* A word that is in the buffer is in it to its end.
LEMMA DecodeWordKeeps == ASSUME Inv, DecodeWord PROVE Inv'
<1>1. /\ phases' = phases /\ sizes' = sizes /\ reply_len' = reply_len
      /\ N' = N /\ Layout(sizes)' = Layout(sizes)
      /\ KeepsPlace' = KeepsPlace
  BY ReplyKept DEF DecodeWord, replyVars
<1>2. /\ data_cursor' = data_cursor + WordSize /\ data_cursor' <= data_stop
      /\ Whole(data_cursor')
  <2>1. Whole(data_cursor) /\ data_cursor < data_stop
    BY DEF DecodeWord, Aligned, Whole
  <2>2. data_cursor + WordSize <= data_stop
    BY <2>1, Bounds, WholeApart
  <2>3. Whole(data_cursor + WordSize)
    BY <2>1, Bounds, WholeSum, WholeUnits
  <2> QED
    BY <2>2, <2>3 DEF DecodeWord
<1>3. ChainInv'
  BY <1>2, Bounds DEF Inv, ChainInv, DecodeWord, DataEnd, chainVars, replyVars
<1>4. CursorInv'
  <2>1. ~InString /\ phases' = phases
    BY DEF Inv, ControlInv, DecodeWord, replyVars
  <2> QED
    BY <1>2, <2>1 DEF CursorInv, Soaking, InStringPhase, InString, DecodeWord
<1>5. /\ pc = "word" /\ pc' = "word" /\ ~InString /\ cur \in 1 .. N
      /\ words_left \in Nat /\ words_left > 0
      /\ data_cursor' = data_cursor + WordSize /\ words_left' = words_left - 1
      /\ UNCHANGED <<callVars, chainVars, phase, cur, count, itemVars>>
  BY DEF DecodeWord, Inv, TypeOK, ControlInv, DecoderPcs, ItemPcs
<1>6. data_cursor' + words_left' * WordSize = data_cursor + words_left * WordSize
  <2>1. (words_left - 1) * WordSize = words_left * WordSize - WordSize
        /\ words_left * WordSize \in Nat
    BY <1>5, SizesAssumption
  <2> QED
    BY <1>5, <2>1, Bounds
<1>7. OnTrack => OnTrack'
  <2>1. AtEntry => AtEntry'
    BY <1>1, <1>5, <1>6 DEF AtEntry, L, Counted
  <2>2. AtFlat => AtFlat'
    BY <1>1, <1>5, <1>6 DEF AtFlat, Form, L, ItemPcs, IdlePcs
  <2>3. AtBulk => AtBulk'
    BY <1>1, <1>5, <1>6
       DEF AtBulk, Form, Words, ItemBytes, L, ItemPcs, IdlePcs, itemVars
  <2>4. AtString'
    BY <1>1, <1>5 DEF AtString, InStringPhase, InString
  <2> QED
    BY <1>1, <1>5, <2>1, <2>2, <2>3, <2>4 DEF OnTrack, Decoding, callVars
<1>8. Outcome => Outcome'
  BY <1>1, <1>5 DEF Outcome, L, callVars, chainVars
<1>9. TrackInv'
  BY <1>1, <1>7, <1>8 DEF Inv, TrackInv
<1>10. WordsInv' /\ ControlInv' /\ ItemInv' /\ DeathsExplained'
  BY <1>1
     DEF Inv, WordsInv, ControlInv, ItemInv, DeathsExplained, DecodeWord,
         Aborted, Decoding, InString, DecoderPcs, Words, ItemPcs, IdlePcs, Form,
         callVars, chainVars, itemVars, replyVars, Aligned
<1>11. VerdictInv'
  BY <1>1
     DEF Inv, VerdictInv, ControlInv, DecodeWord, Aborted, Decoding, InString,
         DecoderPcs, callVars, chainVars, itemVars, replyVars, Aligned, ItemPcs
<1>12. TypeOK'
  BY <1>1, Standing, SMTT(60)
     DEF Inv, TypeOK, ControlInv, DecodeWord, Aborted, Decoding, InString,
         DecoderPcs, callVars, chainVars, itemVars, replyVars, Aligned, ItemPcs
<1> QED
  BY <1>3, <1>4, <1>9, <1>10, <1>11, <1>12 DEF Inv

\* The words that are left of an item are words of its phase, so if the data
\* ends before the next of them the phase has not arrived in full; and that is
\* not the first phase, whose words were all there when it was entered.
LEMMA WordsToCome ==
  ASSUME Inv, KeepsPlace, Decoding, cur \in 1 .. N, pc \in ItemPcs, ~InString,
         words_left > 0, received < data_cursor + WordSize
  PROVE  received < L(cur + 1) /\ cur > 1
<1>1. /\ words_left \in Nat \ {0} /\ count >= ItemBytes /\ bulk_index \in Nat
      /\ OnTrack
  BY DEF Inv, TypeOK, ItemInv, ItemBytes, TrackInv
<1>2. words_left * WordSize \in Nat /\ WordSize <= words_left * WordSize
  <2>1. words_left - 1 \in Nat
    BY <1>1
  <2>2. (words_left - 1) * WordSize \in Nat
    BY <2>1, SizesAssumption
  <2>3. (words_left - 1) * WordSize = words_left * WordSize - WordSize
    BY <1>1, SizesAssumption
  <2>4. words_left * WordSize \in Nat
    BY <1>1, SizesAssumption
  <2> QED
    BY <2>2, <2>3, <2>4, SizesAssumption
<1>3. /\ Form(cur) \in {"flat", "bulk"} /\ L(cur) \in Nat /\ L(cur + 1) \in Nat
      /\ ItemBytes \in Nat
  BY Standing, LayoutAt DEF Form, InString, ItemPcs
<1>4. data_cursor + words_left * WordSize <= L(cur + 1)
  <2>1. CASE Form(cur) = "flat"
    BY <1>1, <1>3, <2>1 DEF OnTrack, AtFlat
  <2>2. CASE Form(cur) = "bulk"
    <3>1. /\ bulk_index < sizes[cur]
          /\ data_cursor + words_left * WordSize
               = L(cur) + bulk_index * ItemBytes + ItemBytes
      BY <1>1, <2>2 DEF OnTrack, AtBulk, Inv, ItemInv
    <3>2. L(cur) + bulk_index * ItemBytes + ItemBytes <= L(cur + 1)
      BY <1>1, <2>2, <3>1, Standing, LayoutAt DEF ItemBytes
    <3> QED
      BY <3>1, <3>2
  <2> QED
    BY <1>3, <2>1, <2>2
<1>5. received < L(cur + 1)
  BY <1>2, <1>3, <1>4, Bounds
<1>6. cur > 1
  <2> SUFFICES ASSUME cur = 1 PROVE FALSE
    BY Standing
  <2>1. Form(cur) = "flat"
    BY <1>3, Standing, DecoderShape DEF Counted, Form
  <2>2. L(cur + 1) = ItemBytes
    BY <1>3, <2>1, Standing, LayoutAt DEF ItemBytes
  <2> QED
    BY <1>1, <1>3, <1>5, <2>2, Bounds
<1> QED
  BY <1>5, <1>6

\* The slow path finds no word only if the phase has not arrived.
LEMMA DecodeSlowKeeps == ASSUME Inv, DecodeSlow PROVE Inv'
<1>1. /\ phases' = phases /\ sizes' = sizes /\ reply_len' = reply_len
      /\ N' = N /\ Layout(sizes)' = Layout(sizes)
      /\ KeepsPlace' = KeepsPlace
  BY ReplyKept DEF DecodeSlow, replyVars
<1>2. DeathsExplained'
  <2> SUFFICES ASSUME pc' = "dead" PROVE DeathsExplained'
    BY DEF DeathsExplained
  <2>1. /\ pc = "word" /\ state = "decoding_response" /\ cur \in 1 .. N
        /\ ~InString /\ words_left \in Nat \ {0} /\ data_count < WordSize
        /\ count >= ItemBytes
    BY Bounds
       DEF DecodeSlow, Below, Inv, TypeOK, ControlInv, ItemInv, ItemPcs,
           DecoderPcs, ItemBytes
  <2> SUFFICES ASSUME KeepsPlace
               PROVE received < L(cur + 1) /\ cur > 1 /\ count > data_count
    BY <1>1 DEF DeathsExplained, DecodeSlow, L, chainVars, dataVars, decodeVars
  <2>2. received < data_cursor + WordSize
    BY <2>1, Bounds
  <2>3. received < L(cur + 1) /\ cur > 1
    BY <2>1, <2>2, WordsToCome DEF Decoding, ItemPcs
  <2> QED
    BY <2>1, <2>3, Bounds, Standing
<1>3. ChainInv' /\ WordsInv' /\ ControlInv' /\ VerdictInv' /\ ItemInv'
  BY <1>1
     DEF Inv, ChainInv, WordsInv, ControlInv, VerdictInv, ItemInv, DecodeSlow,
         DataEnd, Aborted, Decoding, InString, DecoderPcs, Words, ItemPcs,
         IdlePcs, Form, callVars, chainVars, dataVars, decodeVars, replyVars,
         Below, Aligned
<1>4. CursorInv' /\ TrackInv'
  BY <1>1
     DEF Inv, CursorInv, TrackInv, ControlInv, DecodeSlow, PaddingSize,
         InString, InStringPhase, Soaking, OnTrack, Outcome, Aborted, Decoding,
         DecoderPcs, callVars, chainVars, dataVars, decodeVars, replyVars,
         Below, Aligned, AtEntry, AtFlat, AtBulk, AtString, ItemPcs, Counted,
         IdlePcs, Form, ItemBytes, Words, L
<1>5. TypeOK'
  BY <1>1, Standing
     DEF Inv, TypeOK, ControlInv, DecodeSlow, Aborted, Decoding, InString,
         DecoderPcs, callVars, chainVars, dataVars, decodeVars, replyVars,
         Below, Aligned, ItemPcs
<1> QED
  BY <1>2, <1>3, <1>4, <1>5 DEF Inv

\* The word is put together from what is left of one buffer and the next.
LEMMA DecodeBlobKeeps == ASSUME Inv, DecodeBlob PROVE Inv'
<1>1. /\ phases' = phases /\ sizes' = sizes /\ reply_len' = reply_len
      /\ N' = N /\ Layout(sizes)' = Layout(sizes) /\ KeepsPlace' = KeepsPlace
  BY ReplyKept DEF DecodeBlob
<1>2. /\ pc = "blob" /\ state = "decoding_response" /\ cur \in 1 .. N
      /\ phase = cur
      /\ ~InString /\ words_left \in Nat \ {0} /\ blob_left = WordSize
      /\ Whole(data_cursor) /\ verdict = "pending"
      /\ count >= ItemBytes
  BY DEF DecodeBlob, Inv, TypeOK, ControlInv, CursorInv, ItemInv, Soaking,
         InStringPhase, ItemPcs, DecoderPcs, ItemBytes
<1>3. /\ data_start' = data_cursor /\ data_count' = received - data_cursor
      /\ data_cursor' = data_cursor + Segment /\ blob_left' = WordSize - Segment
      /\ UNCHANGED <<callVars, chainVars, data_stop, need_size, phase, cur,
                     count, bulk_count, bulk_index, soaking>>
  BY <1>2, Bounds DEF DecodeBlob, PostDec
<1>4. /\ data_cursor' \in Nat /\ Whole(data_cursor')
      /\ data_cursor <= data_cursor' /\ data_cursor' <= data_stop
      /\ words_left' \in Nat
      /\ \/ /\ pc' = "word" /\ data_cursor' = data_cursor + WordSize
            /\ words_left' = words_left - 1 /\ blob_left' = 0
         \/ /\ pc' = "advance" /\ data_cursor' = data_cursor /\ data_cursor = data_stop
            /\ words_left' = words_left /\ blob_left' = WordSize
  <2>1. CASE Segment = blob_left
    <3>1. Whole(data_cursor + WordSize)
      BY <1>2, Bounds, WholeSum, WholeUnits
    <3> QED
      BY <1>2, <1>3, <2>1, <3>1, Bounds, SegmentFits DEF DecodeBlob
  <2>2. CASE Segment < blob_left
    <3>1. data_cursor = data_stop
      <4>1. data_cursor < data_stop => data_cursor + WordSize <= data_stop
        BY <1>2, Bounds, WholeApart
      <4> QED
        BY <1>2, <2>2, <4>1, Bounds, SegmentFits
    <3> QED
      BY <1>2, <1>3, <2>2, <3>1, Bounds, SegmentFits DEF DecodeBlob
  <2> QED
    BY <2>1, <2>2, SegmentFits
<1>5. TypeOK'
  <2>1. TypeOK
    BY DEF Inv
  <2>2. /\ data_start' \in Nat /\ data_count' \in Int /\ data_cursor' \in Nat
        /\ words_left' \in Nat /\ blob_left' \in Nat
        /\ pc' \in {"word", "advance"}
    BY <1>3, <1>4, Bounds
  <2>3. UNCHANGED <<callVars, chainVars, data_stop, need_size, phase, cur,
                    count, bulk_count, bulk_index, soaking>>
    BY <1>3
  <2> QED
    BY <1>1, <2>1, <2>2, <2>3 DEF TypeOK, Aborted, callVars, chainVars
<1>6. ChainInv' /\ WordsInv'
  BY <1>1, <1>2, <1>3, <1>4, Bounds
     DEF Inv, ChainInv, WordsInv, DataEnd, chainVars
<1>7. CursorInv'
  BY <1>1, <1>2, <1>3, <1>4 DEF CursorInv, Soaking, InStringPhase, InString
<1>8. ControlInv' /\ VerdictInv'
  <2>1. ControlInv'
    BY <1>1, <1>2, <1>3, <1>4
       DEF Inv, ControlInv, Decoding, Aborted, DecoderPcs, ItemPcs, InString,
           callVars, chainVars
  <2>2. VerdictInv'
    BY <1>1, <1>2, <1>3, <1>4 DEF Inv, VerdictInv, Aborted, callVars, chainVars
  <2> QED
    BY <2>1, <2>2
<1>9. ItemInv'
  BY <1>1, <1>2, <1>3, <1>4
     DEF Inv, ItemInv, ItemPcs, IdlePcs, InString, Decoding, Form, Words,
         ItemBytes
<1>10. TrackInv'
  <2>1. words_left' * WordSize + data_cursor' = words_left * WordSize + data_cursor
    <3>1. (words_left - 1) * WordSize = words_left * WordSize - WordSize
          /\ words_left * WordSize \in Nat
      BY <1>2, SizesAssumption
    <3> QED
      BY <1>4, <3>1, Bounds
  <2>2. data_cursor' + words_left' * WordSize = data_cursor + words_left * WordSize
    <3>1. words_left * WordSize \in Nat /\ words_left' * WordSize \in Nat
      <4>1. words_left \in Nat /\ words_left' \in Nat
        BY <1>2, <1>4
      <4>2. ASSUME NEW w \in Nat PROVE w * WordSize \in Nat
        BY SizesAssumption
      <4> QED
        BY <4>1, <4>2
    <3> QED
      BY <1>4, <2>1, <3>1, Bounds
  <2>3. OnTrack => OnTrack'
    BY <1>1, <1>2, <1>3, <1>4, <2>2
       DEF OnTrack, AtEntry, AtFlat, AtBulk, AtString, Decoding, ItemPcs,
           IdlePcs, InStringPhase, InString, Form, Words, ItemBytes, L, callVars
  <2>4. Outcome => Outcome'
    BY <1>1, <1>3 DEF Outcome, L, callVars, chainVars
  <2> QED
    BY <1>1, <2>3, <2>4 DEF Inv, TrackInv
<1>11. DeathsExplained'
  BY <1>4 DEF DeathsExplained
<1> QED
  BY <1>5, <1>6, <1>7, <1>8, <1>9, <1>10, <1>11 DEF Inv

\* A string is copied as far as the buffer goes, to its end, or to the end of its
\* padding.
LEMMA DecodeStringKeeps == ASSUME Inv, DecodeString PROVE Inv'
<1>1. /\ phases' = phases /\ sizes' = sizes /\ reply_len' = reply_len
      /\ N' = N /\ Layout(sizes)' = Layout(sizes) /\ KeepsPlace' = KeepsPlace
  BY ReplyKept DEF DecodeString
<1>2. /\ pc = "string" /\ InString /\ InStringPhase /\ cur \in 1 .. N
      /\ phase = cur
      /\ Form(cur) = "string"
      /\ state = "decoding_response" /\ verdict = "pending"
      /\ count >= ItemBytes
      /\ blob_left \in Nat \ {0} /\ bulk_count \in Nat \ {0}
  BY BoundsAssumption
     DEF DecodeString, Inv, TypeOK, ControlInv, CursorInv, ItemInv,
     InStringPhase, InString, ItemPcs, DecoderPcs, ItemBytes, Form
<1>3. /\ ~soaking => Whole(data_cursor) /\ Whole(data_cursor + blob_left - bulk_count)
      /\ soaking => Whole(data_cursor + blob_left) /\ blob_left = PaddingSize
      /\ PaddingSize \in 1 .. WordSize /\ Whole(bulk_count + PaddingSize)
  <2>1. PaddingSize \in 1 .. WordSize /\ Whole(bulk_count + PaddingSize)
    BY <1>2, PaddingIsWhole DEF PaddingSize
  <2> QED
    BY <1>2, <2>1 DEF Inv, CursorInv, Soaking
<1>4. UNCHANGED <<callVars, chainVars, data_stop, need_size, phase, count,
                  words_left, bulk_count, bulk_index>>
  BY DEF DecodeString
<1> DEFINE Stopped == /\ pc' = "advance" /\ cur' = cur /\ soaking' = soaking
                      /\ data_cursor' = data_stop /\ data_start' = data_cursor
                      /\ data_cursor' + blob_left' = data_cursor + blob_left
                      /\ blob_left' \in Nat \ {0} /\ blob_left' <= blob_left
                      /\ soaking => data_cursor = data_stop
           Copied == /\ pc' = "select" /\ cur' = cur /\ ~soaking /\ soaking' = TRUE
                     /\ data_cursor' = data_cursor + blob_left
                     /\ data_start' = data_cursor
                     /\ blob_left' = PaddingSize
           Soaked == /\ pc' = "enter" /\ cur' = cur + 1 /\ soaking /\ soaking' = soaking
                     /\ data_cursor' = data_cursor + blob_left
                     /\ data_start' = data_cursor' /\ blob_left' = 0
<1>5. /\ Stopped \/ Copied \/ Soaked
      /\ data_count' = received - data_start'
      /\ data_cursor' <= data_stop /\ data_cursor <= data_cursor'
      /\ data_start' <= data_cursor'
      /\ data_start \in Nat
  <2>1. CASE Segment < blob_left
    <3>1. soaking => data_cursor = data_stop
      <4> SUFFICES ASSUME soaking PROVE data_cursor = data_stop
        OBVIOUS
      <4>1. data_stop < data_cursor + blob_left
        BY <2>1, SegmentFits, Bounds
      <4>2. data_stop + WordSize <= data_cursor + blob_left
        BY <1>3, <4>1, Bounds, SegmentFits, WholeApart
      <4> QED
        BY <1>3, <4>2, Bounds
    <3>2. Stopped
      BY <1>2, <2>1, <3>1, SegmentFits, Bounds DEF DecodeString, PostDec
    <3> QED
      BY <2>1, <3>2, SegmentFits, Bounds DEF DecodeString, PostDec
  <2>2. CASE Segment = blob_left /\ ~soaking
    <3>1. Copied
      BY <1>3, <2>2, SegmentFits, Bounds DEF DecodeString, PostDec
    <3> QED
      BY <1>3, <2>2, <3>1, SegmentFits, Bounds DEF DecodeString, PostDec
  <2>3. CASE Segment = blob_left /\ soaking
    <3>1. /\ data_start' = data_cursor' /\ blob_left' = 0 /\ cur' = cur + 1
          /\ pc' = "enter"
          /\ soaking' = soaking
          /\ data_count' = data_count - (data_cursor' - data_start)
          /\ data_cursor' = data_cursor + blob_left
      <4>1. ~ (Segment < blob_left)
        BY <2>3, SegmentFits
      <4> QED
        BY <2>3, <4>1, SegmentFits DEF DecodeString
    <3> QED
      BY <1>3, <2>3, <3>1, SegmentFits, Bounds
  <2>4. soaking \in BOOLEAN
    BY DEF Inv, TypeOK
  <2>5. \/ Segment < blob_left
        \/ Segment = blob_left /\ ~soaking
        \/ Segment = blob_left /\ soaking
    BY SegmentFits
  <2> QED
    BY <2>1, <2>2, <2>3, <2>5
<1>6. /\ data_start' \in Nat /\ data_cursor' \in Nat /\ data_count' \in Int
      /\ blob_left' \in Nat /\ cur' \in 0 .. N + 1 /\ soaking' \in BOOLEAN
      /\ pc' \in {"advance", "select", "enter"}
  <2>1. CASE Stopped
    BY <1>2, <1>5, <2>1, Bounds, Standing DEF Inv, TypeOK
  <2>2. CASE Copied
    BY <1>2, <1>3, <1>5, <2>2, Bounds, Standing
  <2>3. CASE Soaked
    BY <1>2, <1>5, <2>3, Bounds, Standing DEF Inv, TypeOK
  <2> QED
    BY <1>5, <2>1, <2>2, <2>3
<1>7. TypeOK'
  BY <1>1, <1>4, <1>6 DEF Inv, TypeOK, Aborted, callVars, chainVars
<1>8. ChainInv'
  BY <1>1, <1>4, <1>5, <1>6, Bounds DEF Inv, ChainInv, DataEnd, chainVars
<1>9. WordsInv'
  <2>1. Whole(data_start')
    BY <1>3, <1>5, Bounds
  <2> QED
    BY <1>1, <1>4, <2>1 DEF Inv, WordsInv, chainVars
<1>10. CursorInv'
  <2>1. CASE Stopped
    BY <1>1, <1>2, <1>3, <1>4, <2>1, Bounds
       DEF Inv, CursorInv, Soaking, InStringPhase, InString, PaddingSize
  <2>2. CASE Copied
    <3>1. Whole(data_cursor' + PaddingSize)
      <4>1. Whole((data_cursor + blob_left - bulk_count) + (bulk_count + PaddingSize))
        BY <1>2, <1>3, <2>2, Bounds, WholeSum
      <4>2. (data_cursor + blob_left - bulk_count) + (bulk_count + PaddingSize)
              = data_cursor' + PaddingSize
        BY <1>2, <1>3, <2>2, Bounds
      <4> QED
        BY <4>1, <4>2
    <3> QED
      BY <1>1, <1>2, <1>3, <1>4, <2>2, <3>1
         DEF CursorInv, Soaking, InStringPhase, InString, PaddingSize
  <2>3. CASE Soaked
    BY <1>3, <2>3 DEF CursorInv, Soaking, InStringPhase
  <2> QED
    BY <1>5, <2>1, <2>2, <2>3
<1>11. ControlInv' /\ VerdictInv'
  <2>1. ControlInv'
    BY <1>1, <1>2, <1>4, <1>5, Standing
       DEF Inv, ControlInv, Decoding, Aborted, DecoderPcs, ItemPcs, InString,
           callVars, chainVars
  <2>2. VerdictInv'
    BY <1>1, <1>2, <1>4, <1>5 DEF Inv, VerdictInv, Aborted, callVars, chainVars
  <2> QED
    BY <2>1, <2>2
<1>12. ItemInv'
  BY <1>1, <1>2, <1>4, <1>5
     DEF ItemInv, ItemPcs, IdlePcs, InString, Form, Words, ItemBytes
<1>13. TrackInv'
  <2>1. Outcome => Outcome'
    BY <1>1, <1>4 DEF Outcome, L, callVars, chainVars
  <2> SUFFICES ASSUME KeepsPlace, OnTrack PROVE OnTrack'
    BY <1>1, <2>1 DEF Inv, TrackInv
  <2>2. /\ bulk_count = sizes[cur]
        /\ data_cursor + blob_left = IF soaking THEN L(cur + 1) ELSE L(cur) + bulk_count
    BY <1>2 DEF OnTrack, AtString, Decoding
  <2>3. CASE Stopped
    BY <1>1, <1>2, <1>4, <2>2, <2>3
       DEF OnTrack, AtEntry, AtFlat, AtBulk, AtString, InStringPhase, InString,
           Form, L
  <2>4. CASE Copied
    <3>1. L(cur + 1) = L(cur) + bulk_count + PaddingSize
      <4>1. L(cur + 1) = L(cur) + RoundUp(bulk_count) /\ L(cur) \in Nat
        BY <1>2, <2>2, Standing, LayoutAt
      <4>2. RoundUp(bulk_count) = bulk_count + PaddingSize
        <5>1. bulk_count % WordSize # 0
          BY <1>2, <2>2 DEF KeepsPlace, Form
        <5> QED
          BY <1>2, <5>1, PaddingIsWhole DEF PaddingSize
      <4> QED
        BY <1>2, <1>3, <4>1, <4>2
    <3> QED
      BY <1>1, <1>2, <1>4, <2>2, <2>4, <3>1
         DEF OnTrack, AtEntry, AtFlat, AtBulk, AtString, InStringPhase,
             InString, Form, L
  <2>5. CASE Soaked
    <3>1. ~ Counted(cur + 1)
      BY <1>2, Standing, DecoderShape DEF Counted, Form
    <3> QED
      BY <1>1, <1>2, <2>2, <2>5, <3>1
         DEF OnTrack, AtEntry, AtFlat, AtBulk, AtString, InStringPhase, Form, L,
             Counted, ItemPcs, IdlePcs
  <2> QED
    BY <1>5, <2>3, <2>4, <2>5
<1>14. DeathsExplained'
  BY <1>6 DEF DeathsExplained
<1> QED
  BY <1>7, <1>8, <1>9, <1>10, <1>11, <1>12, <1>13, <1>14 DEF Inv

\* Reading on in a buffer that more has come into.
LEMMA ReadOnKeeps == ASSUME Inv, ReadOn PROVE Inv'
<1>1. /\ phases' = phases /\ sizes' = sizes /\ reply_len' = reply_len
      /\ N' = N /\ Layout(sizes)' = Layout(sizes)
      /\ KeepsPlace' = KeepsPlace
  BY ReplyKept DEF ReadOn, replyVars
<1>2. WordsInv'
  BY Bounds DEF Inv, WordsInv, ReadOn, DataEnd, chainVars, replyVars
<1>3. TypeOK'
  BY <1>1
     DEF Inv, TypeOK, ReadOn, Aborted, callVars, chainVars, decodeVars,
         itemVars, replyVars, DataEnd, Advanced, InString
<1>4. /\ CursorInv' /\ ControlInv' /\ VerdictInv' /\ ItemInv' /\ TrackInv'
      /\ DeathsExplained'
  BY <1>1
     DEF Inv, CursorInv, ControlInv, VerdictInv, ItemInv, TrackInv,
         DeathsExplained, ReadOn, PaddingSize, InString, InStringPhase, Soaking,
         Aborted, Decoding, DecoderPcs, Words, ItemPcs, IdlePcs, Form, OnTrack,
         Outcome, callVars, chainVars, decodeVars, itemVars, replyVars, DataEnd,
         Advanced, AtEntry, AtFlat, AtBulk, AtString, Counted, ItemBytes, L
<1>5. ChainInv'
  BY <1>1, Standing, Bounds
     DEF Inv, ChainInv, ControlInv, ReadOn, DataEnd, Aborted, Decoding,
         InString, DecoderPcs, callVars, chainVars, decodeVars, itemVars,
         replyVars, Advanced, ItemPcs
<1> QED
  BY <1>2, <1>3, <1>4, <1>5 DEF Inv

\* The next buffer begins where the one before it ends.
LEMMA NextBufferKeeps == ASSUME Inv, NextBuffer PROVE Inv'
<1>1. /\ phases' = phases /\ sizes' = sizes /\ reply_len' = reply_len
      /\ N' = N /\ Layout(sizes)' = Layout(sizes)
      /\ KeepsPlace' = KeepsPlace
  BY ReplyKept DEF NextBuffer, replyVars
<1>2. /\ pc = "advance" /\ data_cursor = data_stop /\ head_base # tail_base
      /\ data_stop = head_base + BufSize
  BY Bounds DEF NextBuffer, Inv, CursorInv, DataEnd
<1>3. /\ head_base' = data_cursor /\ data_cursor' = data_cursor
      /\ data_start' = data_cursor /\ data_count' = received - data_cursor
      /\ data_stop' = DataEnd(data_cursor) /\ UNCHANGED <<tail_base, received,
                                                          lost, count,
                                                          reply_len>>
  BY <1>2, Bounds DEF NextBuffer, decodeVars, replyVars
<1>4. /\ data_cursor <= tail_base /\ Behind(data_cursor, tail_base)
  BY <1>2, Bounds, BehindApart DEF Inv, WordsInv
<1>5. /\ data_cursor <= DataEnd(data_cursor) /\ DataEnd(data_cursor) \in Nat
  BY <1>4, Bounds DEF Inv, ChainInv, DataEnd
<1>6. Whole(data_cursor) /\ Whole(data_cursor + BufSize)
  BY <1>2, Bounds, WholeSum, WholeUnits
<1>7. ChainInv'
  BY <1>3, <1>4, <1>5, Bounds DEF Inv, ChainInv, DataEnd
<1>8. WordsInv'
  BY <1>3, <1>4, <1>6, Bounds DEF Inv, WordsInv, DataEnd
<1>9. CursorInv'
  BY <1>1, <1>2, <1>3, <1>6
     DEF Inv, CursorInv, Soaking, InStringPhase, InString, PaddingSize,
         NextBuffer, Advanced, decodeVars, itemVars
<1>10. ControlInv' /\ ItemInv' /\ DeathsExplained'
  BY <1>1
     DEF Inv, ControlInv, ItemInv, DeathsExplained, NextBuffer, Aborted,
         Decoding, InString, DecoderPcs, Words, ItemPcs, IdlePcs, Form,
         callVars, decodeVars, itemVars, replyVars, DataEnd, Advanced
<1>11. VerdictInv'
  BY <1>1
     DEF Inv, VerdictInv, ControlInv, NextBuffer, Aborted, Decoding, InString,
         DecoderPcs, callVars, decodeVars, itemVars, replyVars, DataEnd,
         Advanced, ItemPcs
<1>12. TypeOK'
  <2>1. TypeOK
    BY DEF Inv
  <2>2. /\ head_base' \in Nat /\ data_start' \in Nat /\ data_cursor' \in Nat
        /\ data_stop' \in Nat /\ data_count' \in Int
    BY <1>3, <1>5, Bounds
  <2>3. pc' \in {"select", "blob"}
    BY DEF NextBuffer, Advanced
  <2>4. UNCHANGED <<callVars, tail_base, received, lost, decodeVars, itemVars>>
    BY DEF NextBuffer
  <2> QED
    BY <1>1, <2>1, <2>2, <2>3, <2>4
       DEF TypeOK, Aborted, callVars, decodeVars, itemVars
<1>13. TrackInv'
  BY <1>1, Bounds
     DEF Inv, TrackInv, CursorInv, ControlInv, NextBuffer, OnTrack, Outcome,
         PaddingSize, InString, InStringPhase, Soaking, Aborted, Decoding,
         DecoderPcs, callVars, decodeVars, itemVars, replyVars, DataEnd,
         Advanced, AtEntry, AtFlat, AtBulk, AtString, ItemPcs, Counted, IdlePcs,
         Form, ItemBytes, Words, L
<1> QED
  BY <1>7, <1>8, <1>9, <1>10, <1>11, <1>12, <1>13 DEF Inv

\* Nothing more is found on the chain only if the phase has not arrived.
LEMMA OutOfDataKeeps == ASSUME Inv, OutOfData PROVE Inv'
<1>1. /\ phases' = phases /\ sizes' = sizes /\ reply_len' = reply_len
      /\ N' = N /\ Layout(sizes)' = Layout(sizes)
      /\ KeepsPlace' = KeepsPlace
  BY ReplyKept DEF OutOfData, replyVars
<1>2. DeathsExplained'
  <2>1. /\ pc = "advance" /\ state = "decoding_response" /\ cur \in 1 .. N
        /\ count >= ItemBytes
        /\ data_cursor = received
    BY Bounds
       DEF OutOfData, Inv, ControlInv, ItemInv, CursorInv, ItemPcs, DecoderPcs,
           ItemBytes, DataEnd
  <2> SUFFICES ASSUME KeepsPlace
               PROVE /\ received < L(cur + 1)
                     /\ InString \/ (cur > 1 /\ count > data_count)
    BY <1>1
       DEF DeathsExplained, OutOfData, InString, L, chainVars, dataVars,
           decodeVars
  <2>2. CASE InString
    <3>1. /\ blob_left \in Nat \ {0}
          /\ data_cursor + blob_left
               = IF soaking THEN L(cur + 1) ELSE L(cur) + sizes[cur]
      BY <2>1, <2>2
         DEF Inv, TypeOK, CursorInv, TrackInv, OnTrack, AtString, InStringPhase,
             Decoding
    <3>2. /\ L(cur) + sizes[cur] <= L(cur + 1)
          /\ L(cur + 1) \in Nat /\ L(cur) \in Nat /\ sizes[cur] \in Nat
      <4>1. sizes[cur] \in Nat
        BY <2>1, Standing, DecoderShape, BoundsAssumption
      <4>2. RoundUp(sizes[cur]) \in Nat /\ sizes[cur] <= RoundUp(sizes[cur])
        BY <4>1, PaddingIsWhole
      <4> QED
        BY <2>1, <2>2, <4>1, <4>2, Standing, LayoutAt DEF InString, Form
    <3> QED
      BY <2>1, <2>2, <3>1, <3>2, Bounds
  <2>3. CASE ~InString
    <3>1. words_left > 0 /\ data_start = data_cursor
      BY <2>1, <2>3 DEF Inv, ItemInv, CursorInv
    <3>2. received < L(cur + 1) /\ cur > 1
      BY <2>1, <2>3, <3>1, WordsToCome, Bounds DEF Decoding, ItemPcs
    <3> QED
      BY <2>1, <3>1, <3>2, Bounds, Standing
  <2> QED
    BY <2>2, <2>3
<1>3. TypeOK'
  BY <1>1
     DEF Inv, TypeOK, OutOfData, Aborted, callVars, chainVars, dataVars,
         decodeVars, itemVars, replyVars, DataEnd
<1>4. /\ ChainInv' /\ WordsInv' /\ CursorInv' /\ ControlInv' /\ VerdictInv'
      /\ ItemInv' /\ TrackInv'
  BY <1>1
     DEF Inv, ChainInv, WordsInv, CursorInv, ControlInv, VerdictInv, ItemInv,
         TrackInv, OutOfData, DataEnd, PaddingSize, InString, InStringPhase,
         Soaking, Aborted, Decoding, DecoderPcs, Words, ItemPcs, IdlePcs, Form,
         OnTrack, Outcome, callVars, chainVars, dataVars, decodeVars, itemVars,
         replyVars, AtEntry, AtFlat, AtBulk, AtString, Counted, ItemBytes, L
<1> QED
  BY <1>2, <1>3, <1>4 DEF Inv

\* The call is given up on only if the reply is short.
LEMMA WaitForDataKeeps == ASSUME Inv, WaitForData PROVE Inv'
<1>1. /\ phases' = phases /\ sizes' = sizes /\ reply_len' = reply_len
      /\ N' = N /\ Layout(sizes)' = Layout(sizes)
      /\ KeepsPlace' = KeepsPlace
  BY ReplyKept DEF WaitForData, replyVars
<1>2. /\ pc = "switch" /\ pc' = "poll" /\ Decoding /\ phase = cur
      /\ cur \in 0 .. N
      /\ data_count < need_size /\ need_size \in Nat
      /\ cur \in 1 .. N /\ need_size = ItemBytes
      /\ UNCHANGED <<chainVars, dataVars, decodeVars, itemVars>>
  <2>1. /\ pc = "switch" /\ pc' = "poll" /\ Decoding /\ phase = cur /\ phase <= N
        /\ UNCHANGED <<chainVars, dataVars, decodeVars, itemVars>>
    BY DEF WaitForData, Inv, ControlInv, Decoding
  <2>2. cur \in 0 .. N
    BY <2>1, Standing
  <2>3. need_size = IF cur = 0 THEN 0 ELSE Words(cur) * WordSize
    BY <2>1 DEF Inv, ItemInv
  <2>4. need_size \in Nat /\ data_count \in Nat /\ data_count < need_size
    BY Bounds DEF WaitForData, Below, Inv, TypeOK
  <2>5. cur \in 1 .. N
    BY <2>2, <2>3, <2>4, Standing
  <2> QED
    BY <2>1, <2>2, <2>3, <2>4, <2>5 DEF ItemBytes
<1>3. \/ state' = "decoding_response" /\ error_code' = error_code
      \/ state' = "locally_aborted" /\ error_code' = "ENODATA"
  BY DEF WaitForData
<1>4. OnTrack => OnTrack'
  BY <1>1, <1>2, <1>3
     DEF OnTrack, AtEntry, AtFlat, AtBulk, AtString, Decoding, ItemPcs, IdlePcs,
         InStringPhase, InString, Form, Words, ItemBytes, L, chainVars,
         dataVars, decodeVars, itemVars
<1>5. ASSUME KeepsPlace PROVE received < L(N + 1)
  <2>1. OnTrack
    BY <1>5 DEF Inv, TrackInv
  <2>2. received < data_cursor + ItemBytes /\ ItemBytes \in Nat \ {0}
    BY <1>2, Bounds, Standing
  <2>3. received < L(cur + 1)
    <3>1. CASE Form(cur) = "flat"
      BY <1>2, <2>1, <2>2, <3>1, Standing, LayoutAt, Bounds
         DEF OnTrack, AtFlat, IdlePcs, ItemBytes
    <3>2. CASE Form(cur) = "bulk"
      <4>1. /\ bulk_index < sizes[cur] /\ bulk_index \in Nat
            /\ data_cursor = L(cur) + bulk_index * ItemBytes
        BY <1>2, <2>1, <3>2 DEF OnTrack, AtBulk, IdlePcs, Inv, ItemInv, TypeOK
      <4>2. /\ L(cur) + bulk_index * ItemBytes + ItemBytes <= L(cur + 1)
            /\ L(cur + 1) \in Nat
        BY <1>2, <3>2, <4>1, LayoutAt, Standing DEF ItemBytes
      <4> QED
        BY <2>2, <4>1, <4>2, Bounds
    <3>3. CASE Form(cur) = "string"
      <4>1. InStringPhase /\ ItemBytes = WordSize /\ blob_left \in Nat \ {0}
        BY <1>2, <3>3, Standing
           DEF InStringPhase, InString, Form, Inv, TypeOK, CursorInv
      <4>2. /\ L(cur + 1) \in Nat /\ L(cur) \in Nat /\ sizes[cur] \in Nat
            /\ L(cur + 1) = L(cur) + RoundUp(sizes[cur])
            /\ sizes[cur] <= RoundUp(sizes[cur]) /\ RoundUp(sizes[cur]) \in Nat
        <5>1. sizes[cur] \in Nat
          BY <1>2, Standing, DecoderShape, BoundsAssumption
        <5> QED
          BY <1>2, <3>3, <5>1, Standing, LayoutAt, PaddingIsWhole
      <4>3. received <= data_start
        <5>1. received - data_start < WordSize
          BY <1>2, <4>1, Bounds
        <5>2. data_start < received => data_start + WordSize <= received
          BY Bounds, WholeApart
        <5> QED
          BY <5>1, <5>2, Bounds
      <4>4. data_cursor + blob_left <= L(cur + 1)
        BY <1>2, <2>1, <4>1, <4>2 DEF OnTrack, AtString
      <4> QED
        BY <4>1, <4>2, <4>3, <4>4, Bounds
    <3> QED
      BY <1>2, <3>1, <3>2, <3>3, Standing
  <2> QED
    BY <1>2, <2>3, Standing, LayoutAt, Bounds
<1>6. KeepsPlace /\ Outcome => Outcome'
  BY <1>1, <1>2, <1>3, <1>5 DEF Outcome, L, chainVars
<1>7. TrackInv'
  BY <1>1, <1>4, <1>6 DEF Inv, TrackInv
<1>8. TypeOK'
  BY <1>1
     DEF Inv, TypeOK, WaitForData, Aborted, chainVars, dataVars, decodeVars,
         itemVars, replyVars, Below, Decoding
<1>9. ChainInv' /\ WordsInv' /\ CursorInv'
  BY <1>1
     DEF Inv, ChainInv, WordsInv, CursorInv, WaitForData, DataEnd, PaddingSize,
         InString, InStringPhase, Soaking, chainVars, dataVars, decodeVars,
         itemVars, replyVars, Below, Decoding
<1>10. ControlInv' /\ ItemInv' /\ DeathsExplained'
  BY <1>1
     DEF Inv, ControlInv, ItemInv, DeathsExplained, WaitForData, Aborted,
         Decoding, InString, DecoderPcs, Words, ItemPcs, IdlePcs, Form,
         chainVars, dataVars, decodeVars, itemVars, replyVars, Below
<1>11. VerdictInv'
  BY <1>1
     DEF Inv, VerdictInv, ControlInv, WaitForData, Aborted, Decoding, InString,
         DecoderPcs, chainVars, dataVars, decodeVars, itemVars, replyVars,
         Below, ItemPcs
<1> QED
  BY <1>7, <1>8, <1>9, <1>10, <1>11 DEF Inv

\* The decoder goes on where it stopped.
LEMMA CallDecoderKeeps == ASSUME Inv, CallDecoder PROVE Inv'
<1>1. /\ phases' = phases /\ sizes' = sizes /\ reply_len' = reply_len
      /\ N' = N /\ Layout(sizes)' = Layout(sizes)
      /\ KeepsPlace' = KeepsPlace
  BY ReplyKept DEF CallDecoder, replyVars
<1>2. /\ pc = "switch" /\ phase = cur /\ Decoding /\ cur \in 0 .. N /\ N \in Nat
      /\ state' = "decoding_response" /\ count' = data_count
      /\ \/ cur = 0 /\ cur' = 1 /\ pc' = "enter"
         \/ cur \in 1 .. N /\ cur' = cur /\ pc' = "check"
      /\ UNCHANGED <<known_to_kernel, more_recv, error_code, verdict, chainVars,
                     dataVars, need_size, phase, words_left, itemVars>>
  BY Standing DEF CallDecoder, Inv, ControlInv, Decoding
<1>3. TypeOK'
  <2>1. TypeOK /\ data_count \in Int
    BY Bounds DEF Inv
  <2>2. cur' \in 0 .. N + 1 /\ pc' \in {"enter", "check"}
    BY <1>2
  <2>3. /\ UNCHANGED <<known_to_kernel, more_recv, error_code, verdict, chainVars,
                       dataVars, need_size, phase, words_left, itemVars>>
        /\ state' = "decoding_response" /\ count' = data_count
    BY <1>2
  <2> QED
    BY <1>1, <2>1, <2>2, <2>3 DEF TypeOK, Aborted, chainVars, dataVars, itemVars
<1>4. CursorInv'
  BY <1>1, <1>2
     DEF Inv, CursorInv, Soaking, InStringPhase, InString, PaddingSize,
         chainVars, dataVars, itemVars
<1>5. TrackInv'
  <2>1. Outcome => Outcome'
    BY <1>1, <1>2 DEF Outcome, L, chainVars, Decoding
  <2>2. ASSUME OnTrack, cur = 0 PROVE OnTrack'
    <3>1. data_cursor = L(1) /\ ~ Counted(1)
      <4>1. data_cursor = 0
        BY <1>2, <2>2 DEF OnTrack, AtEntry
      <4>2. ~Counted(1)
        BY Standing, DecoderShape DEF Counted
      <4> QED
        BY <4>1, <4>2, Standing
    <3> QED
      BY <1>1, <1>2, <2>2, <3>1
         DEF OnTrack, AtEntry, AtFlat, AtBulk, AtString, InStringPhase, ItemPcs,
             IdlePcs, L, Counted, dataVars
  <2>3. ASSUME OnTrack, cur \in 1 .. N, cur' = cur, pc' = "check" PROVE OnTrack'
    BY <1>1, <1>2, <2>3
       DEF OnTrack, AtEntry, AtFlat, AtBulk, AtString, InStringPhase, InString,
           ItemPcs, IdlePcs, L, ItemBytes, Words, Form, dataVars, chainVars,
           itemVars
  <2> QED
    BY <1>1, <1>2, <2>1, <2>2, <2>3 DEF Inv, TrackInv
<1>6. WordsInv' /\ VerdictInv' /\ DeathsExplained'
  BY <1>1
     DEF Inv, WordsInv, VerdictInv, DeathsExplained, CallDecoder, Aborted,
         InString, chainVars, dataVars, itemVars, replyVars, Below, Decoding
<1>7. ItemInv'
  BY <1>1
     DEF Inv, ItemInv, ControlInv, CallDecoder, Words, Decoding, InString,
         ItemPcs, IdlePcs, Form, Aborted, DecoderPcs, chainVars, dataVars,
         itemVars, replyVars, Below
<1>8. ControlInv'
  BY <1>1, Standing
     DEF Inv, ControlInv, CallDecoder, Aborted, Decoding, InString, DecoderPcs,
         chainVars, dataVars, itemVars, replyVars, Below, ItemPcs
<1>9. ChainInv'
  BY <1>1, Standing, Bounds
     DEF Inv, ChainInv, ControlInv, CallDecoder, DataEnd, Aborted, Decoding,
         InString, DecoderPcs, chainVars, dataVars, itemVars, replyVars, Below,
         ItemPcs
<1> QED
  BY <1>3, <1>4, <1>5, <1>6, <1>7, <1>8, <1>9 DEF Inv

\* Nothing is decoded of a call that is over.
LEMMA SwitchFinishedKeeps == ASSUME Inv, SwitchFinished PROVE Inv'
<1>1. /\ phases' = phases /\ sizes' = sizes /\ reply_len' = reply_len
      /\ N' = N /\ Layout(sizes)' = Layout(sizes)
      /\ KeepsPlace' = KeepsPlace
  BY ReplyKept DEF SwitchFinished, replyVars
<1>2. TypeOK'
  BY <1>1
     DEF Inv, TypeOK, SwitchFinished, Aborted, callVars, chainVars, dataVars,
         decodeVars, itemVars, replyVars, Decoding
<1>3. /\ ChainInv' /\ WordsInv' /\ CursorInv' /\ VerdictInv' /\ ItemInv'
      /\ TrackInv' /\ DeathsExplained'
  BY <1>1
     DEF Inv, ChainInv, WordsInv, CursorInv, VerdictInv, ItemInv, TrackInv,
         DeathsExplained, SwitchFinished, DataEnd, PaddingSize, InString,
         InStringPhase, Soaking, Aborted, Words, Decoding, ItemPcs, IdlePcs,
         Form, OnTrack, Outcome, callVars, chainVars, dataVars, decodeVars,
         itemVars, replyVars, AtEntry, AtFlat, AtBulk, AtString, Counted,
         ItemBytes, L
<1>4. ControlInv'
  BY <1>1, Standing, BoundsAssumption
     DEF Inv, ControlInv, TypeOK, SwitchFinished, Aborted, Decoding, InString,
         DecoderPcs, callVars, chainVars, dataVars, decodeVars, itemVars,
         replyVars, ItemPcs
<1> QED
  BY <1>2, <1>3, <1>4 DEF Inv

\* What is left when everything is decoded is discarded.
LEMMA DiscardExcessKeeps == ASSUME Inv, DiscardExcess PROVE Inv'
<1>1. /\ phases' = phases /\ sizes' = sizes /\ reply_len' = reply_len
      /\ N' = N /\ Layout(sizes)' = Layout(sizes)
      /\ KeepsPlace' = KeepsPlace
  BY ReplyKept DEF DiscardExcess, replyVars
<1>2. WordsInv'
  BY Bounds, BehindSelf DEF Inv, WordsInv, DiscardExcess, replyVars
<1>3. TypeOK'
  BY <1>1
     DEF Inv, TypeOK, DiscardExcess, Aborted, decodeVars, itemVars, replyVars,
         Finished
<1>4. ChainInv' /\ ControlInv' /\ DeathsExplained'
  BY <1>1
     DEF Inv, ChainInv, ControlInv, DeathsExplained, DiscardExcess, DataEnd,
         Aborted, Decoding, InString, DecoderPcs, decodeVars, itemVars,
         replyVars, Finished, ItemPcs
<1>5. VerdictInv' /\ TrackInv'
  BY <1>1
     DEF Inv, VerdictInv, TrackInv, ControlInv, DiscardExcess, Aborted, OnTrack,
         Outcome, Decoding, InString, DecoderPcs, decodeVars, itemVars,
         replyVars, Finished, AtEntry, AtFlat, AtBulk, AtString, ItemPcs,
         Counted, IdlePcs, Form, ItemBytes, InStringPhase, Words, L
<1>6. ItemInv'
  BY <1>1, Standing
     DEF Inv, ItemInv, ControlInv, DiscardExcess, Words, Decoding, InString,
         ItemPcs, IdlePcs, Form, Aborted, DecoderPcs, decodeVars, itemVars,
         replyVars, Finished
<1>7. CursorInv'
  BY <1>1, Standing, Bounds
     DEF Inv, CursorInv, ControlInv, DiscardExcess, PaddingSize, InString,
         InStringPhase, Soaking, Aborted, Decoding, DecoderPcs, decodeVars,
         itemVars, replyVars, Finished, ItemPcs
<1> QED
  BY <1>2, <1>3, <1>4, <1>5, <1>6, <1>7 DEF Inv

\* The call returns only when it is settled.
LEMMA ReturnCallKeeps == ASSUME Inv, ReturnCall PROVE Inv'
<1>1. /\ phases' = phases /\ sizes' = sizes /\ reply_len' = reply_len
      /\ N' = N /\ Layout(sizes)' = Layout(sizes)
      /\ KeepsPlace' = KeepsPlace
  BY ReplyKept DEF ReturnCall, replyVars
<1>2. TypeOK'
  BY <1>1
     DEF Inv, TypeOK, ReturnCall, Aborted, chainVars, dataVars, decodeVars,
         itemVars, replyVars
<1>3. /\ ChainInv' /\ WordsInv' /\ CursorInv' /\ ControlInv' /\ VerdictInv'
      /\ ItemInv' /\ TrackInv'
  BY <1>1
     DEF Inv, ChainInv, WordsInv, CursorInv, ControlInv, VerdictInv, ItemInv,
         TrackInv, ReturnCall, DataEnd, PaddingSize, InString, InStringPhase,
         Soaking, Aborted, Decoding, DecoderPcs, Words, ItemPcs, IdlePcs, Form,
         OnTrack, Outcome, chainVars, dataVars, decodeVars, itemVars, replyVars,
         AtEntry, AtFlat, AtBulk, AtString, Counted, ItemBytes, L
<1>4. DeathsExplained'
  BY <1>1
     DEF Inv, DeathsExplained, ControlInv, ReturnCall, InString, Aborted,
         Decoding, DecoderPcs, chainVars, dataVars, decodeVars, itemVars,
         replyVars, ItemPcs
<1> QED
  BY <1>2, <1>3, <1>4 DEF Inv

\* The call is terminated when it has returned.
LEMMA TerminateCallKeeps == ASSUME Inv, TerminateCall PROVE Inv'
<1>1. /\ phases' = phases /\ sizes' = sizes /\ reply_len' = reply_len
      /\ N' = N /\ Layout(sizes)' = Layout(sizes)
      /\ KeepsPlace' = KeepsPlace
  BY ReplyKept DEF TerminateCall, replyVars
<1>2. TypeOK'
  BY <1>1
     DEF Inv, TypeOK, TerminateCall, Aborted, chainVars, dataVars, decodeVars,
         itemVars, replyVars, AbortNeeded
<1>3. ChainInv' /\ WordsInv' /\ CursorInv'
  BY <1>1
     DEF Inv, ChainInv, WordsInv, CursorInv, TerminateCall, DataEnd,
         PaddingSize, InString, InStringPhase, Soaking, chainVars, dataVars,
         decodeVars, itemVars, replyVars, AbortNeeded
<1>4. ControlInv' /\ VerdictInv' /\ ItemInv' /\ TrackInv' /\ DeathsExplained'
  BY <1>1
     DEF Inv, ControlInv, VerdictInv, ItemInv, TrackInv, DeathsExplained,
         TerminateCall, Aborted, Decoding, InString, DecoderPcs, Words, ItemPcs,
         IdlePcs, Form, OnTrack, Outcome, chainVars, dataVars, decodeVars,
         itemVars, replyVars, AbortNeeded, AtEntry, AtFlat, AtBulk, AtString,
         Counted, ItemBytes, InStringPhase, L
<1> QED
  BY <1>2, <1>3, <1>4 DEF Inv

\* The initial states.
LEMMA InitInv == ASSUME WholeWords, Init PROVE Inv
<1>1. ReplyOK /\ reply_len \in Nat /\ Whole(reply_len) /\ N \in Nat
  <2>1. ReplyOK
    BY DEF Init, ReplyOK
  <2>2. N \in Nat /\ L(N + 1) \in Nat /\ Whole(L(N + 1))
    BY <2>1, DecoderShape, LayoutBounds
  <2>3. PICK s \in Slack : L(N + 1) + s >= 0 /\ reply_len = L(N + 1) + s
    BY DEF Init, L
  <2>4. s \in Int /\ Whole(s)
    BY BoundsAssumption DEF WholeWords
  <2>5. Whole(L(N + 1) + s)
    BY <2>2, <2>4, WholeSum
  <2> QED
    BY <2>1, <2>2, <2>3, <2>4, <2>5
<1>2. BufSize \in Nat
  BY SizesAssumption
<1>3. TypeOK
  <2>1. 0 \in 0 .. N + 1 /\ 0 \in 0 .. MaxItems
    BY <1>1, BoundsAssumption
  <2>2. phases \in Decoders /\ sizes \in [1 .. N -> 0 .. MaxItems]
    BY <1>1 DEF ReplyOK
  <2>3. /\ pc = "poll" /\ state = "waiting_for_response"
        /\ known_to_kernel = TRUE
        /\ more_recv = TRUE /\ error_code = "none" /\ verdict = "pending"
        /\ head_base = 0 /\ tail_base = 0 /\ received = 0 /\ lost = 0
        /\ data_start = 0 /\ data_cursor = 0 /\ data_stop = 0 /\ data_count = 0
        /\ need_size = 0 /\ phase = 0 /\ cur = 0 /\ count = 0 /\ words_left = 0
        /\ bulk_count = 0 /\ bulk_index = 0 /\ blob_left = 0 /\ soaking = FALSE
    BY DEF Init
  <2>4. pc \in {"poll", "switch", "select", "enter", "check", "word", "blob",
             "string", "advance", "decoded", "return", "done", "dead", "astray"}
    BY <2>3
  <2>5. state \in {"waiting_for_response", "decoding_response",
                "wait_for_no_MSG_MORE", "complete"} \cup Aborted
    BY <2>3
  <2>6. known_to_kernel \in BOOLEAN /\ more_recv \in BOOLEAN
    BY <2>3
  <2>7. soaking \in BOOLEAN
    BY <2>3
  <2>8. phase \in 0 .. N + 1 /\ cur \in 0 .. N + 1
    BY <2>1, <2>3
  <2> QED
    BY <1>1, <2>1, <2>2, <2>3, <2>4, <2>5, <2>6, <2>7, <2>8 DEF TypeOK
<1>4. ChainInv
  BY <1>1, <1>2 DEF Init, ChainInv, DataEnd
<1>5. WordsInv
  BY <1>1, WholeUnits, BehindSelf DEF Init, WordsInv
<1>6. CursorInv
  BY WholeUnits DEF Init, CursorInv, Soaking, InStringPhase
<1>7. ControlInv /\ VerdictInv
  BY <1>1 DEF Init, ControlInv, VerdictInv, Decoding, DecoderPcs, ItemPcs
<1>8. ItemInv
  BY DEF Init, ItemInv, ItemPcs
<1>9. TrackInv /\ DeathsExplained
  BY DEF Init, TrackInv, OnTrack, Outcome, AtEntry, AtFlat, AtBulk, AtString,
         InStringPhase, DeathsExplained
<1> QED
  BY <1>3, <1>4, <1>5, <1>6, <1>7, <1>8, <1>9 DEF Inv

\* Doing nothing.
LEMMA StutterKeeps == ASSUME Inv, UNCHANGED vars PROVE Inv'
<1>1. /\ phases' = phases /\ sizes' = sizes /\ reply_len' = reply_len
      /\ N' = N /\ Layout(sizes)' = Layout(sizes) /\ KeepsPlace' = KeepsPlace
  BY ReplyKept DEF vars
<1> USE <1>1 DEF vars, callVars, chainVars, dataVars, decodeVars, itemVars
<1>2. TypeOK' /\ ChainInv' /\ WordsInv' /\ VerdictInv'
  BY DEF Inv, TypeOK, ChainInv, WordsInv, VerdictInv, DataEnd, Aborted
<1>3. CursorInv' /\ ControlInv' /\ ItemInv'
  BY DEF Inv, CursorInv, ControlInv, ItemInv, Soaking, InStringPhase, InString,
         PaddingSize, Decoding, Aborted, DecoderPcs, ItemPcs, IdlePcs, Form,
         Words
<1>4. TrackInv' /\ DeathsExplained'
  BY DEF Inv, TrackInv, OnTrack, Outcome, AtEntry, AtFlat, AtBulk, AtString,
         InStringPhase, InString, Decoding, ItemPcs, IdlePcs, Form, Words,
         ItemBytes, Counted, L, DeathsExplained
<1> QED
  BY <1>2, <1>3, <1>4 DEF Inv

\* What the invariant says that the theorems below state.
LEMMA InvImplies ==
  ASSUME Inv PROVE TypeOK /\ CountsAgree /\ VerdictRight /\ DeathsExplained
<1>1. CountsAgree
  BY Bounds DEF Inv, ChainInv, CountsAgree, DataEnd
<1>2. VerdictRight
  <2> SUFFICES ASSUME pc = "done" PROVE VerdictRight
    BY DEF VerdictRight
  <2>1. reply_len \in Nat /\ received \in Nat /\ L(N + 1) \in Nat
    BY Bounds, Standing
  <2>2. verdict \in {"ok", "failed"}
    BY DEF Inv, TypeOK, ControlInv
  <2> QED
    BY <2>1, <2>2, Standing
       DEF Inv, ControlInv, VerdictInv, TrackInv, Outcome, VerdictRight, L,
           Aborted
<1> QED
  BY <1>1, <1>2 DEF Inv

-----------------------------------------------------------------------------
(* All steps together, and the stream that the reply is. *)

\* Each step of the call keeps the invariant.
LEMMA NextKeeps == ASSUME Inv, WholeWords, [Next]_vars PROVE Inv'
<1>1. ASSUME Receive PROVE Inv'
  BY <1>1, ReceiveDataKeeps, ReceiveEndKeeps, ReceiveFailureKeeps,
     ReceiveErrorKeeps
     DEF Receive
<1>2. ASSUME Decode PROVE Inv'
  BY <1>2, SelectPhaseKeeps, EnterFlatKeeps, SkipEmptyKeeps, EnterBulkKeeps,
     SkipOpaqueKeeps, DecoderFailsKeeps,
     EnterStringKeeps, EnterEndKeeps, CheckPhaseKeeps, EndFlatKeeps,
     EndItemKeeps, DecodeWordKeeps, DecodeSlowKeeps, DecodeBlobKeeps,
     DecodeStringKeeps, ReadOnKeeps, NextBufferKeeps, OutOfDataKeeps
     DEF Decode
<1>3. ASSUME Run PROVE Inv'
  BY <1>3, WaitForDataKeeps, CallDecoderKeeps, SwitchFinishedKeeps,
     DiscardExcessKeeps, ReturnCallKeeps, TerminateCallKeeps
     DEF Run
<1> QED
  BY <1>1, <1>2, <1>3, StutterKeeps DEF Next

\* The call begins with an empty stream.
LEMMA StreamInit == Init => Stream!Init
BY DEF Init, Stream!Init

\* A step of the call is a step of the stream of its reply.
LEMMA StreamStep == ASSUME Inv, [Next]_vars PROVE [Stream!Next]_(Stream!vars)
<1> USE DEF Stream!vars
<1> DEFINE outcome == IF pc \in {"dead", "astray"} THEN "crashed" ELSE verdict
<1>1. received \in Nat /\ data_cursor \in Nat /\ data_cursor <= received
  BY Bounds
<1>2. ASSUME NEW len \in Chunks \cup {reply_len - received}, NEW last \in BOOLEAN,
             NEW eor \in BOOLEAN, ReceiveData(len, last, eor)
      PROVE [Stream!Next]_(Stream!vars)
  <2>1. received' = received + len /\ len \in Nat
    BY <1>2, BoundsAssumption, Bounds DEF ReceiveData, Attach, Inv, ChainInv
  <2>2. outcome = "pending" /\ outcome' = outcome /\ data_cursor' = data_cursor
    BY <1>2 DEF ReceiveData, Inv, ControlInv
  <2> QED
    BY <1>1, <2>1, <2>2 DEF Stream!Next, Stream!Arrive
<1>3. ASSUME ReceiveEnd \/ (\E kind \in Faults \cap DOMAIN Reason : ReceiveFailure(kind))
      PROVE  UNCHANGED Stream!vars
  BY <1>1, <1>3 DEF ReceiveEnd, ReceiveFailure, Attach, Inv, ControlInv
<1>4. ASSUME NEW kind \in Faults \cap {"recvmsg", "no_memory"}, ReceiveError(kind)
      PROVE [Stream!Next]_(Stream!vars)
  BY <1>4
     DEF ReceiveError, Inv, ControlInv, dataVars, Stream!Next, Stream!Settle
<1>5. ASSUME Decode
      PROVE  /\ verdict = "pending" /\ verdict' = verdict /\ received' = received
             /\ pc \notin {"dead", "astray"}
  BY <1>5
     DEF Decode, Inv, ControlInv, DecoderPcs, ItemPcs, callVars, chainVars,
         SelectPhase, EnterFlat, SkipEmpty, SkipOpaque, DecoderFails, EnterBulk, EnterString, EnterEnd,
         CheckPhase, EndFlat, EndItem, DecodeWord, DecodeSlow, DecodeBlob,
         DecodeString, ReadOn, NextBuffer, OutOfData
<1>6. ASSUME NextBuffer PROVE data_cursor' = data_cursor
  BY <1>6, Bounds DEF NextBuffer, Inv, CursorInv, DataEnd
<1>7. ASSUME DecodeWord PROVE data_cursor' \in data_cursor .. received
  <2>1. /\ Whole(data_cursor) /\ data_cursor < data_stop
        /\ data_cursor' = data_cursor + WordSize
    BY <1>7 DEF DecodeWord, Aligned, Whole
  <2>2. data_cursor + WordSize <= data_stop
    BY <2>1, Bounds, WholeApart
  <2> QED
    BY <2>1, <2>2, Bounds
<1>8. ASSUME DecodeBlob PROVE data_cursor' \in data_cursor .. received
  BY <1>8, SegmentFits, Bounds DEF DecodeBlob
<1>9. ASSUME DecodeString PROVE data_cursor' \in data_cursor .. received
  BY <1>9, SegmentFits, Bounds DEF DecodeString
<1>10. ASSUME Decode PROVE data_cursor' \in data_cursor .. received
  BY <1>10, <1>1, <1>6, <1>7, <1>8, <1>9
     DEF Decode, SelectPhase, EnterFlat, SkipEmpty, SkipOpaque, DecoderFails, EnterBulk, EnterString,
         EnterEnd, CheckPhase, EndFlat, EndItem, DecodeSlow, ReadOn, OutOfData,
         dataVars
<1>11. ASSUME Decode PROVE [Stream!Next]_(Stream!vars)
  <2>1. /\ received' = received /\ data_cursor' \in data_cursor .. received
        /\ outcome = "pending" /\ outcome' \in {"pending", "crashed"}
    BY <1>5, <1>10, <1>11
  <2>2. pc' \in {"dead", "astray"} => data_cursor' = data_cursor
    BY <1>11, SegmentFits
       DEF Decode, SelectPhase, EnterFlat, SkipEmpty, SkipOpaque, DecoderFails, EnterBulk, EnterString,
           EnterEnd, CheckPhase, EndFlat, EndItem, DecodeWord, DecodeSlow,
           DecodeBlob, DecodeString, ReadOn, NextBuffer, OutOfData, dataVars,
           Advanced
  <2>3. outcome' = "crashed" => data_cursor' = data_cursor
    BY <1>5, <1>11, <2>2
  <2>4. CASE outcome' = "pending"
    <3>1. Stream!Consume
      BY <2>1, <2>4 DEF Stream!Consume
    <3> QED
      BY <3>1 DEF Stream!Next
  <2>5. CASE outcome' = "crashed"
    <3>1. Stream!Settle
      BY <2>1, <2>3, <2>5 DEF Stream!Settle
    <3> QED
      BY <3>1 DEF Stream!Next
  <2> QED
    BY <2>1, <2>4, <2>5
<1>12. ASSUME WaitForData \/ CallDecoder \/ SwitchFinished \/ TerminateCall
       PROVE UNCHANGED Stream!vars
  BY <1>12
     DEF WaitForData, CallDecoder, SwitchFinished, TerminateCall, dataVars,
         chainVars, callVars
<1>13. ASSUME DiscardExcess PROVE [Stream!Next]_(Stream!vars)
  <2>1. Stream!Consume
    BY <1>1, <1>13 DEF DiscardExcess, Stream!Consume, Inv, ControlInv
  <2> QED
    BY <2>1 DEF Stream!Next
<1>14. ASSUME ReturnCall PROVE [Stream!Next]_(Stream!vars)
  <2>1. /\ outcome = "pending" /\ UNCHANGED <<received, data_cursor>>
        /\ outcome' \in {"ok", "failed", "crashed"}
        /\ outcome' = "ok" => data_cursor = received
    BY <1>14 DEF ReturnCall, Inv, ControlInv, VerdictInv, chainVars, dataVars
  <2>2. Stream!Settle
    BY <2>1 DEF Stream!Settle
  <2> QED
    BY <2>2 DEF Stream!Next
<1>15. ASSUME UNCHANGED vars PROVE UNCHANGED Stream!vars
  BY <1>15 DEF vars, callVars, chainVars, dataVars
<1> QED
  BY <1>2, <1>3, <1>4, <1>11, <1>12, <1>13, <1>14, <1>15 DEF Next, Receive, Run

\* A message with data in it costs no buffer, and nothing else brings data.
LEMMA LosesNothing ==
  ASSUME Inv, [Next]_vars PROVE [received' > received => lost' = lost]_vars
<1> SUFFICES ASSUME received' > received, Next PROVE lost' = lost
  BY DEF vars, chainVars
<1>1. received \in Nat
  BY Bounds
<1>2. ASSUME NEW len \in Chunks \cup {reply_len - received}, NEW last \in BOOLEAN,
             NEW eor \in BOOLEAN, ReceiveData(len, last, eor)
      PROVE  lost' = lost
  <2>1. len \in Nat
    BY BoundsAssumption, Bounds DEF Inv, ChainInv
  <2>2. Attach(len)
    BY <1>2 DEF ReceiveData
  <2>3. len > 0
    BY <1>1, <2>1, <2>2 DEF Attach
  <2> QED
    BY <1>1, <2>1, <2>2, <2>3, SizesAssumption
       DEF Attach, FreedUnused, Fresh, Inv, TypeOK
<1>3. ReceiveEnd \/ (\E kind \in Faults \cap DOMAIN Reason : ReceiveFailure(kind)) => FALSE
  BY <1>1 DEF ReceiveEnd, ReceiveFailure, Attach
<1>4. \A kind \in Faults \cap {"recvmsg", "no_memory"} : ReceiveError(kind) => FALSE
  BY <1>1 DEF ReceiveError
<1>5. Decode => FALSE
  BY <1>1
     DEF Decode, chainVars, SelectPhase, EnterFlat, SkipEmpty, SkipOpaque, DecoderFails, EnterBulk,
         EnterString, EnterEnd, CheckPhase, EndFlat, EndItem, DecodeWord,
         DecodeSlow, DecodeBlob, DecodeString, ReadOn, NextBuffer, OutOfData
<1>6. Run => FALSE
  BY <1>1
     DEF Run, chainVars, WaitForData, CallDecoder, SwitchFinished,
         DiscardExcess, ReturnCall, TerminateCall
<1> QED
  BY <1>2, <1>3, <1>4, <1>5, <1>6 DEF Next, Receive

-----------------------------------------------------------------------------
(* The theorems.  WholeWords says that no message and no reply ends inside a *)
(* word: packets hold whole words, and so does what XDR encodes.             *)

\* Every state of a call is one the invariant describes.
THEOREM Invariance == WholeWords /\ Spec => []Inv
<1> SUFFICES ASSUME WholeWords PROVE Spec => []Inv
  OBVIOUS
<1>1. Init => Inv
  BY InitInv
<1>2. Inv /\ [Next]_vars => Inv'
  BY NextKeeps
<1> QED
  BY <1>1, <1>2, PTL DEF Spec

\* The variables of a call keep to their types: no counter, pointer or index
\* of the receive path goes below zero or past the bound of its array.
THEOREM TypeCorrect == WholeWords /\ Spec => []TypeOK
<1>1. Inv => TypeOK
  BY InvImplies
<1> QED
  BY <1>1, Invariance, PTL

\* data_count is what has arrived less what has been accounted for, and the
\* decoder is never ahead of what has arrived nor outside the buffer it reads.
THEOREM CountsAlwaysAgree == WholeWords /\ Spec => []CountsAgree
<1>1. Inv => CountsAgree
  BY InvImplies
<1> QED
  BY <1>1, Invariance, PTL

\* The caller is told of a success only if the whole reply was decoded, of a
\* short reply only if it was short, and the kernel has let go of the call.
THEOREM VerdictAlwaysRight == WholeWords /\ Spec => []VerdictRight
<1>1. Inv => VerdictRight
  BY InvImplies
<1> QED
  BY <1>1, Invariance, PTL

\* The assertions of the receive path fail for the reasons listed only.
THEOREM DeathsAlwaysExplained == WholeWords /\ Spec => []DeathsExplained
<1>1. Inv => DeathsExplained
  BY InvImplies
<1> QED
  BY <1>1, Invariance, PTL

\* No message that brings data costs a buffer.
THEOREM DataNeverLoses == WholeWords /\ Spec => DataLosesNothing
<1>1. Inv /\ [Next]_vars => [received' > received => lost' = lost]_vars
  BY LosesNothing
<1> QED
  BY <1>1, Invariance, PTL DEF Spec, DataLosesNothing

\* The receiving half of a call is a stream that is consumed in order and never
\* ahead of what has arrived, and settled once.
THEOREM RefinesReplyStream == WholeWords /\ Spec => StreamSpec
<1>1. Init => Stream!Init
  BY StreamInit
<1>2. Inv /\ [Next]_vars => [Stream!Next]_(Stream!vars)
  BY StreamStep
<1> QED
  BY <1>1, <1>2, Invariance, PTL DEF Spec, StreamSpec, Stream!Spec
=============================================================================
