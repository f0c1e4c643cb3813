----------------------------- MODULE RxgenCode -----------------------------
(***************************************************************************)
(* What the compiler emits for a function, and how it runs: the Python     *)
(* wrapper and the C stub that encode a request, the phases in which a     *)
(* request or a reply is decoded, and the names the C code uses.  Several  *)
(* emitters derive these from one list of parameters and have to agree.    *)
(*                                                                         *)
(* The wire is a sequence of words, a word being known by its parameter,   *)
(* item and part.  All the words have arrived when decoding begins: RxRecv *)
(* is about data that come in pieces, SplitCall about the phase of split   *)
(* calls.  Structures are as wide as their xdr_size: see SizesAgree.       *)
(***************************************************************************)
EXTENDS RxgenTypes, FiniteSets, SequencesExt

CONSTANTS
  Parameters,     \* bound: [direction, typespec, count] a function may have
  MaxParameters,  \* bound: parameters of a function
  Strays,         \* bound: what a word that is no count is worth as one
  Limit           \* the maximum of the types that have one

VARIABLES
  params,         \* the function's, with the sizes of the values of this call
  stage,          \* "declare", "encode", "decode", "done" or why it stopped
  caller,         \* "py" or "c": who encodes the request
  decoder,        \* which decoder runs: [side, way], see Decoders
  at,             \* the parameter that is encoded, the phase that is decoded
  sent,           \* the request's words
  reply,          \* the words still to be decoded
  sizes,          \* call->blob_size, ->bulk_count or obj->nr__*: the count read
  bulk_index,
  obj             \* what has been stored for each parameter

callVars == <<params, stage, caller, decoder, at, sent, reply, sizes, bulk_index, obj>>

Directions == {"IN", "INOUT", "OUT"}
Decoders == [side : {"py"}, way : {"request", "response"}] \cup
            [side : {"c"}, way : {"response"}]

\* Types are as the grammar makes them from declarations without complaints; a
\* value that is neither an array nor a string nor opaque has no count.
ASSUME RxgenCodeAssumption ==
  /\ MaxParameters \in Nat /\ Limit \in Nat /\ Strays \subseteq Nat
  /\ \A p \in Parameters :
       /\ p.direction \in Directions /\ p.count \in Nat
       /\ p.typespec.array \in {"single", "fixed", "bulk"}
       /\ p.typespec.basic \in {"int32", "int64", "string", "opaque", "struct"}
       /\ p.typespec.max_size \in BOOLEAN
       /\ p.typespec.xdr_size \in Nat /\ p.typespec.xdr_size % 4 = 0
       /\ ~is_array(p.typespec) => /\ p.typespec.basic = "int32" => p.typespec.xdr_size = 4
                                   /\ p.typespec.basic = "int64" => p.typespec.xdr_size = 8
                                   /\ is_blob(p.typespec) => p.typespec.xdr_size = 4
       /\ is_single(p.typespec) /\ ~is_blob(p.typespec) => p.count = 0

\* main's division of the parameters.
Is(i, way) == params[i].direction \in
                (IF way = "request" THEN {"IN", "INOUT"} ELSE {"OUT", "INOUT"})
Of(way) ==
  LET upto[n \in 0 .. Len(params)] ==
        IF n = 0 THEN <<>> ELSE IF Is(n, way) THEN Append(upto[n - 1], n) ELSE upto[n - 1]
  IN  upto[Len(params)]
type(i) == params[i].typespec
count(i) == params[i].count

-----------------------------------------------------------------------------
(* XDR, which the servers speak. *)

word(i, k, part) == <<i, k, part, 0>>
ItemWords(i, k) ==
  CASE is_int(type(i)) /\ type(i).basic = "int32" -> <<word(i, k, "w")>>
    [] type(i).basic = "int64" -> <<word(i, k, "hi"), word(i, k, "lo")>>
    [] is_struct(type(i)) -> [n \in 1 .. type(i).xdr_size \div 4 |-> <<i, k, "s", n>>]
    [] is_blob(type(i)) -> <<word(i, k, "w")>>
Items(i, Each(_, _)) == FlattenSeq([k \in 1 .. count(i) |-> Each(i, k)])
Wire(i) ==
  IF is_single(type(i)) /\ ~is_blob(type(i)) THEN ItemWords(i, 0)
  ELSE <<word(i, 0, "n")>> \o Items(i, ItemWords)
WireOf(way) == FlattenSeq([j \in DOMAIN Of(way) |-> Wire(Of(way)[j])])

-----------------------------------------------------------------------------
(* The encoders. *)

\* emit_py_func_bulk_helper() and emit_py_func_simple_sync_call().
PyInt64WordsLowFirst(i, k) == <<word(i, k, "lo"), word(i, k, "hi")>>
PyInt64Words(i, k) == <<word(i, k, "hi"), word(i, k, "lo")>>
PyWords(i) ==
  LET one(j, k) == IF type(j).basic = "int64" THEN PyInt64Words(j, k)
                   ELSE ItemWords(j, k)
  IN  IF is_bulk(type(i)) \/ is_blob(type(i))
      THEN <<word(i, 0, "n")>> \o Items(i, one)
      ELSE one(i, 0)

\* emit_func_send().
CWords(i) ==
  LET one(j, k) == IF type(j).basic = "int64"
                   THEN <<word(j, k, "lo"), word(j, k, "hi")>> ELSE ItemWords(j, k)
  IN  CASE is_bulk(type(i)) -> <<word(i, 0, "n")>> \o Items(i, one)
        [] is_single_blob(type(i)) -> Items(i, one)
        [] OTHER -> one(i, 0)

TooLong(i) == type(i).max_size /\ count(i) > Limit
\* The wrapper refuses a string or opaque when it gets there; the stub checks them
\* and arrays before it allocates a call.
PyRefuses(i) == is_blob(type(i)) /\ TooLong(i)
CRefuses == \E j \in DOMAIN Of("request") : TooLong(Of("request")[j])

-----------------------------------------------------------------------------
(* The phases of a decoder. *)

Phase(form, size, ps) == [form |-> form, size |-> size, params |-> ps]
Extend(phase, size, p) == Phase("flat", phase.size + size, Append(phase.params, p))

\* A count goes to the end of the flat phase, what it counts into a phase of its
\* own.  After that `phase' is None and a new flat phase begins.
OpenAlways(phases) == phases # <<>>
Open(phases) == phases # <<>> /\ Last(phases).form = "flat"

\* A turn of the loop over the parameters.
AddParameter(phases, i) ==
  LET flat == IF Open(phases) THEN Last(phases) ELSE Phase("flat", 0, <<>>)
      before == IF Open(phases) THEN Front(phases) ELSE phases
      form == IF is_bulk(type(i)) THEN "bulk" ELSE "blob"
      itself == [i |-> i, special |-> ""]
      its_count == [i |-> i, special |-> form]
  IN  IF is_single(type(i)) /\ ~is_blob(type(i))
      THEN Append(before, Extend(flat, type(i).xdr_size, itself))
      ELSE before \o <<Extend(flat, 4, its_count),
                       Phase(form, type(i).xdr_size, <<itself>>)>>

Phases(way) ==
  LET ps == Of(way)
      upto[n \in 0 .. Len(ps)] == IF n = 0 THEN <<>> ELSE AddParameter(upto[n - 1], ps[n])
  IN  upto[Len(ps)]
phase == Phases(decoder.way)[at]

-----------------------------------------------------------------------------
(* The names that the C stub of a function declares and uses. *)

\* emit_func_prototype(): the arguments of the sender, the members of the reply.
SendDeclaresNoCount(i) ==
  IF is_bulk(type(i)) THEN {<<"get", i>>, <<"token", i>>} ELSE {<<"nr", i>>, <<"", i>>}
SendDeclares(i) ==
  CASE is_bulk(type(i)) -> {<<"get", i>>, <<"token", i>>, <<"nr", i>>}
    [] is_single_blob(type(i)) -> {<<"nr", i>>, <<"", i>>}
    [] OTHER -> {<<"", i>>}
DecodeDeclares(i) ==
  CASE is_bulk(type(i)) ->
         {<<IF is_struct(type(i)) THEN "alloc" ELSE "store", i>>, <<"token", i>>, <<"nr", i>>}
    [] is_single_blob(type(i)) -> {<<"alloc", i>>, <<"token", i>>, <<"nr", i>>}
    [] OTHER -> {<<"", i>>}

SendUses(i) ==
  CASE is_bulk(type(i)) ->
         {<<"get", i>>, <<"token", i>>, <<"nr", i>>}
           \cup (IF type(i).basic = "int64" THEN {<<"", i>>} ELSE {})
    [] is_single_blob(type(i)) -> {<<"nr", i>>, <<"", i>>}
    [] OTHER -> {<<"", i>>}

\* Entering the phase of an array, emit_func_decode() looks at the type of the
\* parameter it has dealt with last, in the phase before: a count.
BulkEntryUses(i) == {<<"alloc", i>>}
DecodeUses(i) ==
  CASE is_bulk(type(i)) ->
         BulkEntryUses(i) \cup {<<"token", i>>, <<"nr", i>>}
           \cup {<<IF is_int(type(i)) THEN "store" ELSE "alloc", i>>}
    [] is_single_blob(type(i)) -> {<<"alloc", i>>, <<"token", i>>, <<"nr", i>>}
    [] OTHER -> {<<"", i>>}

-----------------------------------------------------------------------------
(* What is stored.  A 64-bit value is the words in its two halves. *)

Halves(high, low) == [high |-> high, low |-> low]
Whole(ws) == Halves({ws[1]}, {ws[2]})

\* emit_py_func_decode() shifts both words of a single integer up, and those of
\* an array's items not; emit_func_decode() is right.
PyInt64(ws) == Halves({ws[1], ws[2]}, {})
CInt64Swapped(ws) == Halves({ws[2]}, {ws[1]})
CInt64(ws) == Whole(ws)

Read(i, ws, Int64(_)) == IF type(i).basic = "int64" THEN Int64(ws) ELSE ws
Stored(i, ws) ==
  IF decoder.side = "py" /\ is_single(type(i)) THEN Read(i, ws, PyInt64)
  ELSE Read(i, ws, CInt64)

\* What should be stored for a parameter.
Value(i) ==
  IF is_single(type(i)) /\ ~is_blob(type(i)) THEN <<Read(i, ItemWords(i, 0), Whole)>>
  ELSE [k \in 1 .. count(i) |-> Read(i, ItemWords(i, k), Whole)]

CallTypeOK ==
  /\ params \in Seq(Parameters) /\ Len(params) <= MaxParameters
  /\ stage \in {"declare", "encode", "decode", "done", "refused", "EINVAL", "hungry"}
  /\ caller \in {"py", "c"} /\ decoder \in Decoders
  /\ at \in 1 .. 2 * MaxParameters + 1
  /\ DOMAIN sizes = DOMAIN params /\ DOMAIN obj = DOMAIN params
  /\ bulk_index \in Nat
  /\ \A i \in DOMAIN params :
       /\ sizes[i] \in Nat
       /\ Len(obj[i]) <= (IF is_bulk(type(i)) \/ is_blob(type(i)) THEN sizes[i] ELSE 1)

CallInit ==
  /\ params = <<>> /\ stage = "declare"
  /\ caller \in {"py", "c"} /\ decoder \in Decoders
  /\ at = 1 /\ sent = <<>> /\ reply = <<>> /\ sizes = <<>> /\ bulk_index = 0 /\ obj = <<>>

Parameter(p) ==
  /\ stage = "declare" /\ Len(params) < MaxParameters
  /\ params' = Append(params, p)
  /\ sizes' = Append(sizes, 0) /\ obj' = Append(obj, <<>>)
  /\ UNCHANGED <<stage, caller, decoder, at, sent, reply, bulk_index>>

\* The compiler emits the function or raises; then it is called.
Emit ==
  /\ stage = "declare"
  /\ stage' = IF \E i \in DOMAIN params : RefusedParameter(type(i), Is(i, "request"))
           THEN "refused"
           ELSE IF caller = "c" /\ CRefuses THEN "EINVAL" ELSE "encode"
  /\ UNCHANGED <<params, caller, decoder, at, sent, reply, sizes, bulk_index, obj>>

EncodeParameter ==
  LET i == Of("request")[at]
  IN  /\ stage = "encode" /\ at <= Len(Of("request"))
      /\ IF caller = "py" /\ PyRefuses(i)
         THEN stage' = "EINVAL" /\ UNCHANGED <<sent, at>>
         ELSE /\ sent' = sent \o (IF caller = "py" THEN PyWords(i) ELSE CWords(i))
              /\ at' = at + 1
              /\ UNCHANGED stage
      /\ UNCHANGED <<params, caller, decoder, reply, sizes, bulk_index, obj>>

\* The request is sent.  A generated server decodes it, or the reply arrives.
Send ==
  /\ stage = "encode" /\ at = Len(Of("request")) + 1
  /\ stage' = "decode" /\ at' = 1
  /\ reply' = IF decoder.way = "request" THEN sent ELSE WireOf("response")
  /\ UNCHANGED <<params, caller, decoder, sent, sizes, bulk_index, obj>>

-----------------------------------------------------------------------------
(* Decoding: a turn of a phase waits for its size, then takes its words.   *)

\* emit_py_func_decode() sets an opaque up by py_dec_init_opaque(), which returns
\* 0 even if there is something to do: the code then goes to the next phase.
Skips(i) == decoder.side = "py" /\ is_opaque(type(i))

Running(form) ==
  /\ stage = "decode" /\ at <= Len(Phases(decoder.way)) /\ phase.form = form
  /\ UNCHANGED <<params, caller, decoder, sent>>
Hungry == 4 * Len(reply) < phase.size

\* The decoder returns 1 for ever: nothing more will come.
Starve(form) ==
  /\ Running(form) /\ Hungry
  /\ form # "flat" => sizes[phase.params[1].i] > 0 /\ ~Skips(phase.params[1].i)
  /\ stage' = "hungry"
  /\ UNCHANGED <<at, reply, sizes, bulk_index, obj>>

\* The words that one item of a parameter takes.
Taken(p) == IF p.special # "" \/ is_blob(type(p.i)) THEN 1 ELSE type(p.i).xdr_size \div 4
\* What a word is worth as a count: if it is none, anything.
Worth(w, stray) == IF w[3] = "n" THEN count(w[1]) ELSE stray

DecodeFlat ==
  LET ps == phase.params
      start[n \in 1 .. Len(ps) + 1] == IF n = 1 THEN 0 ELSE start[n - 1] + Taken(ps[n - 1])
      ws(n) == SubSeq(reply, start[n] + 1, start[n] + Taken(ps[n]))
  IN  /\ Running("flat") /\ ~Hungry
      /\ \E stray \in Strays :
           sizes' = [i \in DOMAIN sizes |->
             IF \E n \in DOMAIN ps : ps[n].i = i /\ ps[n].special # ""
             THEN Worth(ws(CHOOSE n \in DOMAIN ps : ps[n].i = i)[1], stray) ELSE sizes[i]]
      /\ obj' = [i \in DOMAIN obj |->
           IF \E n \in DOMAIN ps : ps[n].i = i /\ ps[n].special = ""
           THEN <<Stored(i, ws(CHOOSE n \in DOMAIN ps : ps[n].i = i))>> ELSE obj[i]]
      /\ reply' = SubSeq(reply, start[Len(ps) + 1] + 1, Len(reply))
      /\ at' = at + 1 /\ bulk_index' = 0
      /\ UNCHANGED stage

\* A string is taken as a whole, an array one item at a time.  What is empty is
\* skipped; and so is opaque, leaving its words, and an object of its size in
\* which none of them is.
SkipPhase(form) ==
  LET i == phase.params[1].i
  IN  /\ Running(form) /\ (sizes[i] = 0 \/ Skips(i))
      /\ at' = at + 1
      /\ obj' = IF Skips(i) THEN [obj EXCEPT ![i] = [k \in 1 .. sizes[i] |-> <<>>]] ELSE obj
      /\ UNCHANGED <<stage, reply, sizes, bulk_index>>

DecodeBlob ==
  LET i == phase.params[1].i
      n == IF sizes[i] <= Len(reply) THEN sizes[i] ELSE Len(reply)
  IN  /\ Running("blob") /\ sizes[i] > 0 /\ ~Skips(i) /\ ~Hungry
      /\ obj' = [obj EXCEPT ![i] = @ \o [k \in 1 .. n |-> <<reply[k]>>]]
      /\ reply' = SubSeq(reply, n + 1, Len(reply))
      /\ at' = at + 1
      /\ UNCHANGED <<stage, sizes, bulk_index>>

MoreItems(i) == bulk_index + 1 < sizes[i]
DecodeItem ==
  LET p == phase.params[1]
  IN  /\ Running("bulk") /\ sizes[p.i] > 0 /\ ~Hungry
      /\ obj' = [obj EXCEPT ![p.i] = Append(@, Stored(p.i, SubSeq(reply, 1, Taken(p))))]
      /\ reply' = SubSeq(reply, Taken(p) + 1, Len(reply))
      /\ bulk_index' = bulk_index + 1
      /\ at' = IF MoreItems(p.i) THEN at ELSE at + 1
      /\ UNCHANGED <<stage, sizes>>

Decoded ==
  /\ stage = "decode" /\ at = Len(Phases(decoder.way)) + 1
  /\ stage' = "done"
  /\ UNCHANGED <<params, caller, decoder, at, sent, reply, sizes, bulk_index, obj>>

CallFinished == stage \in {"done", "refused", "EINVAL", "hungry"} /\ UNCHANGED callVars

CallNext ==
  \/ \E p \in Parameters : Parameter(p)
  \/ Emit \/ EncodeParameter \/ Send
  \/ \E form \in {"flat", "blob", "bulk"} : Starve(form)
  \/ DecodeFlat
  \/ \E form \in {"blob", "bulk"} : SkipPhase(form)
  \/ DecodeBlob \/ DecodeItem \/ Decoded
  \/ CallFinished

CallSpec == CallInit /\ [][CallNext]_callVars

-----------------------------------------------------------------------------
(* Properties. *)

Some(way, P(_)) == \E j \in DOMAIN Of(way) : P(type(Of(way)[j]))
is_bulk_int(ty) == is_bulk(ty) /\ is_int(ty)

\* What the C stub gets wrong on the wire.
Garbled(ty) == ty.basic = "int64" \/ is_single_blob(ty)
Garbles == caller = "c" /\ Some("request", Garbled)

\* A request is the XDR of its parameters, whichever code encodes it.  The
\* exceptions are all the C stub's: it sends the low word of a 64-bit integer
\* first, and a string without its length.
RequestIsXdr ==
  stage \in {"decode", "done", "hungry"} => sent = WireOf("request") \/ Garbles

\* A Python decoder that meets opaque data loses its place in them.
SkipsOpaque ==
  decoder.side = "py" /\ \E j \in DOMAIN Of(decoder.way) :
    is_opaque(type(Of(decoder.way)[j])) /\ count(Of(decoder.way)[j]) > 0

\* The phases of a decoder take exactly the words there are: none waits for a
\* word that will not come, and none is left over for the next call to trip on.
\* This holds for replies, and for requests that were not garbled, with one
\* exception: opaque data in a Python decoder.
PhasesFitWords ==
  (decoder.way = "response" \/ ~Garbles) /\ ~SkipsOpaque =>
    stage # "hungry" /\ (stage = "done" => reply = <<>>)

\* The same of a Python decoder and opaque data too: py_dec_init_buffer() "Returns
\* 0 if there's nothing to do, 1 if the decode is set up", so that the words of a
\* blob that has some are taken.
OpaqueTaken ==
  decoder.way = "response" => stage # "hungry" /\ (stage = "done" => reply = <<>>)

\* What is decoded is what was encoded, except for single 64-bit integers in
\* the Python decoders, whose halves are both shifted into the upper one, and
\* for calls with opaque data, of which they lose the place.
DecodedAsSent ==
  stage = "done" /\ (decoder.way = "response" \/ ~Garbles) /\ ~SkipsOpaque =>
    \A j \in DOMAIN Of(decoder.way) :
      LET i == Of(decoder.way)[j]
      IN  obj[i] = Value(i) <=> ~(decoder.side = "py" /\ is_single_int64(type(i)))

\* The stub emitted for a function compiles, its sender and its decoder using
\* only what its prototype declares, unless it returns an array of integers or
\* is passed one of 64-bit integers.
StubCompiles ==
  stage = "encode" =>
    ((/\ \A j \in DOMAIN Of("request") :
           SendUses(Of("request")[j]) \subseteq SendDeclares(Of("request")[j])
      /\ \A j \in DOMAIN Of("response") :
           DecodeUses(Of("response")[j]) \subseteq DecodeDeclares(Of("response")[j]))
     <=> ~(\/ Some("response", is_bulk_int)
           \/ Some("request", LAMBDA ty : is_bulk_int(ty) /\ ty.basic = "int64")))
=============================================================================
