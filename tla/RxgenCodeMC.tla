---------------------------- MODULE RxgenCodeMC ----------------------------
(***************************************************************************)
(* An instance of RxgenCode: a parameter of each kind the emitters         *)
(* distinguish, passed both ways, and some passed one way only; values     *)
(* that are empty, of two items, and longer than the maximum.              *)
(***************************************************************************)
EXTENDS RxgenCode

Pair == xdr_type("pair", "struct", 8, <<>>)
Int64 == basic_types.int64_t
Int32 == basic_types.int32_t
String == basic_types.string
Opaque == basic_types.opaque

Both == {[direction |-> "INOUT", typespec |-> ty, count |-> 0] :
           ty \in {Int32, Int64, Pair, String, Bulk(Pair, FALSE)}}
        \cup {[direction |-> "INOUT", typespec |-> ty, count |-> 2] :
           ty \in {Limited(String, FALSE), Opaque, Bulk(Int32, FALSE), Bulk(Int64, FALSE),
                   Bulk(Pair, FALSE)}}
OneWay == {[direction |-> "OUT", typespec |-> Int64, count |-> 0],
           [direction |-> "IN", typespec |-> Limited(String, TRUE), count |-> 2],
           [direction |-> "IN", typespec |-> Bulk(Int32, TRUE), count |-> 2],
           [direction |-> "IN", typespec |-> basic_types.char, count |-> 0],
           [direction |-> "OUT", typespec |-> Opaque, count |-> 0],
           [direction |-> "OUT", typespec |-> Bulk(String, FALSE), count |-> 0],
           [direction |-> "OUT", typespec |-> FixedArray(Int32, 2), count |-> 0]}
StraysDef == {0, 1, 3}
ParametersDef == Both \cup OneWay
=============================================================================
