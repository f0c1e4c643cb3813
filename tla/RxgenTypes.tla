---------------------------- MODULE RxgenTypes ----------------------------
(***************************************************************************)
(* The type objects of the interface compiler (class xdr_type of           *)
(* rxgen_bits.py) as records, how a declaration derives one from another,  *)
(* and what the emitters can make of them.  Sizes are in bytes of XDR.     *)
(***************************************************************************)
EXTENDS Integers, Sequences

xdr_type(name, basic, xdr_size, members) ==
  [name |-> name, basic |-> basic, array |-> "single", dim |-> 0,
   max_size |-> FALSE, xdr_size |-> xdr_size, members |-> members]

\* Five stand for the eleven: the other integers differ from these in range only.
basic_types ==
  [char |-> xdr_type("char", "int32", 4, <<>>),
   int32_t |-> xdr_type("int32_t", "int32", 4, <<>>),
   int64_t |-> xdr_type("int64_t", "int64", 8, <<>>),
   string |-> xdr_type("string", "string", 4, <<>>),
   opaque |-> xdr_type("opaque", "opaque", 4, <<>>)]

is_single(ty) == ty.array = "single"
is_array(ty) == ty.array = "fixed"
is_bulk(ty) == ty.array = "bulk"
is_struct(ty) == ty.basic = "struct"
is_int(ty) == ty.basic \in {"int32", "int64"}
is_opaque(ty) == ty.basic = "opaque"
is_blob(ty) == ty.basic = "string" \/ is_opaque(ty)
is_single_int32(ty) == is_single(ty) /\ ty.basic = "int32"
is_single_int64(ty) == is_single(ty) /\ ty.basic = "int64"
is_single_struct(ty) == is_single(ty) /\ is_struct(ty)
is_single_blob(ty) == is_single(ty) /\ is_blob(ty)

-----------------------------------------------------------------------------
(* Declarations: `T x', `T *x', `T x[n]', `T x<n>' and `T <n> *x'. *)

FixedArray(base, n) ==
  [base EXCEPT !.array = "fixed", !.dim = n, !.max_size = FALSE, !.xdr_size = @ * n]
Bulk(base, limited) ==
  [base EXCEPT !.array = "bulk", !.dim = 0, !.max_size = limited]
Limited(base, limited) == [base EXCEPT !.max_size = @ \/ limited]

\* The type that a form makes of a base type: n is the value in the brackets,
\* limited says that there is one.
Declare(base, form, n, limited) ==
  CASE form \in {"plain", "*"} -> base
    [] form = "[]" -> FixedArray(base, n)
    [] form = "<>" /\ is_single_blob(base) -> Limited(base, limited)
    [] OTHER -> Bulk(base, limited)

\* Array-of-array; a second maximum of a string.  Neither stops the compiler.
DeclareComplains(base, form, limited) ==
  IF form = "<>" /\ is_single_blob(base)
  THEN base.max_size /\ limited
  ELSE form \in {"[]", "<>", "<>*"} /\ ~is_single(base)

-----------------------------------------------------------------------------
(* What the emitters cannot do. *)

\* Members that the C encoder and decoder leave out, with "No encoding for...".
Uncoded(ty) ==
  ~(\/ is_single_int32(ty) \/ is_single_struct(ty)
    \/ is_array(ty) /\ ty.basic \in {"int32", "struct"})

\* Members over which emit_py_type_wrapper() raises RuntimeError.
UnwrappableMember(ty) == is_array(ty) /\ ty.basic \notin {"int32", "struct"}

\* Parameters over which main's loop or one of the emitters it calls raises.
RefusedParameter(ty, is_request) ==
  \/ is_array(ty)
  \/ (is_struct(ty) \/ is_bulk(ty)) /\ ty.xdr_size = 0
  \/ is_bulk(ty) /\ is_blob(ty)
  \/ is_request /\ is_single(ty) /\ ty.name = "char"
=============================================================================
