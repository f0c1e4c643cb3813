------------------------------ MODULE RxgenMC ------------------------------
(***************************************************************************)
(* Instances of Rxgen.  Codes and types do not meet in a definition, so    *)
(* there is one alphabet for each: three codes with three numbers, one     *)
(* negative, in two packages; and two names that may each become an alias, *)
(* an enum or a structure, in every form.                                  *)
(***************************************************************************)
EXTENDS Rxgen

Package_(n) == [kind |-> "package", name |-> n]
Code(n, v) == [name |-> n, value |-> v]
Decl(spec, form, size) == [name |-> "x", spec |-> spec, form |-> form, size |-> size]
Typedef(n, d) == [d EXCEPT !.name = n] @@ [kind |-> "typedef"]
Struct(n, ds) == [kind |-> "struct", name |-> n, members |-> ds]
Proc(n, dir, d) ==
  [kind |-> "proc", name |-> n, params |-> <<d @@ [direction |-> dir]>>]

Codes ==
  {Package_(1), Package_(2), [kind |-> "error"],
   [kind |-> "const", name |-> "A", value |-> "2"],
   [kind |-> "enum", name |-> "T", list |-> <<Code("B", "-1")>>]}
  \cup {[kind |-> "codes", list |-> l] :
          l \in {<<Code("A", "2")>>, <<Code("B", "-1")>>, <<Code("C", "1")>>,
                 <<Code("C", "2"), Code("B", "-1")>>, <<Code("D", "2"), Code("A", "0")>>}}

Types ==
  {Package_(1), [kind |-> "const", name |-> "A", value |-> "2"],
   [kind |-> "enum", name |-> "T", list |-> <<Code("B", "1")>>],
   Typedef("T", Decl("int32_t", "[]", "A")), Typedef("T", Decl("U", "<>", None)),
   Typedef("U", Decl("string", "<>", "2")),
   Struct("T", <<Decl("int32_t", "plain", None), Decl("char", "[]", "2")>>),
   Struct("U", <<Decl("T", "[]", "2"), Decl("T", "plain", None)>>),
   Struct("U", <<Decl("int64_t", "*", None)>>),
   Struct("U", <<Decl("int64_t", "[]", "2")>>),
   Proc("f", "IN", Decl("U", "plain", None)), Proc("g", "INOUT", Decl("T", "<>*", None)),
   Proc("g", "OUT", Decl("U", "<>", "A"))}

AlphabetsDef == {Codes, Types}
NumberDef == [l \in {"-1", "0", "1", "2"} |->
                CASE l = "-1" -> -1 [] l = "0" -> 0 [] l = "1" -> 1 [] l = "2" -> 2]
=============================================================================
