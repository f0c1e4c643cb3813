---------------------------- MODULE RxgenProofs ----------------------------
(***************************************************************************)
(* What holds of the interface compiler for all interface files: a type's  *)
(* name keeps its meaning, what is emitted refers to nothing that is       *)
(* emitted later, or that has changed since it was read, what is decoded   *)
(* has as many words as what is encoded, and every abort is found in the   *)
(* table of codes.                                                         *)
(*                                                                         *)
(* Then what holds of the code it emits, for all functions and all values: *)
(* what is encoded is XDR, what is decoded is what was encoded, the phases *)
(* of a decoder take exactly the words there are, and the stubs compile,   *)
(* with the exceptions that RxgenCode names.                               *)
(***************************************************************************)
EXTENDS Rxgen, RxgenCode, FiniteSetTheorems, NaturalsInduction, TLAPS

-----------------------------------------------------------------------------
(* Names. *)

\* What a step does to the types: nothing, or it takes one more.
Takes(f) == UNCHANGED f \/ \E k, v : f' = Taking(f, k, v)

\* A definition that is accepted adds a name, one that is refused changes none.
LEMMA StepTakes == [Next]_vars => Takes(types) /\ Takes(typedefs)
<1> SUFFICES ASSUME [Next]_vars PROVE Takes(types) /\ Takes(typedefs)
  OBVIOUS
<1> USE DEF Takes, names, context, Emits, Raise
<1>1. ASSUME NEW d \in alphabet,
             Package(d) \/ ConstantDef(d) \/ ErrorCodes(d) \/ ProcSpec(d) \/ SyntaxError(d)
      PROVE  UNCHANGED <<types, typedefs>>
  BY <1>1 DEF Package, ConstantDef, ErrorCodes, ProcSpec, SyntaxError
<1>2. ASSUME NEW d \in alphabet, EnumDef(d) PROVE Takes(types) /\ UNCHANGED typedefs
  BY <1>2 DEF EnumDef, AddType
<1>3. ASSUME NEW d \in alphabet, TypeDef(d) PROVE Takes(typedefs) /\ UNCHANGED types
  BY <1>3 DEF TypeDef, AddTypeAlias
<1>4. ASSUME NEW d \in alphabet, StructDef(d) PROVE Takes(types) /\ UNCHANGED typedefs
  BY <1>4 DEF StructDef, AddType
<1>5. ASSUME \/ EndOfFile \/ EmitStruct \/ StructsEmitted \/ EmitFunction
             \/ FunctionsEmitted \/ EmitModule \/ Finished \/ UNCHANGED vars
      PROVE  UNCHANGED <<types, typedefs>>
  BY <1>5 DEF EndOfFile, EmitStruct, StructsEmitted, EmitFunction, FunctionsEmitted, EmitModule,
              Finished, vars
<1> QED
  BY <1>1, <1>2, <1>3, <1>4, <1>5 DEF Next

\* A name that means a type goes on meaning it, whatever is defined later, unless
\* an enum or a structure of the same name comes to hide an alias.
THEOREM MeaningStays == Spec => NameKeepsMeaning
<1>1. [Next]_vars =>
        \A n \in DOMAIN types \cup DOMAIN typedefs :
          \/ get_type(n)' = get_type(n)
          \/ n \notin DOMAIN types /\ n \in DOMAIN types'
  <2> SUFFICES ASSUME [Next]_vars, NEW n \in DOMAIN types \cup DOMAIN typedefs,
                      n \in DOMAIN types \/ n \notin DOMAIN types'
               PROVE  get_type(n)' = get_type(n)
    OBVIOUS
  <2>0. Takes(types) /\ Takes(typedefs)
    BY StepTakes
  <2>1. \A x \in DOMAIN types : x \in DOMAIN types' /\ types'[x] = types[x]
    <3>1. CASE types' = types
      BY <3>1
    <3>2. CASE \E k, v : types' = Taking(types, k, v)
      <4>1. PICK k, v : types' = Taking(types, k, v)
        BY <3>2
      <4> QED
        BY <4>1 DEF Taking
    <3> QED
      BY <2>0, <3>1, <3>2 DEF Takes
  <2>2. \A x \in DOMAIN typedefs : typedefs'[x] = typedefs[x]
    <3>1. CASE typedefs' = typedefs
      BY <3>1
    <3>2. CASE \E k, v : typedefs' = Taking(typedefs, k, v)
      <4>1. PICK k, v : typedefs' = Taking(typedefs, k, v)
        BY <3>2
      <4> QED
        BY <4>1 DEF Taking
    <3> QED
      BY <2>0, <3>1, <3>2 DEF Takes
  <2> QED
    BY <2>1, <2>2 DEF get_type
<1> QED
  BY <1>1, PTL DEF Spec, NameKeepsMeaning

-----------------------------------------------------------------------------
(* What refers to what.  The operators speak of a list of structures, so   *)
(* that the lemmas need no primes.                                         *)

\* A type object.
IsType(ty) ==
  ty = [name |-> ty.name, basic |-> ty.basic, array |-> ty.array, dim |-> ty.dim,
        max_size |-> ty.max_size, xdr_size |-> ty.xdr_size, members |-> ty.members]

\* The structure that a type is made of, if any, is among the first n of a list,
\* with the members it had.
Refers(ss, n, ty) ==
  is_struct(ty) => \E j \in 1 .. n : ss[j].name = ty.name /\ ss[j].members = ty.members
Known(ss, ty) == Refers(ss, Len(ss), ty)

Sequence(s) == \E S : s \in Seq(S)
KnownTypes(ss, dict) == \A n \in DOMAIN dict : IsType(dict[n]) /\ Known(ss, dict[n])
Ordered(ss) ==
  \A i \in DOMAIN ss : \A k \in DOMAIN ss[i].members :
    Refers(ss, i - 1, ss[i].members[k].typespec)
KnownParams(ss, ps) == \A k \in DOMAIN ps : Known(ss, ps[k].typespec)
KnownFuncs(ss, fs) == \A i \in DOMAIN fs : KnownParams(ss, fs[i].params)

\* A declaration makes a type of the same structure.
LEMMA DeclareIs ==
  ASSUME NEW base, IsType(base), NEW form, NEW n, NEW limited
  PROVE  LET ty == Declare(base, form, n, limited)
         IN  IsType(ty) /\ ty.name = base.name /\ ty.basic = base.basic
                        /\ ty.members = base.members
<1>1. CASE Declare(base, form, n, limited) = base
  BY <1>1
<1>2. CASE Declare(base, form, n, limited) = FixedArray(base, n)
  BY <1>2 DEF FixedArray, IsType
<1>3. CASE Declare(base, form, n, limited) = Limited(base, limited)
  BY <1>3 DEF Limited, IsType
<1>4. CASE Declare(base, form, n, limited) = Bulk(base, limited)
  BY <1>4 DEF Bulk, IsType
<1> QED
  BY <1>1, <1>2, <1>3, <1>4 DEF Declare

\* What is declared with a known type is known.
LEMMA DeclaredKnown ==
  ASSUME NEW d, bound(d.spec), KnownTypes(all_structs, types),
         KnownTypes(all_structs, typedefs)
  PROVE  IsType(Declared(d)) /\ Known(all_structs, Declared(d))
<1>1. IsType(get_type(d.spec)) /\ Known(all_structs, get_type(d.spec))
  BY DEF bound, get_type, KnownTypes
<1>2. PICK n, limited : Declared(d) = Declare(get_type(d.spec), d.form, n, limited)
  BY DEF Declared
<1> QED
  BY <1>1, <1>2, DeclareIs DEF Known, Refers, is_struct

\* A structure added to a list leaves what is known known, and is known itself.
LEMMA Adding ==
  ASSUME NEW ss, Sequence(ss), NEW s
  PROVE  /\ Sequence(Append(ss, s))
         /\ \A ty : Known(ss, ty) => Known(Append(ss, s), ty)
         /\ \A ty : ty.name = s.name /\ ty.members = s.members => Known(Append(ss, s), ty)
         /\ (Ordered(ss) /\ \A k \in DOMAIN s.members : Known(ss, s.members[k].typespec))
              => Ordered(Append(ss, s))
<1>1. PICK S : ss \in Seq(S)
  BY DEF Sequence
<1>2. PICK n \in Nat : n = Len(ss) /\ DOMAIN ss = 1 .. n
  BY <1>1
<1> DEFINE tt == Append(ss, s)
<1>3. /\ tt \in Seq(S \cup {s}) /\ Len(tt) = n + 1 /\ DOMAIN tt = 1 .. n + 1
      /\ \A j \in 1 .. n : tt[j] = ss[j]
      /\ tt[n + 1] = s
  <2>1. ss \in Seq(S \cup {s})
    BY <1>1
  <2> QED
    BY <1>2, <2>1
<1> HIDE DEF tt
<1>4. \A m \in 0 .. n : \A ty : Refers(ss, m, ty) => Refers(tt, m, ty)
  BY <1>3 DEF Refers
<1>5. \A ty : Refers(tt, n, ty) => Refers(tt, n + 1, ty)
  BY <1>2 DEF Refers
<1>6. \A ty : Known(ss, ty) => Known(tt, ty)
  BY <1>2, <1>3, <1>4, <1>5 DEF Known
<1>7. \A ty : ty.name = s.name /\ ty.members = s.members => Known(tt, ty)
  BY <1>2, <1>3 DEF Known, Refers
<1>8. ASSUME Ordered(ss), \A k \in DOMAIN s.members : Known(ss, s.members[k].typespec)
      PROVE  Ordered(tt)
  <2> SUFFICES ASSUME NEW i \in 1 .. n + 1, NEW k \in DOMAIN tt[i].members
               PROVE  Refers(tt, i - 1, tt[i].members[k].typespec)
    BY <1>3 DEF Ordered
  <2>1. CASE i \in 1 .. n
    <3>1. tt[i] = ss[i] /\ i - 1 \in 0 .. n
      BY <1>2, <1>3, <2>1
    <3>2. Refers(ss, i - 1, ss[i].members[k].typespec)
      BY <1>2, <1>8, <2>1, <3>1 DEF Ordered
    <3> QED
      BY <1>4, <3>1, <3>2
  <2>2. CASE i = n + 1
    <3>1. tt[i] = s /\ i - 1 = n /\ n \in 0 .. n
      BY <1>2, <1>3, <2>2
    <3>2. Refers(ss, n, s.members[k].typespec)
      BY <1>2, <1>8, <3>1 DEF Known
    <3> QED
      BY <1>4, <3>1, <3>2
  <2> QED
    BY <1>2, <2>1, <2>2
<1> QED
  BY <1>3, <1>6, <1>7, <1>8 DEF tt, Sequence

-----------------------------------------------------------------------------
(* What is emitted. *)

\* What the definitions read so far refer to has been read.
WasRead ==
  /\ Sequence(all_structs) /\ Sequence(funcs)
  /\ KnownTypes(all_structs, types) /\ KnownTypes(all_structs, typedefs)
  /\ Ordered(all_structs)
  /\ KnownFuncs(all_structs, funcs)

\* The type that an enum is.
HasInt32 == "int32_t" \in DOMAIN types /\ types["int32_t"].basic = "int32"

\* Functions are emitted after the structures, and both after all has been read.
InOrder ==
  /\ emitted.structs \in Nat /\ emitted.funcs \in Nat
  /\ emitted = [structs |-> emitted.structs, funcs |-> emitted.funcs]
  /\ pc \in {"parse", "structs"} => emitted.funcs = 0
  /\ pc = "funcs" => emitted.structs = Len(all_structs)
  /\ emitted.funcs # 0 => emitted.structs = Len(all_structs)
  /\ emitted.funcs <= Len(funcs)

\* A step that reads neither types nor procedures.
LEMMA ReadStays ==
  ASSUME WasRead, UNCHANGED <<types, typedefs, all_structs, funcs>>
  PROVE  WasRead'
  BY DEF WasRead

\* An enum is a number.
LEMMA EnumKeeps ==
  ASSUME WasRead, NEW d, EnumDef(d), "int32_t" \in DOMAIN types, types["int32_t"].basic = "int32"
  PROVE  WasRead'
<1>1. UNCHANGED <<typedefs, all_structs, funcs>> /\ AddType(d.name, get_type("int32_t"))
  BY DEF EnumDef
<1>2. IsType(types["int32_t"]) /\ Known(all_structs, types["int32_t"])
  BY DEF WasRead, KnownTypes
<1>3. KnownTypes(all_structs, types')
  BY <1>1, <1>2 DEF AddType, Taking, get_type, WasRead, KnownTypes
<1> QED
  BY <1>1, <1>3 DEF WasRead

\* An alias is of a type that there is.
LEMMA TypeDefKeeps ==
  ASSUME WasRead, NEW d, TypeDef(d)
  PROVE  WasRead'
<1>1. CASE ~bound(d.spec)
  BY <1>1, ReadStays DEF TypeDef, Raise, context, names
<1>2. CASE bound(d.spec)
  <2>1. UNCHANGED <<types, all_structs, funcs>> /\ AddTypeAlias(d.name, Declared(d))
    BY <1>2 DEF TypeDef
  <2>2. IsType(Declared(d)) /\ Known(all_structs, Declared(d))
    BY <1>2, DeclaredKnown DEF WasRead
  <2>3. KnownTypes(all_structs, typedefs')
    BY <2>1, <2>2 DEF AddTypeAlias, Taking, WasRead, KnownTypes
  <2> QED
    BY <2>1, <2>3 DEF WasRead
<1> QED
  BY <1>1, <1>2

\* A structure is read with the members it will have.
LEMMA StructDefKeeps ==
  ASSUME WasRead, NEW d, StructDef(d)
  PROVE  WasRead'
<1>1. CASE \E i \in DOMAIN d.members : ~bound(d.members[i].spec)
  BY <1>1, ReadStays DEF StructDef, Raise, context, names
<1>2. CASE ~\E i \in DOMAIN d.members : ~bound(d.members[i].spec)
  <2>1. UNCHANGED <<typedefs, funcs>>
    BY <1>2 DEF StructDef
  <2>2. CASE d.name \in DOMAIN structs
    BY <1>2, <2>1, <2>2, ReadStays DEF StructDef
  <2>3. CASE d.name \notin DOMAIN structs
    <3>1. all_structs' = Append(all_structs, StructOf(d)) /\ AddType(d.name, StructOf(d))
      BY <1>2, <2>3 DEF StructDef, Emitted
    <3>2. PICK s : s = StructOf(d)
      OBVIOUS
    <3>3. IsType(s) /\ \A k \in DOMAIN s.members : Known(all_structs, s.members[k].typespec)
      <4>1. /\ IsType(s)
            /\ s.members = [i \in DOMAIN d.members |-> Member(d.members[i])]
        BY <3>2 DEF StructOf, xdr_type, IsType
      <4>2. \A i \in DOMAIN d.members : Known(all_structs, Declared(d.members[i]))
        BY <1>2, DeclaredKnown DEF WasRead
      <4> QED
        BY <4>1, <4>2 DEF Member
    <3> HIDE DEF WasRead
    <3>4. PICK ss : ss = Append(all_structs, s)
      OBVIOUS
    <3>5. /\ Sequence(ss) /\ Ordered(ss) /\ Known(ss, s)
          /\ \A ty : Known(all_structs, ty) => Known(ss, ty)
      BY <3>3, <3>4, Adding DEF WasRead
    <3>6. KnownTypes(ss, types')
      BY <3>1, <3>2, <3>3, <3>5 DEF AddType, Taking, WasRead, KnownTypes
    <3>7. KnownTypes(ss, typedefs) /\ KnownFuncs(ss, funcs)
      BY <3>5 DEF WasRead, KnownTypes, KnownFuncs, KnownParams
    <3> QED
      BY <2>1, <3>1, <3>2, <3>4, <3>5, <3>6, <3>7 DEF WasRead
  <2> QED
    BY <2>2, <2>3
<1> QED
  BY <1>1, <1>2

\* A procedure's parameters are of types that there are.
LEMMA ProcSpecKeeps ==
  ASSUME WasRead, NEW d, ProcSpec(d)
  PROVE  WasRead'
<1>1. CASE UNCHANGED <<types, typedefs, all_structs, funcs>>
  BY <1>1, ReadStays
<1>2. CASE ~UNCHANGED <<types, typedefs, all_structs, funcs>>
  <2>1. /\ UNCHANGED <<types, typedefs, all_structs>>
        /\ \A i \in DOMAIN d.params : bound(d.params[i].spec)
    BY <1>2 DEF ProcSpec, Raise, context, names
  <2> DEFINE Params == [i \in DOMAIN d.params |->
                         [direction |-> d.params[i].direction,
                          typespec |-> Declared(d.params[i])]]
  <2>2. PICK proc : /\ proc.params = Params
                    /\ funcs' = Append(funcs, proc)
    BY <1>2, <2>1 DEF ProcSpec, Raise, context, names
  <2>3. KnownParams(all_structs, Params)
    BY <2>1, DeclaredKnown DEF WasRead, KnownParams
  <2> HIDE DEF Params
  <2>4. PICK S : funcs \in Seq(S)
    BY DEF WasRead, Sequence
  <2>5. funcs \in Seq(S \cup {proc})
    BY <2>4
  <2>6. Sequence(funcs')
    BY <2>2, <2>5 DEF Sequence
  <2>7. \A i \in DOMAIN funcs' : funcs'[i] = proc \/ (i \in DOMAIN funcs /\ funcs'[i] = funcs[i])
    BY <2>2, <2>5
  <2>8. KnownFuncs(all_structs, funcs')
    BY <2>2, <2>3, <2>7 DEF WasRead, KnownFuncs
  <2> QED
    BY <2>1, <2>6, <2>8 DEF WasRead
<1> QED
  BY <1>1, <1>2

\* Every step keeps what WasRead says.
LEMMA ReadKept == WasRead /\ HasInt32 /\ [Next]_vars => WasRead' /\ HasInt32'
<1> SUFFICES ASSUME WasRead, HasInt32, [Next]_vars PROVE WasRead' /\ HasInt32'
  OBVIOUS
<1>1. ASSUME NEW d \in alphabet,
             Package(d) \/ ConstantDef(d) \/ ErrorCodes(d) \/ SyntaxError(d)
      PROVE  WasRead'
  <2>1. UNCHANGED <<types, typedefs, all_structs, funcs>>
    BY <1>1 DEF Package, ConstantDef, ErrorCodes, SyntaxError, Raise, context, names
  <2> QED
    BY <2>1, ReadStays
<1>2. ASSUME NEW d \in alphabet, EnumDef(d) PROVE WasRead'
  BY <1>2, EnumKeeps DEF HasInt32
<1>3. ASSUME NEW d \in alphabet, TypeDef(d) PROVE WasRead'
  BY <1>3, TypeDefKeeps
<1>4. ASSUME NEW d \in alphabet, StructDef(d) PROVE WasRead'
  BY <1>4, StructDefKeeps
<1>5. ASSUME NEW d \in alphabet, ProcSpec(d) PROVE WasRead'
  BY <1>5, ProcSpecKeeps
<1>6. ASSUME \/ EndOfFile \/ EmitStruct \/ StructsEmitted \/ EmitFunction
             \/ FunctionsEmitted \/ EmitModule \/ Finished \/ UNCHANGED vars
      PROVE  WasRead'
  <2>1. UNCHANGED <<types, typedefs, all_structs, funcs>>
    BY <1>6 DEF EndOfFile, EmitStruct, StructsEmitted, EmitFunction, FunctionsEmitted, EmitModule,
                Finished, Emits, context, names, vars
  <2> QED
    BY <2>1, ReadStays
<1>7. HasInt32'
  <2>1. Takes(types)
    BY StepTakes
  <2>2. CASE types' = types
    BY <2>2 DEF HasInt32
  <2>3. CASE \E k, v : types' = Taking(types, k, v)
    BY <2>3 DEF HasInt32, Taking
  <2> QED
    BY <2>1, <2>2, <2>3 DEF Takes
<1> QED
  BY <1>1, <1>2, <1>3, <1>4, <1>5, <1>6, <1>7 DEF Next

\* The emitting loops follow each other.
LEMMA InOrderKept == InOrder /\ Sequence(funcs)' /\ [Next]_vars => InOrder'
<1> SUFFICES ASSUME InOrder, Sequence(funcs)', [Next]_vars PROVE InOrder'
  OBVIOUS
<1>1. ASSUME NEW d \in alphabet,
             \/ Package(d) \/ ConstantDef(d) \/ ErrorCodes(d) \/ EnumDef(d)
             \/ TypeDef(d) \/ StructDef(d) \/ ProcSpec(d) \/ SyntaxError(d)
      PROVE  InOrder'
  <2>1. pc = "parse" /\ emitted' = emitted /\ pc' \in {"parse", "raised", "structs"}
    BY <1>1 DEF Package, ConstantDef, ErrorCodes, EnumDef, TypeDef, StructDef, ProcSpec,
                SyntaxError, Next_, Goes, Raise, output
  <2>2. Len(funcs') \in Nat
    BY DEF Sequence
  <2> QED
    BY <2>1, <2>2 DEF InOrder
<1>2. CASE EndOfFile
  BY <1>2 DEF EndOfFile, context, output, InOrder
<1>3. CASE EmitStruct
  <2>1. /\ pc = "structs" /\ UNCHANGED <<funcs, all_structs>>
        /\ \/ pc' = "raised" /\ emitted' = emitted
           \/ pc' = pc /\ emitted' = [emitted EXCEPT !.structs = @ + 1]
    BY <1>3 DEF EmitStruct, Emits, context, names, output
  <2> QED
    BY <2>1 DEF InOrder
<1>4. CASE StructsEmitted \/ FunctionsEmitted
  BY <1>4 DEF StructsEmitted, FunctionsEmitted, Emits, context, names, output, InOrder
<1>5. CASE EmitFunction
  <2>1. /\ pc = "funcs" /\ emitted.funcs < Len(funcs) /\ UNCHANGED <<funcs, all_structs>>
        /\ \/ pc' = "raised" /\ emitted' = emitted
           \/ pc' = pc /\ emitted' = [emitted EXCEPT !.funcs = @ + 1]
    BY <1>5 DEF EmitFunction, Emits, context, names
  <2>2. Len(funcs) \in Nat
    BY <2>1 DEF Sequence
  <2> QED
    BY <2>1, <2>2 DEF InOrder
<1>6. CASE EmitModule
  <2>1. /\ pc = "module" /\ UNCHANGED <<funcs, all_structs, emitted>>
        /\ pc' \in {"raised", "written"}
    BY <1>6 DEF EmitModule, Emits, context, names
  <2> QED
    BY <2>1 DEF InOrder
<1>7. CASE Finished \/ UNCHANGED vars
  BY <1>7 DEF Finished, vars, context, names, output, InOrder
<1> QED
  BY <1>1, <1>2, <1>3, <1>4, <1>5, <1>6, <1>7 DEF Next

\* Before anything is read.
LEMMA ReadAtFirst == ASSUME Init PROVE WasRead /\ HasInt32 /\ InOrder
<1>1. /\ types = basic_types /\ typedefs = <<>> /\ all_structs = <<>> /\ funcs = <<>>
      /\ pc = "parse" /\ emitted = [structs |-> 0, funcs |-> 0]
  BY DEF Init
<1>2. Sequence(<<>>) /\ DOMAIN <<>> = {} /\ Len(<<>>) = 0
  BY DEF Sequence
<1>3. \A n \in DOMAIN basic_types : IsType(basic_types[n]) /\ ~is_struct(basic_types[n])
  BY DEF basic_types, xdr_type, IsType, is_struct
<1>4. KnownTypes(all_structs, types)
  BY <1>1, <1>3 DEF KnownTypes, Known, Refers
<1>5. WasRead
  BY <1>1, <1>2, <1>4 DEF WasRead, KnownTypes, Ordered, KnownFuncs
<1>6. HasInt32
  BY <1>1 DEF HasInt32, basic_types, xdr_type
<1>7. InOrder
  BY <1>1, <1>2 DEF InOrder
<1> QED
  BY <1>5, <1>6, <1>7

\* Whatever the interface files say, and whatever errors they have, the code for a
\* structure or a function refers only to structures that come before it, and to
\* what they were when it was read.
THEOREM NothingComesLate == Spec => []EmittedBeforeUsed
<1>1. Init => WasRead /\ HasInt32 /\ InOrder
  BY ReadAtFirst
<1>2. WasRead /\ HasInt32 /\ InOrder /\ [Next]_vars => (WasRead /\ HasInt32 /\ InOrder)'
  <2>1. WasRead' => Sequence(funcs)'
    BY DEF WasRead
  <2> QED
    BY <2>1, ReadKept, InOrderKept
<1>3. WasRead /\ InOrder => EmittedBeforeUsed
  <2> SUFFICES ASSUME WasRead, InOrder PROVE EmittedBeforeUsed
    OBVIOUS
  <2>1. ASSUME NEW i \in DOMAIN all_structs, NEW k \in DOMAIN all_structs[i].members
        PROVE  Refers(all_structs, i - 1, all_structs[i].members[k].typespec)
    BY DEF WasRead, Ordered
  <2>2. ASSUME NEW i \in 1 .. emitted.funcs, NEW k \in DOMAIN funcs[i].params
        PROVE  Refers(all_structs, emitted.structs, funcs[i].params[k].typespec)
    <3>1. i \in DOMAIN funcs
      BY DEF WasRead, Sequence, InOrder
    <3>2. emitted.structs = Len(all_structs)
      BY DEF InOrder
    <3> QED
      BY <3>1, <3>2 DEF WasRead, KnownFuncs, KnownParams, Known
  <2> QED
    BY <2>1, <2>2 DEF EmittedBeforeUsed, Refers
<1> QED
  BY <1>1, <1>2, <1>3, PTL DEF Spec

-----------------------------------------------------------------------------
(* Sums and searches are recursive: what they are has to be shown by         *)
(* induction, on sets of numbers here.                                       *)

\* A set of numbers that is not empty has a least member.
LEMMA LeastMember ==
  ASSUME NEW T \in SUBSET Nat, T # {}
  PROVE  \E x \in T : \A y \in T : x <= y
<1>1. PICK x \in T : \A y \in T : ~ (<<y, x>> \in OpToRel(<, Nat))
  BY NatLessThanWellFounded, WFMin
<1>2. \A y \in T : ~ (y < x)
  BY <1>1 DEF OpToRel
<1>3. \A y \in T : x \in Nat /\ y \in Nat /\ ~(y < x) => x <= y
  OBVIOUS
<1> QED
  BY <1>1, <1>2, <1>3

\* A set of numbers with 0 in it, and with each number the next, has them all.
LEMMA Induction ==
  ASSUME NEW S, 0 \in S, \A n \in Nat : n \in S => n + 1 \in S
  PROVE  Nat \subseteq S
<1> SUFFICES ASSUME ~(Nat \subseteq S) PROVE FALSE
  OBVIOUS
<1>1. (Nat \ S) \in SUBSET Nat /\ (Nat \ S) # {}
  OBVIOUS
<1>2. PICK x \in Nat \ S : \A y \in Nat \ S : x <= y
  BY <1>1, LeastMember
<1>3. x # 0 /\ x - 1 \in Nat /\ ~(x <= x - 1) /\ x - 1 + 1 = x
  BY <1>2
<1>4. x - 1 \in S
  BY <1>2, <1>3
<1> QED
  BY <1>2, <1>3, <1>4

\* Some member of a set.
Pick(s) == CHOOSE x \in s : TRUE

\* A set without some member of it has one member less.
LEMMA PickIs ==
  ASSUME NEW D, IsFiniteSet(D), NEW s \in SUBSET D, s # {}
  PROVE  /\ Pick(s) \in s /\ s \ {Pick(s)} \in SUBSET D
         /\ Cardinality(s) \in Nat \ {0}
         /\ Cardinality(s \ {Pick(s)}) = Cardinality(s) - 1
<1>1. Pick(s) \in s
  BY DEF Pick
<1>2. IsFiniteSet(s)
  BY FS_Subset
<1>3. Cardinality(s) \in Nat /\ Cardinality(s) # 0
  BY <1>2, FS_CardinalityType, FS_EmptySet
<1>4. Cardinality(s \ {Pick(s)}) = Cardinality(s) - 1
  BY <1>1, <1>2, FS_RemoveElement
<1> QED
  BY <1>1, <1>3, <1>4

\* A sum over a finite set: the function that FoldSeq defines by recursion.
IsSum(D, P, g) ==
  g = [s \in SUBSET D |-> IF s = {} THEN 0 ELSE g[s \ {Pick(s)}] + P[Pick(s)]]

\* There is such a function.
LEMMA SumExists ==
  ASSUME NEW D, IsFiniteSet(D), NEW P
  PROVE  \E g : IsSum(D, P, g)
<1> DEFINE Upto(k) == {s \in SUBSET D : Cardinality(s) <= k}
           Partial(k, f) == f = [s \in Upto(k) |->
                                   IF s = {} THEN 0 ELSE f[s \ {Pick(s)}] + P[Pick(s)]]
           S == {k \in Nat : \E f : Partial(k, f)}
<1>1. \A s \in SUBSET D : s # {} =>
        /\ s \ {Pick(s)} \in SUBSET D /\ Cardinality(s) \in Nat \ {0}
        /\ Cardinality(s \ {Pick(s)}) = Cardinality(s) - 1
  BY PickIs
<1>2. 0 \in S
  <2>1. ASSUME NEW s \in Upto(0) PROVE s = {}
    <3>1. Cardinality(s) <= 0 /\ ~(Cardinality(s) \in Nat \ {0})
      OBVIOUS
    <3> QED
      BY <1>1, <3>1
  <2>2. Partial(0, [s \in Upto(0) |-> 0])
    BY <2>1
  <2> QED
    BY <2>2
<1>3. ASSUME NEW k \in Nat, k \in S PROVE k + 1 \in S
  <2>1. PICK f : Partial(k, f)
    BY <1>3
  <2> DEFINE g == [s \in Upto(k + 1) |->
                     IF s = {} THEN 0 ELSE f[s \ {Pick(s)}] + P[Pick(s)]]
  <2>2. \A s \in Upto(k) : s \in Upto(k + 1)
    <3>1. \A s \in SUBSET D : s # {} => Cardinality(s) \in Nat
      BY <1>1
    <3>2. Cardinality({}) = 0
      BY FS_EmptySet
    <3> QED
      BY <3>1, <3>2
  <2>3. \A s \in Upto(k) : f[s] = IF s = {} THEN 0 ELSE f[s \ {Pick(s)}] + P[Pick(s)]
    BY <2>1
  <2>4. \A s \in Upto(k) : g[s] = f[s]
    BY <2>2, <2>3
  <2>5. \A s \in Upto(k + 1) : s # {} => s \ {Pick(s)} \in Upto(k)
    BY <1>1
  <2>6. \A s \in Upto(k + 1) :
          g[s] = IF s = {} THEN 0 ELSE g[s \ {Pick(s)}] + P[Pick(s)]
    BY <2>4, <2>5
  <2>7. g = [s \in Upto(k + 1) |-> g[s]]
    OBVIOUS
  <2> HIDE DEF g
  <2>8. Partial(k + 1, g)
    BY <2>6, <2>7
  <2>9. k + 1 \in Nat
    OBVIOUS
  <2> HIDE DEF Partial
  <2> QED
    BY <2>8, <2>9
<1>4. Cardinality(D) \in Nat
  BY FS_CardinalityType
<1> HIDE DEF S
<1>5. Cardinality(D) \in S
  BY <1>2, <1>3, <1>4, Induction
<1>6. Upto(Cardinality(D)) = SUBSET D
  BY FS_Subset
<1> QED
  BY <1>5, <1>6 DEF S, IsSum

\* If every number is four times another, so is the sum.
LEMMA SumTimesFour ==
  ASSUME NEW D, IsFiniteSet(D), NEW P, NEW Q, NEW g, NEW h,
         IsSum(D, P, g), IsSum(D, Q, h),
         \A x \in D : Q[x] \in Int /\ P[x] = 4 * Q[x]
  PROVE  h[D] \in Int /\ g[D] = 4 * h[D]
<1> DEFINE S == {k \in Nat : \A s \in SUBSET D :
                   Cardinality(s) = k => h[s] \in Int /\ g[s] = 4 * h[s]}
<1>1. \A s \in SUBSET D : /\ g[s] = IF s = {} THEN 0 ELSE g[s \ {Pick(s)}] + P[Pick(s)]
                          /\ h[s] = IF s = {} THEN 0 ELSE h[s \ {Pick(s)}] + Q[Pick(s)]
  BY DEF IsSum
<1>2. 0 \in S
  <2>1. \A s \in SUBSET D : Cardinality(s) = 0 => s = {}
    BY PickIs
  <2> QED
    BY <1>1, <2>1
<1>3. ASSUME NEW k \in Nat, k \in S PROVE k + 1 \in S
  <2> SUFFICES ASSUME NEW s \in SUBSET D, Cardinality(s) = k + 1
               PROVE  h[s] \in Int /\ g[s] = 4 * h[s]
    OBVIOUS
  <2>1. s # {}
    BY FS_EmptySet
  <2>2. PICK x, t : x = Pick(s) /\ t = s \ {Pick(s)}
    OBVIOUS
  <2>3. x \in D /\ t \in SUBSET D /\ Cardinality(t) = k
    BY <2>1, <2>2, PickIs
  <2>4. h[t] \in Int /\ g[t] = 4 * h[t]
    BY <1>3, <2>3
  <2>5. g[s] = g[t] + P[x] /\ h[s] = h[t] + Q[x]
    BY <1>1, <2>1, <2>2
  <2>6. Q[x] \in Int /\ P[x] = 4 * Q[x]
    BY <2>3
  <2> QED
    BY <2>4, <2>5, <2>6
<1>4. Cardinality(D) \in Nat
  BY FS_CardinalityType
<1> HIDE DEF S
<1>5. Cardinality(D) \in S
  BY <1>2, <1>3, <1>4, Induction
<1> QED
  BY <1>5 DEF S

\* The size of a structure, and the words that are written for it, are sums.
LEMMA SizeIsSum ==
  ASSUME NEW ms, IsFiniteSet(DOMAIN ms)
  PROVE  \E g : /\ IsSum(DOMAIN ms, [k \in DOMAIN ms |-> ms[k].typespec.xdr_size], g)
                /\ SizeOf(ms) = g[DOMAIN ms]
<1> DEFINE D == DOMAIN ms
           G(g) == g = [s \in SUBSET D |-> IF s = {} THEN 0
                          ELSE g[s \ {CHOOSE x \in s : TRUE}]
                                 + ms[CHOOSE x \in s : TRUE].typespec.xdr_size]
           P == [k \in D |-> ms[k].typespec.xdr_size]
<1>1. SizeOf(ms) = (CHOOSE g : G(g))[D]
  BY DEF SizeOf, FoldSeq, FoldFunction, FoldFunctionOnSet, MapThenFoldSet
<1>2. ASSUME NEW g PROVE G(g) <=> IsSum(D, P, g)
  <2>1. \A s \in SUBSET D : s # {} => Pick(s) \in D
    BY DEF Pick
  <2>2. \A s \in SUBSET D : s # {} => P[Pick(s)] = ms[Pick(s)].typespec.xdr_size
    BY <2>1
  <2> HIDE DEF P
  <2>3. [s \in SUBSET D |-> IF s = {} THEN 0 ELSE g[s \ {Pick(s)}] + P[Pick(s)]]
          = [s \in SUBSET D |-> IF s = {} THEN 0
               ELSE g[s \ {Pick(s)}] + ms[Pick(s)].typespec.xdr_size]
    BY <2>2
  <2> QED
    BY <2>3 DEF IsSum, Pick
<1>3. \E g : IsSum(D, P, g)
  BY SumExists
<1> HIDE DEF G
<1>4. PICK g : g = CHOOSE x : G(x)
  OBVIOUS
<1>5. G(g)
  BY <1>2, <1>3, <1>4
<1>6. IsSum(D, P, g)
  BY <1>2, <1>5
<1> QED
  BY <1>1, <1>4, <1>6

\* The same of the words.
LEMMA WordsAreSum ==
  ASSUME NEW ms, IsFiniteSet(DOMAIN ms)
  PROVE  \E g : /\ IsSum(DOMAIN ms, [k \in DOMAIN ms |-> MemberWords(ms[k].typespec)], g)
                /\ StructWords(ms) = g[DOMAIN ms]
<1> DEFINE D == DOMAIN ms
           G(g) == g = [s \in SUBSET D |-> IF s = {} THEN 0
                          ELSE g[s \ {CHOOSE x \in s : TRUE}]
                                 + MemberWords(ms[CHOOSE x \in s : TRUE].typespec)]
           P == [k \in D |-> MemberWords(ms[k].typespec)]
<1>1. StructWords(ms) = (CHOOSE g : G(g))[D]
  BY DEF StructWords, FoldSeq, FoldFunction, FoldFunctionOnSet, MapThenFoldSet
<1>2. ASSUME NEW g PROVE G(g) <=> IsSum(D, P, g)
  <2>1. \A s \in SUBSET D : s # {} => Pick(s) \in D
    BY DEF Pick
  <2>2. \A s \in SUBSET D : s # {} => P[Pick(s)] = MemberWords(ms[Pick(s)].typespec)
    BY <2>1
  <2> HIDE DEF P
  <2>3. [s \in SUBSET D |-> IF s = {} THEN 0 ELSE g[s \ {Pick(s)}] + P[Pick(s)]]
          = [s \in SUBSET D |-> IF s = {} THEN 0
               ELSE g[s \ {Pick(s)}] + MemberWords(ms[Pick(s)].typespec)]
    BY <2>2
  <2> QED
    BY <2>3 DEF IsSum, Pick
<1>3. \E g : IsSum(D, P, g)
  BY SumExists
<1> HIDE DEF G
<1>4. PICK g : g = CHOOSE x : G(x)
  OBVIOUS
<1>5. G(g)
  BY <1>2, <1>3, <1>4
<1>6. IsSum(D, P, g)
  BY <1>2, <1>5
<1> QED
  BY <1>1, <1>4, <1>6

-----------------------------------------------------------------------------
(* Sizes. *)

\* A type is as large as the words written for it: its structure, if it is made of
\* one, is among the first n of a list.
SizeFits(ss, n, ty) ==
  ~Uncoded(ty) =>
    IF is_struct(ty)
    THEN \E j \in 1 .. n :
           /\ ss[j].name = ty.name
           /\ is_single(ty) => ty.xdr_size = ss[j].xdr_size
           /\ is_array(ty) => ty.dim \in Int /\ ty.xdr_size = ss[j].xdr_size * ty.dim
    ELSE /\ is_single(ty) => ty.xdr_size = 4
         /\ is_array(ty) => ty.dim \in Int /\ ty.xdr_size = 4 * ty.dim

FittingTypes(ss, dict) == \A n \in DOMAIN dict : SizeFits(ss, Len(ss), dict[n])
FittingMembers(ss, n, ms) ==
  /\ IsFiniteSet(DOMAIN ms)
  /\ \A k \in DOMAIN ms : SizeFits(ss, n, ms[k].typespec)
FittingStructs(ss) ==
  \A i \in DOMAIN ss : FittingMembers(ss, i - 1, ss[i].members)
                       /\ ss[i].xdr_size = SizeOf(ss[i].members)

\* What has been read fits, if nothing was complained of.
Fitting == FittingTypes(all_structs, types) /\ FittingTypes(all_structs, typedefs)
             /\ FittingStructs(all_structs)

\* A structure has its name for itself.
OwnNames ==
  /\ \A i, j \in DOMAIN all_structs : all_structs[i].name = all_structs[j].name => i = j
  /\ \A i \in DOMAIN all_structs : all_structs[i].name \in DOMAIN structs

\* Constants are numbers.
Numbers == \A c \in DOMAIN constants : constants[c] \in Int

\* What has been emitted writes as many words as its size says.
Written ==
  /\ emitted.structs \in 0 .. Len(all_structs)
  /\ DOMAIN encoder = {all_structs[i].name : i \in 1 .. emitted.structs}
  /\ ~complained => \A i \in 1 .. emitted.structs :
                      /\ encoder[all_structs[i].name] \in Int
                      /\ all_structs[i].xdr_size = 4 * encoder[all_structs[i].name]

\* While definitions come nothing has been emitted.
Nothing == pc = "parse" => emitted.structs = 0

SInv == Numbers /\ OwnNames /\ Written /\ Nothing /\ (~complained => Fitting)

\* A declaration that is not complained of fits if what it is made of does.
LEMMA DeclareFits ==
  ASSUME NEW ss, NEW n, NEW base, IsType(base), SizeFits(ss, n, base),
         NEW form, NEW k \in Int, NEW limited, ~DeclareComplains(base, form, limited)
  PROVE  SizeFits(ss, n, Declare(base, form, k, limited))
<1>1. CASE form \in {"plain", "*"}
  BY <1>1 DEF Declare
<1>2. CASE form = "[]"
  <2>1. is_single(base)
    BY <1>2 DEF DeclareComplains
  <2>2. PICK ty : ty = FixedArray(base, k)
    OBVIOUS
  <2>3. /\ ty.name = base.name /\ ty.basic = base.basic /\ ty.array = "fixed"
        /\ ty.dim = k /\ ty.xdr_size = base.xdr_size * k
    BY <2>2 DEF FixedArray, IsType
  <2>4. SizeFits(ss, n, ty)
    <3> SUFFICES ASSUME ~Uncoded(ty) PROVE SizeFits(ss, n, ty)
      BY DEF SizeFits
    <3>1. ~Uncoded(base) /\ (is_struct(ty) <=> is_struct(base))
      BY <2>1, <2>3 DEF Uncoded, is_single_int32, is_single_struct, is_single, is_struct, is_array
    <3>2. CASE is_struct(ty)
      <4>1. PICK j \in 1 .. n : ss[j].name = base.name /\ base.xdr_size = ss[j].xdr_size
        BY <2>1, <3>1, <3>2 DEF SizeFits
      <4> QED
        BY <2>3, <3>2, <4>1 DEF SizeFits, is_single, is_array
    <3>3. CASE ~is_struct(ty)
      <4>1. base.xdr_size = 4
        BY <2>1, <3>1, <3>3 DEF SizeFits
      <4> QED
        BY <2>3, <3>3, <4>1 DEF SizeFits, is_single, is_array
    <3> QED
      BY <3>2, <3>3
  <2>5. Declare(base, form, k, limited) = ty
    BY <1>2, <2>2 DEF Declare
  <2> QED
    BY <2>4, <2>5
<1>3. CASE form = "<>" /\ is_single_blob(base)
  <2>1. Declare(base, form, k, limited) = Limited(base, limited)
    BY <1>3 DEF Declare
  <2>2. Uncoded(Limited(base, limited))
    BY <1>3 DEF Limited, IsType, is_single_blob, is_single, is_blob, is_opaque, Uncoded, is_single_int32,
                is_single_struct, is_struct, is_array
  <2> QED
    BY <2>1, <2>2 DEF SizeFits
<1>4. CASE form \notin {"plain", "*", "[]"} /\ ~(form = "<>" /\ is_single_blob(base))
  <2>1. Declare(base, form, k, limited) = Bulk(base, limited)
    BY <1>4 DEF Declare
  <2>2. Uncoded(Bulk(base, limited))
    BY DEF Bulk, IsType, is_single, Uncoded, is_single_int32, is_single_struct, is_array
  <2> QED
    BY <2>1, <2>2 DEF SizeFits
<1> QED
  BY <1>1, <1>2, <1>3, <1>4

\* The same of a declaration in a file.
LEMMA DeclaredFits ==
  ASSUME NEW d, bound(d.spec), ~Complains(d), WasRead, Fitting, Numbers
  PROVE  SizeFits(all_structs, Len(all_structs), Declared(d))
<1>1. PICK base : base = get_type(d.spec)
  OBVIOUS
<1>2. IsType(base) /\ SizeFits(all_structs, Len(all_structs), base)
  BY <1>1 DEF bound, get_type, WasRead, KnownTypes, Fitting, FittingTypes
<1>3. value(d.size) \in Int
  BY RxgenAssumption DEF value, get_constant, Numbers
<1>4. PICK k \in Int, limited \in BOOLEAN :
        k = value(d.size) /\ limited = (d.size # None)
  BY <1>3
<1>5. ~DeclareComplains(base, d.form, limited)
  BY <1>1, <1>4 DEF Complains
<1>6. Declared(d) = Declare(base, d.form, k, limited)
  BY <1>1, <1>4 DEF Declared
<1> QED
  BY <1>2, <1>5, <1>6, DeclareFits

\* A structure added to a list leaves what fits fitting.
LEMMA AddingFits ==
  ASSUME NEW ss, Sequence(ss), NEW s
  PROVE  /\ \A ty : SizeFits(ss, Len(ss), ty)
                      => SizeFits(Append(ss, s), Len(Append(ss, s)), ty)
         /\ is_single(s) => SizeFits(Append(ss, s), Len(Append(ss, s)), s) \/ ~is_struct(s)
         /\ FittingStructs(ss) /\ FittingMembers(ss, Len(ss), s.members)
              /\ s.xdr_size = SizeOf(s.members) => FittingStructs(Append(ss, s))
<1>1. PICK S : ss \in Seq(S)
  BY DEF Sequence
<1>2. PICK n \in Nat : n = Len(ss) /\ DOMAIN ss = 1 .. n
  BY <1>1
<1> DEFINE tt == Append(ss, s)
<1>3. /\ Len(tt) = n + 1 /\ DOMAIN tt = 1 .. n + 1
      /\ \A j \in 1 .. n : tt[j] = ss[j]
      /\ tt[n + 1] = s
  <2>1. ss \in Seq(S \cup {s})
    BY <1>1
  <2> QED
    BY <1>2, <2>1
<1> HIDE DEF tt
<1>4. \A m \in 0 .. n : \A ty : SizeFits(ss, m, ty) => SizeFits(tt, m, ty)
  <2> SUFFICES ASSUME NEW m \in 0 .. n, NEW ty, SizeFits(ss, m, ty), ~Uncoded(ty)
               PROVE  SizeFits(tt, m, ty)
    BY DEF SizeFits
  <2>1. CASE is_struct(ty)
    <3>1. PICK j \in 1 .. m :
            /\ ss[j].name = ty.name
            /\ is_single(ty) => ty.xdr_size = ss[j].xdr_size
            /\ is_array(ty) => ty.dim \in Int /\ ty.xdr_size = ss[j].xdr_size * ty.dim
      BY <2>1 DEF SizeFits
    <3>2. tt[j] = ss[j]
      BY <1>3
    <3> QED
      BY <2>1, <3>1, <3>2 DEF SizeFits
  <2>2. CASE ~is_struct(ty)
    BY <2>2 DEF SizeFits
  <2> QED
    BY <2>1, <2>2
<1>5. \A ty : SizeFits(tt, n, ty) => SizeFits(tt, n + 1, ty)
  <2>1. 1 .. n \subseteq 1 .. n + 1
    BY <1>2
  <2> QED
    BY <2>1 DEF SizeFits
<1>6. \A ty : SizeFits(ss, Len(ss), ty) => SizeFits(tt, Len(tt), ty)
  BY <1>2, <1>3, <1>4, <1>5
<1>7. ASSUME is_single(s), is_struct(s) PROVE SizeFits(tt, Len(tt), s)
  <2>1. ~is_array(s)
    BY <1>7 DEF is_single, is_array
  <2>2. n + 1 \in 1 .. Len(tt)
    BY <1>3
  <2> QED
    BY <1>3, <1>7, <2>1, <2>2 DEF SizeFits
<1>8. ASSUME FittingStructs(ss), FittingMembers(ss, n, s.members), s.xdr_size = SizeOf(s.members)
      PROVE  FittingStructs(tt)
  <2> SUFFICES ASSUME NEW i \in 1 .. n + 1
               PROVE  FittingMembers(tt, i - 1, tt[i].members) /\ tt[i].xdr_size = SizeOf(tt[i].members)
    BY <1>3 DEF FittingStructs
  <2>1. CASE i \in 1 .. n
    <3>1. tt[i] = ss[i] /\ i - 1 \in 0 .. n
      BY <1>2, <1>3, <2>1
    <3>2. FittingMembers(ss, i - 1, ss[i].members) /\ ss[i].xdr_size = SizeOf(ss[i].members)
      BY <1>2, <1>8, <2>1 DEF FittingStructs
    <3> QED
      BY <1>4, <3>1, <3>2 DEF FittingMembers
  <2>2. CASE i = n + 1
    <3>1. tt[i] = s /\ i - 1 = n /\ n \in 0 .. n
      BY <1>2, <1>3, <2>2
    <3> QED
      BY <1>4, <1>8, <3>1 DEF FittingMembers
  <2> QED
    BY <1>2, <2>1, <2>2
<1> QED
  BY <1>2, <1>6, <1>7, <1>8 DEF tt

\* The constants that a list adds are numbers: each name has a first entry.
LEMMA AddedIs ==
  ASSUME Numbers, NEW list, list \in Seq(Range(list)),
         \A i \in DOMAIN list : list[i].value \in DOMAIN Number
  PROVE  /\ DOMAIN Added(list) = DOMAIN constants \cup {list[i].name : i \in DOMAIN list}
         /\ \A c \in DOMAIN constants : Added(list)[c] = constants[c]
         /\ \A c \in DOMAIN Added(list) : Added(list)[c] \in Int
<1> DEFINE First(n) == CHOOSE i \in DOMAIN list :
                         list[i].name = n /\ \A j \in 1 .. i - 1 : list[j].name # n
           Names == {list[i].name : i \in DOMAIN list}
           new == [n \in Names |-> Number[list[First(n)].value]]
<1>1. Added(list) = Filled(constants, new)
  BY DEF Added
<1>2. \A n \in Names : new[n] \in Int
  <2> SUFFICES ASSUME NEW n \in Names PROVE First(n) \in DOMAIN list
    BY RxgenAssumption
  <2>1. DOMAIN list \in SUBSET Nat /\ \A i \in DOMAIN list : 1 .. i - 1 \subseteq DOMAIN list
    BY DEF Range
  <2>2. PICK T : T = {i \in DOMAIN list : list[i].name = n}
    OBVIOUS
  <2>3. T \in SUBSET Nat /\ T # {}
    BY <2>1, <2>2
  <2>4. PICK x \in T : \A y \in T : x <= y
    BY <2>3, LeastMember
  <2>5. \A j \in 1 .. x - 1 : j \in DOMAIN list /\ ~(x <= j)
    BY <2>1, <2>2, <2>3, <2>4
  <2>6. x \in DOMAIN list /\ list[x].name = n /\ \A j \in 1 .. x - 1 : list[j].name # n
    BY <2>2, <2>4, <2>5
  <2> QED
    BY <2>6
<1>3. DOMAIN new = Names
  OBVIOUS
<1> HIDE DEF new
<1> QED
  BY <1>1, <1>2, <1>3 DEF Filled, Numbers

\* A step that changes neither types nor structures, nor what is emitted.
LEMMA SizesStay ==
  ASSUME SInv, UNCHANGED <<types, typedefs, structs, all_structs, encoder, emitted>>,
         complained \in BOOLEAN, complained' \in BOOLEAN, complained => complained',
         Numbers', pc' = "parse" => pc = "parse"
  PROVE  SInv'
<1>1. Fitting => Fitting'
  BY DEF Fitting, FittingTypes, FittingStructs
<1>2. OwnNames' /\ Nothing' /\ Written'
  BY DEF SInv, OwnNames, Nothing, Written
<1> QED
  BY <1>1, <1>2 DEF SInv

\* What is read while nothing has been emitted.
LEMMA NothingWritten ==
  ASSUME SInv, pc = "parse", UNCHANGED <<encoder, emitted>>, Sequence(all_structs')
  PROVE  Written' /\ Nothing'
<1>1. emitted.structs = 0 /\ encoder' = encoder /\ emitted'.structs = 0
  BY DEF SInv, Nothing
<1>2. DOMAIN encoder = {}
  BY <1>1 DEF SInv, Written
<1>3. Len(all_structs') \in Nat
  BY DEF Sequence
<1>4. 0 \in 0 .. Len(all_structs') /\ 1 .. 0 = {}
  BY <1>3
<1> QED
  BY <1>1, <1>2, <1>4 DEF Written, Nothing

\* Definitions that add constants.
LEMMA ConstantKeepsSizes ==
  ASSUME SInv, NEW a \in Alphabets, NEW d \in a, complained \in BOOLEAN,
         Package(d) \/ ConstantDef(d) \/ ErrorCodes(d) \/ ProcSpec(d) \/ SyntaxError(d)
  PROVE  SInv'
<1>0. Grammatical(d)
  BY RxgenAssumption
<1>1. /\ UNCHANGED <<types, typedefs, structs, all_structs, encoder, emitted>>
      /\ complained' \in BOOLEAN /\ (complained => complained')
      /\ pc = "parse"
  BY DEF Package, ConstantDef, ErrorCodes, ProcSpec, SyntaxError, Next_, Goes, Raise, context,
         names, output
<1>2. Numbers'
  <2>1. CASE constants' = constants
    BY <2>1 DEF SInv, Numbers
  <2>2. CASE ConstantDef(d)
    <3>1. constants' = Added(<<d>>) /\ d.value \in DOMAIN Number
      BY <1>0, <2>2 DEF ConstantDef, Grammatical
    <3>2. <<d>> \in Seq(Range(<<d>>)) /\ \A i \in DOMAIN <<d>> : <<d>>[i] = d
      BY DEF Range
    <3> QED
      BY <3>1, <3>2, AddedIs DEF SInv, Numbers
  <2>3. CASE ErrorCodes(d) /\ constants' # constants
    <3>1. constants' = Added(d.list) /\ d.kind = "codes"
      BY <2>3 DEF ErrorCodes, Raise, context, names
    <3> QED
      BY <1>0, <3>1, AddedIs DEF SInv, Numbers, Grammatical
  <2>4. CASE Package(d) \/ ProcSpec(d) \/ SyntaxError(d)
    BY <2>1, <2>4 DEF Package, ProcSpec, SyntaxError, Raise, context, names
  <2> QED
    BY <2>1, <2>2, <2>3, <2>4
<1> QED
  BY <1>1, <1>2, SizesStay

\* An enum is a number of one word.
LEMMA EnumKeepsSizes ==
  ASSUME SInv, WasRead, HasInt32, NEW a \in Alphabets, NEW d \in a, complained \in BOOLEAN,
         EnumDef(d)
  PROVE  SInv'
<1>0. Grammatical(d)
  BY RxgenAssumption
<1>1. /\ UNCHANGED <<typedefs, structs, all_structs, encoder, emitted>>
      /\ types' = Taking(types, d.name, types["int32_t"])
      /\ (complained => complained')
      /\ pc = "parse" /\ constants' = Added(d.list) /\ d.kind = "enum"
  BY DEF EnumDef, AddType, Next_, Goes, output, HasInt32, get_type
<1>2. Numbers'
  BY <1>0, <1>1, AddedIs DEF SInv, Numbers, Grammatical
<1>3. Fitting => Fitting'
  <2> SUFFICES ASSUME Fitting PROVE Fitting'
    OBVIOUS
  <2>1. \A n \in DOMAIN types' : \/ n \in DOMAIN types /\ types'[n] = types[n]
                                 \/ types'[n] = types["int32_t"]
    BY <1>1 DEF Taking
  <2>2. FittingTypes(all_structs, types')
    BY <2>1 DEF Fitting, FittingTypes, HasInt32
  <2>3. FittingTypes(all_structs, typedefs') /\ FittingStructs(all_structs) /\ all_structs' = all_structs
    BY <1>1 DEF Fitting
  <2> QED
    BY <2>2, <2>3 DEF Fitting
<1>4. OwnNames'
  BY <1>1 DEF SInv, OwnNames
<1>5. Written' /\ Nothing'
  BY <1>1, NothingWritten DEF WasRead
<1> QED
  BY <1>1, <1>2, <1>3, <1>4, <1>5 DEF SInv

\* An alias is as large as what it is declared to be.
LEMMA TypeDefKeepsSizes ==
  ASSUME SInv, WasRead, NEW d, complained \in BOOLEAN, TypeDef(d)
  PROVE  SInv'
<1>1. /\ UNCHANGED <<types, structs, all_structs, encoder, emitted, constants>>
      /\ complained' \in BOOLEAN /\ (complained => complained') /\ pc = "parse"
  BY DEF TypeDef, Raise, Next_, Goes, context, names, output
<1>2. Numbers'
  BY <1>1 DEF SInv, Numbers
<1>3. CASE ~bound(d.spec)
  <2>1. typedefs' = typedefs
    BY <1>3 DEF TypeDef, Raise, context, names
  <2> QED
    BY <1>1, <1>2, <2>1, SizesStay
<1>4. CASE bound(d.spec)
  <2>1. ~complained' => Fitting'
    <3> SUFFICES ASSUME ~complained' PROVE Fitting'
      OBVIOUS
    <3>1. ~Complains(d) /\ AddTypeAlias(d.name, Declared(d))
      BY <1>4 DEF TypeDef, Goes
    <3>2. Fitting
      BY <1>1 DEF SInv
    <3>3. SizeFits(all_structs, Len(all_structs), Declared(d))
      BY <1>4, <3>1, <3>2, DeclaredFits DEF SInv
    <3>4. \A n \in DOMAIN typedefs' : \/ n \in DOMAIN typedefs /\ typedefs'[n] = typedefs[n]
                                      \/ typedefs'[n] = Declared(d)
      BY <3>1 DEF AddTypeAlias, Taking
    <3>5. FittingTypes(all_structs, typedefs')
      BY <3>2, <3>3, <3>4 DEF Fitting, FittingTypes
    <3> QED
      BY <1>1, <3>2, <3>5 DEF Fitting
  <2>2. OwnNames'
    BY <1>1 DEF SInv, OwnNames
  <2>3. Written' /\ Nothing'
    BY <1>1, NothingWritten DEF WasRead
  <2> QED
    BY <1>1, <1>2, <2>1, <2>2, <2>3 DEF SInv
<1> QED
  BY <1>3, <1>4

\* A structure is as large as its members.
LEMMA StructDefKeepsSizes ==
  ASSUME SInv, WasRead, WasRead', NEW a \in Alphabets, NEW d \in a, complained \in BOOLEAN,
         StructDef(d)
  PROVE  SInv'
<1>0. Grammatical(d)
  BY RxgenAssumption
<1>1. /\ UNCHANGED <<typedefs, encoder, emitted, constants>>
      /\ complained' \in BOOLEAN /\ (complained => complained')
      /\ pc = "parse" /\ d.kind = "struct"
  BY DEF StructDef, Raise, Next_, Goes, context, names, output
<1>2. Numbers'
  BY <1>1 DEF SInv, Numbers
<1>3. CASE UNCHANGED <<types, structs, all_structs>>
  BY <1>1, <1>2, <1>3, SizesStay
<1>4. CASE ~UNCHANGED <<types, structs, all_structs>>
  <2>1. /\ \A i \in DOMAIN d.members : bound(d.members[i].spec)
        /\ d.name \notin DOMAIN structs
        /\ structs' = Taking(structs, d.name, StructOf(d))
        /\ all_structs' = Append(all_structs, StructOf(d))
        /\ types' = Taking(types, d.name, StructOf(d))
        /\ Goes(\/ \E i \in DOMAIN d.members : Complains(d.members[i])
                \/ d.name \in DOMAIN structs \cup DOMAIN types)
    BY <1>4 DEF StructDef, Raise, context, names, Emitted, AddType
  <2>2. PICK s, ss : s = StructOf(d) /\ ss = Append(all_structs, s)
    OBVIOUS
  <2>3. /\ s.name = d.name /\ s.members = [i \in DOMAIN d.members |-> Member(d.members[i])]
        /\ s.xdr_size = SizeOf(s.members) /\ is_single(s)
    BY <2>2 DEF StructOf, xdr_type, is_single
  <2>4. is_struct(s)
    BY <2>2 DEF StructOf, xdr_type, is_struct
  <2>5. PICK S : all_structs \in Seq(S)
    BY DEF WasRead, Sequence
  <2>6. PICK n \in Nat : n = Len(all_structs) /\ DOMAIN all_structs = 1 .. n
    BY <2>5
  <2>7. all_structs \in Seq(S \cup {s})
    BY <2>5
  <2>8. DOMAIN ss = 1 .. n + 1 /\ ss[n + 1] = s /\ \A j \in 1 .. n : ss[j] = all_structs[j]
    BY <2>2, <2>6, <2>7
  <2>9. OwnNames'
    <3>1. all_structs' = ss /\ DOMAIN structs' = DOMAIN structs \cup {d.name}
      BY <2>1, <2>2 DEF Taking
    <3>2. \A i \in 1 .. n : ss[i].name \in DOMAIN structs
      BY <2>6, <2>8 DEF SInv, OwnNames
    <3>3. \A i, j \in 1 .. n : ss[i].name = ss[j].name => i = j
      BY <2>6, <2>8 DEF SInv, OwnNames
    <3>4. \A i \in DOMAIN ss : i \in 1 .. n \/ i = n + 1
      BY <2>8
    <3>5. ss[n + 1].name \notin DOMAIN structs /\ ss[n + 1].name = d.name
      BY <2>1, <2>3, <2>8
    <3>6. \A i, j \in DOMAIN ss : ss[i].name = ss[j].name => i = j
      BY <3>2, <3>3, <3>4, <3>5
    <3>7. \A i \in DOMAIN ss : ss[i].name \in DOMAIN structs'
      BY <3>1, <3>2, <3>4, <3>5
    <3> QED
      BY <3>1, <3>6, <3>7 DEF OwnNames
  <2>10. ~complained' => Fitting'
    <3> SUFFICES ASSUME ~complained' PROVE Fitting'
      OBVIOUS
    <3>1. Fitting /\ \A i \in DOMAIN d.members : ~Complains(d.members[i])
      BY <1>1, <2>1 DEF SInv, Goes
    <3>2. \A i \in DOMAIN d.members :
            SizeFits(all_structs, Len(all_structs), Declared(d.members[i]))
      BY <2>1, <3>1, DeclaredFits DEF SInv
    <3>3. DOMAIN s.members = DOMAIN d.members
          /\ \A i \in DOMAIN d.members : s.members[i].typespec = Declared(d.members[i])
      BY <2>3 DEF Member
    <3>4. IsFiniteSet(DOMAIN d.members)
      <4>1. PICK m \in Nat : DOMAIN d.members = 1 .. m
        BY <1>0, <1>1 DEF Grammatical
      <4> QED
        BY <4>1, FS_Interval
    <3>5. FittingMembers(all_structs, Len(all_structs), s.members)
      BY <3>2, <3>3, <3>4 DEF FittingMembers
    <3>6. FittingStructs(ss) /\ SizeFits(ss, Len(ss), s)
          /\ \A ty : SizeFits(all_structs, Len(all_structs), ty) => SizeFits(ss, Len(ss), ty)
      BY <2>2, <2>3, <2>4, <3>1, <3>5, AddingFits DEF WasRead, Fitting
    <3>7. \A x \in DOMAIN types' : \/ x \in DOMAIN types /\ types'[x] = types[x]
                                   \/ types'[x] = s
      BY <2>1, <2>2 DEF Taking
    <3>8. FittingTypes(ss, types') /\ FittingTypes(ss, typedefs')
      BY <1>1, <3>1, <3>6, <3>7 DEF Fitting, FittingTypes
    <3> QED
      BY <2>1, <2>2, <3>6, <3>8 DEF Fitting
  <2>11. Written' /\ Nothing'
    BY <1>1, NothingWritten DEF WasRead
  <2> QED
    BY <1>1, <1>2, <2>9, <2>10, <2>11 DEF SInv
<1> QED
  BY <1>3, <1>4

\* A member is as large as the words written for it, if the structures before are.
LEMMA MemberFits ==
  ASSUME NEW n \in Nat, NEW ty, SizeFits(all_structs, n, ty), ~Uncoded(ty),
         \A j \in 1 .. n : /\ encoder[all_structs[j].name] \in Int
                           /\ all_structs[j].xdr_size = 4 * encoder[all_structs[j].name]
  PROVE  MemberWords(ty) \in Int /\ ty.xdr_size = 4 * MemberWords(ty)
<1>1. is_single(ty) \/ is_array(ty)
  BY DEF Uncoded, is_single_int32, is_single_struct
<1>2. ~(is_single(ty) /\ is_array(ty))
  BY DEF is_single, is_array
<1>3. CASE is_struct(ty)
  <2>1. PICK j \in 1 .. n :
          /\ all_structs[j].name = ty.name
          /\ is_single(ty) => ty.xdr_size = all_structs[j].xdr_size
          /\ is_array(ty) => ty.dim \in Int /\ ty.xdr_size = all_structs[j].xdr_size * ty.dim
    BY <1>3 DEF SizeFits
  <2>2. PICK w \in Int : w = encoder[ty.name] /\ all_structs[j].xdr_size = 4 * w
    BY <2>1
  <2>3. MemberWords(ty) = IF is_array(ty) THEN ty.dim * w ELSE w
    BY <1>3, <2>2 DEF MemberWords, is_struct
  <2>4. CASE is_array(ty)
    <3>1. PICK k \in Int : k = ty.dim /\ ty.xdr_size = (4 * w) * k
      BY <2>1, <2>2, <2>4
    <3>2. (4 * w) * k = 4 * (k * w) /\ k * w \in Int
      OBVIOUS
    <3> QED
      BY <2>3, <2>4, <3>1, <3>2
  <2>5. CASE is_single(ty)
    BY <1>2, <2>1, <2>2, <2>3, <2>5
  <2> QED
    BY <1>1, <2>4, <2>5
<1>4. CASE ~is_struct(ty)
  <2>1. MemberWords(ty) = IF is_array(ty) THEN ty.dim * 1 ELSE 1
    BY <1>4 DEF MemberWords, is_struct
  <2>2. CASE is_array(ty)
    <3>1. PICK k \in Int : k = ty.dim /\ ty.xdr_size = 4 * k
      BY <1>4, <2>2 DEF SizeFits
    <3> QED
      BY <2>1, <2>2, <3>1
  <2>3. CASE is_single(ty)
    BY <1>2, <1>4, <2>1, <2>3 DEF SizeFits
  <2> QED
    BY <1>1, <2>2, <2>3
<1> QED
  BY <1>3, <1>4

\* A structure's encoder writes as many words as its size says.
LEMMA EmitStructKeepsSizes ==
  ASSUME SInv, WasRead, complained \in BOOLEAN, emitted = [structs |-> emitted.structs,
         funcs |-> emitted.funcs], EmitStruct
  PROVE  SInv'
<1>1. /\ UNCHANGED <<types, typedefs, structs, all_structs, constants>>
      /\ complained' \in BOOLEAN /\ (complained => complained')
      /\ pc = "structs" /\ pc' \in {"structs", "raised"}
  BY DEF EmitStruct, Emits, context, names
<1>2. Numbers'
  BY <1>1 DEF SInv, Numbers
<1>3. CASE UNCHANGED output
  BY <1>1, <1>2, <1>3, SizesStay DEF output
<1>4. CASE ~UNCHANGED output
  <2>1. PICK i \in Nat : i = emitted.structs /\ i <= Len(all_structs)
    BY DEF SInv, Written, WasRead, Sequence
  <2>2. PICK s : s = all_structs[i + 1]
    OBVIOUS
  <2>3. /\ i < Len(all_structs)
        /\ complained' = (complained \/ \E k \in DOMAIN s.members : Uncoded(s.members[k].typespec))
        /\ encoder' = Taking(encoder, s.name, StructWords(s.members))
        /\ emitted' = [emitted EXCEPT !.structs = @ + 1]
    BY <1>4, <2>1, <2>2 DEF EmitStruct
  <2>4. PICK n \in Nat : n = Len(all_structs) /\ DOMAIN all_structs = 1 .. n
    BY DEF WasRead, Sequence
  <2>5. emitted'.structs = i + 1 /\ i + 1 \in 0 .. n /\ i + 1 \in 1 .. n
    BY <2>1, <2>3, <2>4
  <2>6. DOMAIN encoder = {all_structs[j].name : j \in 1 .. i}
    BY <2>1 DEF SInv, Written
  <2>7. \A j \in 1 .. i : all_structs[j].name # s.name
    <3>1. \A j \in 1 .. i : j \in DOMAIN all_structs /\ i + 1 \in DOMAIN all_structs /\ j # i + 1
      BY <2>1, <2>4, <2>5
    <3> QED
      BY <2>2, <3>1 DEF SInv, OwnNames
  <2>8. DOMAIN encoder' = {all_structs[j].name : j \in 1 .. i + 1}
    <3>1. 1 .. i + 1 = (1 .. i) \cup {i + 1}
      OBVIOUS
    <3>2. DOMAIN encoder' = DOMAIN encoder \cup {s.name}
      BY <2>3 DEF Taking
    <3> QED
      BY <2>2, <2>6, <3>1, <3>2
  <2>9. encoder'[s.name] = StructWords(s.members)
    BY <2>3, <2>6, <2>7 DEF Taking
  <2>10. \A j \in 1 .. i : encoder'[all_structs[j].name] = encoder[all_structs[j].name]
    BY <2>3, <2>6 DEF Taking
  <2>11. ASSUME ~complained'
         PROVE  StructWords(s.members) \in Int /\ s.xdr_size = 4 * StructWords(s.members)
    <3>1. ~complained /\ \A k \in DOMAIN s.members : ~Uncoded(s.members[k].typespec)
      BY <2>3, <2>11
    <3>2. FittingMembers(all_structs, i, s.members) /\ s.xdr_size = SizeOf(s.members)
      <4>1. i + 1 \in DOMAIN all_structs /\ (i + 1) - 1 = i
        BY <2>4, <2>5
      <4> QED
        BY <2>2, <3>1, <4>1 DEF SInv, Fitting, FittingStructs
    <3>3. \A j \in 1 .. i : /\ encoder[all_structs[j].name] \in Int
                            /\ all_structs[j].xdr_size = 4 * encoder[all_structs[j].name]
      BY <2>1, <3>1 DEF SInv, Written
    <3>4. \A k \in DOMAIN s.members :
            /\ MemberWords(s.members[k].typespec) \in Int
            /\ s.members[k].typespec.xdr_size = 4 * MemberWords(s.members[k].typespec)
      BY <3>1, <3>2, <3>3, MemberFits DEF FittingMembers
    <3>5. PICK D, ms : ms = s.members /\ D = DOMAIN ms
      OBVIOUS
    <3>6. IsFiniteSet(D)
      BY <3>2, <3>5 DEF FittingMembers
    <3>7. PICK P, Q : /\ P = [k \in D |-> ms[k].typespec.xdr_size]
                      /\ Q = [k \in D |-> MemberWords(ms[k].typespec)]
      OBVIOUS
    <3>8. \A k \in D : Q[k] \in Int /\ P[k] = 4 * Q[k]
      BY <3>4, <3>5, <3>7
    <3>9. PICK g : IsSum(D, P, g) /\ SizeOf(ms) = g[D]
      BY <3>5, <3>6, <3>7, SizeIsSum
    <3>10. PICK h : IsSum(D, Q, h) /\ StructWords(ms) = h[D]
      BY <3>5, <3>6, <3>7, WordsAreSum
    <3>11. h[D] \in Int /\ g[D] = 4 * h[D]
      BY <3>6, <3>8, <3>9, <3>10, SumTimesFour
    <3> QED
      BY <3>2, <3>5, <3>9, <3>10, <3>11
  <2>12. Written'
    <3>1. ASSUME ~complained', NEW j \in 1 .. i + 1
          PROVE  /\ encoder'[all_structs[j].name] \in Int
                 /\ all_structs[j].xdr_size = 4 * encoder'[all_structs[j].name]
      <4>1. CASE j = i + 1
        BY <2>2, <2>9, <2>11, <3>1, <4>1
      <4>2. CASE j \in 1 .. i
        BY <1>1, <2>1, <2>10, <3>1, <4>2 DEF SInv, Written
      <4> QED
        BY <4>1, <4>2
    <3> QED
      BY <1>1, <2>4, <2>5, <2>8, <3>1 DEF Written
  <2>13. Fitting => Fitting'
    BY <1>1 DEF Fitting, FittingTypes, FittingStructs
  <2>14. OwnNames' /\ Nothing'
    BY <1>1 DEF SInv, OwnNames, Nothing
  <2> QED
    BY <1>1, <1>2, <2>12, <2>13, <2>14 DEF SInv
<1> QED
  BY <1>3, <1>4

\* All that is known of what has been read and emitted.
SpecSound ==
  SInv /\ WasRead /\ HasInt32 /\ InOrder /\ complained \in BOOLEAN /\ alphabet \in Alphabets

\* It holds before anything is read.
LEMMA WholeAtFirst == ASSUME Init PROVE SpecSound
<1> SUFFICES SInv /\ WasRead /\ HasInt32 /\ InOrder
  BY DEF SpecSound, Init
<1>1. WasRead /\ HasInt32 /\ InOrder
  BY ReadAtFirst
<1>2. /\ types = basic_types /\ typedefs = <<>> /\ all_structs = <<>> /\ encoder = <<>>
      /\ emitted = [structs |-> 0, funcs |-> 0] /\ constants = [RXRPC_SECURITY_PLAIN |-> 0]
  BY DEF Init
<1>3. DOMAIN <<>> = {} /\ Len(<<>>) = 0 /\ 1 .. 0 = {} /\ 0 \in 0 .. 0
  OBVIOUS
<1>4. \A n \in DOMAIN basic_types : SizeFits(<<>>, 0, basic_types[n])
  <2>1. \A n \in DOMAIN basic_types :
          /\ basic_types[n].array = "single" /\ basic_types[n].basic # "struct"
          /\ basic_types[n].basic = "int32" => basic_types[n].xdr_size = 4
    BY DEF basic_types, xdr_type
  <2> QED
    BY <2>1 DEF SizeFits, Uncoded, is_single_int32, is_single_struct, is_single, is_struct, is_array
<1>5. Numbers /\ OwnNames /\ Nothing
  BY <1>2, <1>3 DEF Numbers, OwnNames, Nothing
<1>6. Written
  BY <1>2, <1>3 DEF Written
<1>7. Fitting
  BY <1>2, <1>3, <1>4 DEF Fitting, FittingTypes, FittingStructs
<1> QED
  BY <1>1, <1>5, <1>6, <1>7 DEF SInv

\* And every step keeps it.
LEMMA WholeKept == ASSUME SpecSound, [Next]_vars PROVE SpecSound'
<1> DEFINE Errors == complained \in BOOLEAN
<1> USE DEF SpecSound
<1>1. WasRead' /\ HasInt32' /\ InOrder'
  <2>1. WasRead' => Sequence(funcs)'
    BY DEF WasRead
  <2> QED
    BY <2>1, ReadKept, InOrderKept
<1>2. Errors' /\ alphabet' = alphabet
  <2>1. ASSUME NEW d \in alphabet,
               \/ Package(d) \/ ConstantDef(d) \/ ErrorCodes(d) \/ EnumDef(d)
               \/ TypeDef(d) \/ StructDef(d) \/ ProcSpec(d) \/ SyntaxError(d)
        PROVE  Errors' /\ alphabet' = alphabet
    BY <2>1 DEF Package, ConstantDef, ErrorCodes, EnumDef, TypeDef, StructDef, ProcSpec,
                SyntaxError, Next_, Goes, Raise
  <2>2. ASSUME \/ EndOfFile \/ EmitStruct \/ StructsEmitted \/ EmitFunction
               \/ FunctionsEmitted \/ EmitModule \/ Finished \/ UNCHANGED vars
        PROVE  Errors' /\ alphabet' = alphabet
    BY <2>2 DEF EndOfFile, EmitStruct, StructsEmitted, EmitFunction, FunctionsEmitted,
                      EmitModule, Finished, Emits, reading, vars
  <2> QED
    BY <2>1, <2>2 DEF Next
<1>3. SInv'
  <2>1. ASSUME NEW d \in alphabet,
               \/ Package(d) \/ ConstantDef(d) \/ ErrorCodes(d) \/ EnumDef(d)
               \/ TypeDef(d) \/ StructDef(d) \/ ProcSpec(d) \/ SyntaxError(d)
        PROVE  SInv'
    BY <1>1, <2>1, ConstantKeepsSizes, EnumKeepsSizes, TypeDefKeepsSizes,
       StructDefKeepsSizes
  <2>2. CASE EmitStruct
    BY <2>2, EmitStructKeepsSizes DEF InOrder
  <2>3. CASE \/ EndOfFile \/ StructsEmitted \/ EmitFunction
             \/ FunctionsEmitted \/ EmitModule \/ Finished \/ UNCHANGED vars
    <3>1. /\ UNCHANGED <<types, typedefs, structs, all_structs, constants, encoder>>
          /\ complained' = complained
          /\ pc' = "parse" => pc = "parse"
      BY <2>3 DEF EndOfFile, StructsEmitted, EmitFunction, FunctionsEmitted, EmitModule,
                  Finished, Emits, reading, output, context, names, vars
    <3>2. emitted'.structs = emitted.structs
      BY <2>3 DEF EndOfFile, StructsEmitted, EmitFunction, FunctionsEmitted, EmitModule,
                  Finished, Emits, reading, output, vars, InOrder
    <3>3. Fitting => Fitting'
      BY <3>1 DEF Fitting, FittingTypes, FittingStructs
    <3>4. OwnNames' /\ Nothing' /\ Numbers' /\ Written'
      BY <3>1, <3>2 DEF SInv, OwnNames, Nothing, Written, Numbers
    <3> QED
      BY <3>1, <3>3, <3>4 DEF SInv
  <2> QED
    BY <2>1, <2>2, <2>3 DEF Next
<1> QED
  BY <1>1, <1>2, <1>3

\* What has been emitted for an interface without errors decodes as many words as
\* are encoded, whatever structures and arrays are nested in each other.
THEOREM SizesAlwaysAgree == Spec => []SizesAgree
<1>1. Init => SpecSound
  BY WholeAtFirst
<1>2. SpecSound /\ [Next]_vars => SpecSound'
  BY WholeKept
<1>3. SpecSound => SizesAgree
  BY DEF SpecSound, SInv, Written, SizesAgree
<1> QED
  BY <1>1, <1>2, <1>3, PTL DEF Spec

-----------------------------------------------------------------------------
(* Sorting and searching. *)

\* How many of a set are not above a number.
Rank(ids, u) == Cardinality({v \in ids : v <= u})

\* Ranks are the numbers from 1 to the size of the set, and are in its order.
LEMMA Ranks ==
  ASSUME NEW ids \in SUBSET Int, IsFiniteSet(ids)
  PROVE  /\ \A u \in ids : Rank(ids, u) \in 1 .. Cardinality(ids)
         /\ \A u, w \in ids : u < w => Rank(ids, u) < Rank(ids, w)
         /\ \A i \in 1 .. Cardinality(ids) : \E u \in ids : Rank(ids, u) = i
<1> DEFINE Below(u) == {v \in ids : v <= u}
<1>1. \A u \in ids : Below(u) \in SUBSET ids /\ u \in Below(u)
  OBVIOUS
<1>2. Cardinality(ids) \in Nat
  BY FS_CardinalityType
<1>3. \A u \in ids : /\ IsFiniteSet(Below(u)) /\ Cardinality(Below(u)) <= Cardinality(ids)
  BY <1>1, FS_Subset
<1>4. \A u \in ids : Cardinality(Below(u)) \in Nat /\ Cardinality(Below(u)) # 0
  BY <1>1, <1>3, FS_CardinalityType, FS_EmptySet
<1>5. ASSUME NEW u \in ids, NEW w \in ids, u < w
      PROVE  Cardinality(Below(u)) < Cardinality(Below(w))
  <2>0. u \in Int /\ w \in Int /\ ~(w <= u) /\ \A v \in ids : v \in Int
    BY <1>5
  <2>01. \A v \in Int : v <= u => v <= w
    BY <1>5, <2>0
  <2>02. \A v \in ids : v <= u => v <= w
    BY <2>0, <2>01
  <2>1. Below(u) \in SUBSET Below(w) /\ w \notin Below(u) /\ w \in Below(w)
    BY <1>1, <2>0, <2>02
  <2>2. IsFiniteSet(Below(w))
    BY <1>3
  <2> HIDE DEF Below
  <2>3. Below(u) # Below(w)
    BY <2>1
  <2>4. Cardinality(Below(u)) <= Cardinality(Below(w)) /\ Cardinality(Below(u)) # Cardinality(Below(w))
    BY <2>1, <2>2, <2>3, FS_Subset
  <2> QED
    BY <1>4, <2>4
<1> HIDE DEF Below
<1>6. PICK f : f = [u \in ids |-> Cardinality(Below(u))]
  OBVIOUS
<1>7. PICK n \in Nat : n = Cardinality(ids)
  BY <1>2
<1>8. f \in [ids -> 1 .. n]
  BY <1>3, <1>4, <1>6, <1>7
<1>9. \A u, w \in ids : f[u] = f[w] => u = w
  <2> SUFFICES ASSUME NEW u \in ids, NEW w \in ids, f[u] = f[w], u # w PROVE FALSE
    OBVIOUS
  <2>1. u < w \/ w < u
    OBVIOUS
  <2>2. f[u] \in Nat /\ f[w] \in Nat
    BY <1>8
  <2>3. u < w => f[u] < f[w]
    BY <1>5, <1>6
  <2>4. w < u => f[w] < f[u]
    BY <1>5, <1>6
  <2> QED
    BY <2>1, <2>2, <2>3, <2>4
<1>10. f \in Injection(ids, 1 .. n)
  BY <1>8, <1>9 DEF Injection, IsInjective
<1>11. IsFiniteSet(1 .. n) /\ Cardinality(1 .. n) = n
  <2>1. Cardinality(1 .. n) = IF 1 > n THEN 0 ELSE n - 1 + 1
    BY FS_Interval
  <2> QED
    BY <2>1, FS_Interval
<1>12. f \in Surjection(ids, 1 .. n)
  BY <1>7, <1>10, <1>11, FS_Injection
<1>13. \A i \in 1 .. n : \E u \in ids : f[u] = i
  BY <1>12 DEF Surjection
<1>14. \A u \in ids : Rank(ids, u) = Cardinality(Below(u))
  BY DEF Rank, Below
<1> QED
  BY <1>3, <1>4, <1>5, <1>6, <1>7, <1>8, <1>13, <1>14

\* A sorted list has the numbers of the set, each once, in their order.
LEMMA SortedIs ==
  ASSUME NEW ids \in SUBSET Int, IsFiniteSet(ids),
         NEW f, \A i \in 1 .. Cardinality(ids) : f[i] \in ids /\ Rank(ids, f[i]) = i
  PROVE  /\ \A u \in ids : \E i \in 1 .. Cardinality(ids) : f[i] = u
         /\ \A i, j \in 1 .. Cardinality(ids) : i < j => f[i] < f[j]
<1>1. \A i \in 1 .. Cardinality(ids) : f[i] \in ids /\ Rank(ids, f[i]) = i
  OBVIOUS
<1>2. Cardinality(ids) \in Nat
  BY FS_CardinalityType
<1>3. ASSUME NEW u \in ids, NEW w \in ids, Rank(ids, u) <= Rank(ids, w) PROVE u <= w
  <2>1. Rank(ids, u) \in Nat /\ Rank(ids, w) \in Nat
    BY <1>2, Ranks
  <2>2. w < u => Rank(ids, w) < Rank(ids, u)
    BY Ranks
  <2>3. u \in Int /\ w \in Int
    OBVIOUS
  <2>4. PICK i \in Nat, j \in Nat : i = Rank(ids, u) /\ j = Rank(ids, w)
    BY <2>1
  <2>5. i <= j
    BY <1>3, <2>4
  <2>6. ~(j < i)
    BY <2>5
  <2>7. ~(w < u)
    BY <2>2, <2>4, <2>6
  <2> QED
    BY <2>3, <2>7
<1>4. ASSUME NEW u \in ids PROVE \E i \in 1 .. Cardinality(ids) : f[i] = u
  <2>1. PICK i \in 1 .. Cardinality(ids) : i = Rank(ids, u)
    BY Ranks
  <2>2. f[i] \in ids /\ Rank(ids, f[i]) = Rank(ids, u) /\ i \in Nat
    BY <1>1, <1>2, <2>1
  <2>20. Rank(ids, u) <= Rank(ids, f[i]) /\ Rank(ids, f[i]) <= Rank(ids, u)
    BY <2>1, <2>2
  <2>3. f[i] <= u /\ u <= f[i] /\ f[i] \in Int /\ u \in Int
    BY <1>3, <2>2, <2>20
  <2>4. f[i] = u
    BY <2>3
  <2> QED
    BY <2>4
<1>5. ASSUME NEW i \in 1 .. Cardinality(ids), NEW j \in 1 .. Cardinality(ids), i < j
      PROVE  f[i] < f[j]
  <2>1. f[i] \in ids /\ f[j] \in ids /\ Rank(ids, f[i]) = i /\ Rank(ids, f[j]) = j
    BY <1>1
  <2>2. i <= j /\ i # j
    BY <1>2, <1>5
  <2>3. f[i] <= f[j]
    BY <1>3, <2>1, <2>2
  <2>4. f[i] # f[j]
    BY <2>1, <2>2
  <2>5. f[i] \in Int /\ f[j] \in Int
    BY <2>1
  <2> QED
    BY <2>3, <2>4, <2>5
<1> QED
  BY <1>1, <1>4, <1>5

\* The binary search finds whatever is in a table that is in order.
LEMMA SearchFinds ==
  ASSUME NEW n \in Nat, n = Len(table), \A i \in 1 .. n : table[i].id \in Int,
         \A i, j \in 1 .. n : i < j => table[i].id < table[j].id,
         NEW k \in 1 .. n
  PROVE  Search(table[k].id) = table[k]
<1>1. PICK code \in Int : code = table[k].id
  OBVIOUS
<1> DEFINE Miss == [id |-> code, obj |-> NoException]
           Mid(l, u) == (l + u) \div 2
           D == (0 .. n) \X (0 .. n)
           Turn(s, l, u) == IF l >= u THEN Miss
                            ELSE IF code > table[Mid(l, u) + 1].id THEN s[<<Mid(l, u) + 1, u>>]
                            ELSE IF code < table[Mid(l, u) + 1].id THEN s[<<l, Mid(l, u)>>]
                            ELSE table[Mid(l, u) + 1]
           E(s) == s = [r \in D |-> Turn(s, r[1], r[2])]
           W == [r \in D |-> IF r[1] < k /\ k <= r[2] THEN table[k] ELSE Miss]
<1>2. Search(code) = (CHOOSE s : E(s))[<<0, n>>]
  BY DEF Search
<1>3. \A l, u \in 0 .. n : l < u => Mid(l, u) \in 0 .. n /\ l <= Mid(l, u) /\ Mid(l, u) < u
  OBVIOUS
<1> HIDE DEF Mid, Miss
<1>4. \A m \in 0 .. n - 1 : /\ m + 1 \in 1 .. n
                            /\ code > table[m + 1].id <=> m + 1 < k
                            /\ code < table[m + 1].id <=> k < m + 1
  <2> SUFFICES ASSUME NEW m \in 0 .. n - 1
               PROVE  /\ m + 1 \in 1 .. n
                      /\ code > table[m + 1].id <=> m + 1 < k
                      /\ code < table[m + 1].id <=> k < m + 1
    OBVIOUS
  <2>1. PICK i \in 1 .. n : i = m + 1
    OBVIOUS
  <2>2. PICK x \in Int : x = table[i].id
    OBVIOUS
  <2>3. (i < k => x < code) /\ (k < i => code < x) /\ (i = k => x = code)
    BY <1>1, <2>2
  <2>4. (code > x <=> i < k) /\ (code < x <=> k < i)
    BY <2>3
  <2> QED
    BY <2>1, <2>2, <2>4
<1>5. E(W)
  <2>0. \A l, u \in 0 .. n : /\ l < k /\ k <= u => W[<<l, u>>] = table[k]
                             /\ ~(l < k /\ k <= u) => W[<<l, u>>] = Miss
    OBVIOUS
  <2> HIDE DEF W
  <2>1. ASSUME NEW l \in 0 .. n, NEW u \in 0 .. n PROVE W[<<l, u>>] = Turn(W, l, u)
    <3>1. CASE l >= u
      <4>1. ~(l < k /\ k <= u)
        BY <3>1
      <4> QED
        BY <2>0, <3>1, <4>1
    <3>2. CASE l < u
      <4>1. PICK m \in 0 .. n - 1 : m = Mid(l, u) /\ l <= m /\ m < u
        BY <1>3, <3>2
      <4>2. m \in 0 .. n /\ m + 1 \in 0 .. n
        OBVIOUS
      <4>a. ~(l >= u)
        BY <3>2
      <4>b. Turn(W, l, u) = IF code > table[m + 1].id THEN W[<<m + 1, u>>]
                            ELSE IF code < table[m + 1].id THEN W[<<l, m>>]
                            ELSE table[m + 1]
        BY <4>1, <4>a, Zenon
      <4>c. (code > table[m + 1].id <=> m + 1 < k) /\ (code < table[m + 1].id <=> k < m + 1)
        BY <1>4
      <4>3. CASE m + 1 < k
        <5>1. code > table[m + 1].id
          BY <4>3, <4>c
        <5>2. W[<<m + 1, u>>] = W[<<l, u>>]
          BY <2>0, <4>1, <4>2, <4>3
        <5> QED
          BY <4>b, <5>1, <5>2, Zenon
      <4>4. CASE k < m + 1
        <5>1. ~(code > table[m + 1].id) /\ code < table[m + 1].id
          <6>1. ~(m + 1 < k)
            BY <4>4
          <6> QED
            BY <4>4, <4>c, <6>1, Zenon
        <5>2. W[<<l, m>>] = W[<<l, u>>]
          BY <2>0, <4>1, <4>2, <4>4
        <5> QED
          BY <4>b, <5>1, <5>2, Zenon
      <4>5. CASE k = m + 1
        <5>1. ~(code > table[m + 1].id) /\ ~(code < table[m + 1].id)
          <6>1. ~(m + 1 < k) /\ ~(k < m + 1)
            BY <4>5
          <6> QED
            BY <4>c, <6>1, Zenon
        <5>2. W[<<l, u>>] = table[k]
          BY <2>0, <4>1, <4>5
        <5> QED
          BY <4>5, <4>b, <5>1, <5>2, Zenon
      <4> QED
        BY <4>3, <4>4, <4>5
    <3> QED
      BY <3>1, <3>2
  <2>2. \A r \in D : r[1] \in 0 .. n /\ r[2] \in 0 .. n /\ r = <<r[1], r[2]>>
    OBVIOUS
  <2>3. \A r \in D : W[r] = Turn(W, r[1], r[2])
    BY <2>1, <2>2
  <2>4. W = [r \in D |-> W[r]]
    BY DEF W
  <2> HIDE DEF Turn, D
  <2>5. [r \in D |-> W[r]] = [r \in D |-> Turn(W, r[1], r[2])]
    BY <2>3
  <2> QED
    BY <2>4, <2>5
<1> HIDE DEF W
<1>6. PICK s : s = (CHOOSE x : E(x)) /\ E(s)
  <2> HIDE DEF E
  <2> QED
    BY <1>5
<1>7. \A l, u \in 0 .. n : s[<<l, u>>] = Turn(s, l, u)
  <2> SUFFICES ASSUME NEW l \in 0 .. n, NEW u \in 0 .. n
               PROVE  s[<<l, u>>] = Turn(s, l, u)
    OBVIOUS
  <2>0. PICK r : r = <<l, u>>
    OBVIOUS
  <2>1. r \in D /\ r = <<l, u>> /\ r[1] = l /\ r[2] = u
    BY <2>0
  <2> HIDE DEF Turn, D
  <2>2. s[r] = Turn(s, r[1], r[2])
    BY <1>6, <2>1
  <2> QED
    BY <2>1, <2>2
<1>70. ASSUME NEW l \in 0 .. n, NEW u \in 0 .. n, l < u, NEW m, m = Mid(l, u)
       PROVE  /\ code > table[m + 1].id => s[<<l, u>>] = s[<<m + 1, u>>]
              /\ ~(code > table[m + 1].id) /\ code < table[m + 1].id
                   => s[<<l, u>>] = s[<<l, m>>]
              /\ ~(code > table[m + 1].id) /\ ~(code < table[m + 1].id)
                   => s[<<l, u>>] = table[m + 1]
  <2>1. ~(l >= u)
    BY <1>70
  <2>2. s[<<l, u>>] = Turn(s, l, u)
    BY <1>7
  <2> QED
    BY <1>70, <2>1, <2>2
<1> HIDE DEF E, Turn
<1> DEFINE S == {d \in Nat : \A l, u \in 0 .. n :
                   l < k /\ k <= u /\ u - l <= d => s[<<l, u>>] = table[k]}
<1>8. 0 \in S
  <2>1. \A l, u \in 0 .. n : ~(l < k /\ k <= u /\ u - l <= 0)
    OBVIOUS
  <2> QED
    BY <2>1
<1>9. ASSUME NEW d \in Nat, d \in S PROVE d + 1 \in S
  <2> SUFFICES ASSUME NEW l \in 0 .. n, NEW u \in 0 .. n, l < k, k <= u, u - l <= d + 1
               PROVE  s[<<l, u>>] = table[k]
    OBVIOUS
  <2>1. l < u
    OBVIOUS
  <2>2. PICK m \in 0 .. n - 1 : m = Mid(l, u) /\ l <= m /\ m < u
    BY <1>3, <2>1
  <2>20. /\ code > table[m + 1].id => s[<<l, u>>] = s[<<m + 1, u>>]
         /\ ~(code > table[m + 1].id) /\ code < table[m + 1].id
              => s[<<l, u>>] = s[<<l, m>>]
         /\ ~(code > table[m + 1].id) /\ ~(code < table[m + 1].id)
              => s[<<l, u>>] = table[m + 1]
    BY <1>70, <2>1, <2>2
  <2>3. \A x, y \in 0 .. n : x < k /\ k <= y /\ y - x <= d => s[<<x, y>>] = table[k]
    BY <1>9
  <2>4. CASE m + 1 < k
    <3>1. code > table[m + 1].id
      BY <1>4, <2>4
    <3>2. m + 1 \in 0 .. n /\ u - (m + 1) <= d
      BY <2>2
    <3>3. s[<<m + 1, u>>] = table[k]
      BY <2>3, <2>4, <3>2
    <3> QED
      BY <2>20, <3>1, <3>3
  <2>5. CASE k < m + 1
    <3>1. ~(code > table[m + 1].id) /\ code < table[m + 1].id
      BY <1>4, <2>5
    <3>2. m \in 0 .. n /\ m - l <= d /\ k <= m
      BY <2>2, <2>5
    <3>3. s[<<l, m>>] = table[k]
      BY <2>3, <3>2
    <3> QED
      BY <2>20, <3>1, <3>3
  <2>6. CASE k = m + 1
    <3>1. ~(code > table[m + 1].id) /\ ~(code < table[m + 1].id)
      BY <1>4, <2>6
    <3> QED
      BY <2>20, <2>6, <3>1
  <2> QED
    BY <2>4, <2>5, <2>6
<1> HIDE DEF S
<1>10. n \in S
  BY <1>8, <1>9, Induction
<1>11. s[<<0, n>>] = table[k]
  <2>1. 0 \in 0 .. n /\ n \in 0 .. n /\ 0 < k /\ k <= n /\ n - 0 <= n
    OBVIOUS
  <2> QED
    BY <1>10, <2>1 DEF S
<1> QED
  BY <1>1, <1>2, <1>6, <1>11

-----------------------------------------------------------------------------
(* Aborts. *)

\* The names of all codes.
CodeNames == UNION {Range(abort_codes[p]) : p \in packages}

\* Codes are constants of a package.
Entered ==
  /\ packages \subseteq Nat \ {NoPackage} /\ pkg \in packages \cup {NoPackage}
  /\ DOMAIN abort_codes = packages
  /\ \A p \in packages : Sequence(abort_codes[p])
  /\ CodeNames \subseteq DOMAIN constants

\* What is indexed by a number is a code of that number.
Indexed ==
  /\ IsFiniteSet(DOMAIN abort_ids)
  /\ \A u \in DOMAIN abort_ids :
       abort_ids[u] \in CodeNames /\ U32(constants[abort_ids[u]]) = u

\* If nothing was complained of, the count is that of the names, and no two packages
\* have a name in common.
Counted ==
  /\ IsFiniteSet(CodeNames) /\ abort_count = Cardinality(CodeNames)
  /\ \A p, q \in packages :
       p # q => Range(abort_codes[p]) \cap Range(abort_codes[q]) = {}

AInv == Numbers /\ Entered /\ Indexed /\ (~complained => Counted)

\* What the members of a joined list are.
LEMMA JoinedRange ==
  ASSUME NEW s, Sequence(s), NEW t, Sequence(t)
  PROVE  Sequence(s \o t) /\ Range(s \o t) = Range(s) \cup Range(t)
<1>1. PICK S, T : s \in Seq(S) /\ t \in Seq(T)
  BY DEF Sequence
<1>2. PICK m \in Nat, n \in Nat :
        m = Len(s) /\ n = Len(t) /\ DOMAIN s = 1 .. m /\ DOMAIN t = 1 .. n
  BY <1>1
<1>3. s \in Seq(S \cup T) /\ t \in Seq(S \cup T)
  BY <1>1
<1>4. PICK r : r = s \o t
  OBVIOUS
<1>5. /\ r \in Seq(S \cup T) /\ DOMAIN r = 1 .. m + n
      /\ \A i \in 1 .. m + n : r[i] = IF i <= m THEN s[i] ELSE t[i - m]
  BY <1>2, <1>3, <1>4
<1>6. \A i \in 1 .. m : i \in 1 .. m + n /\ r[i] = s[i]
  BY <1>5
<1>7. \A i \in 1 .. n : i + m \in 1 .. m + n /\ r[i + m] = t[i]
  <2> SUFFICES ASSUME NEW i \in 1 .. n PROVE i + m \in 1 .. m + n /\ r[i + m] = t[i]
    OBVIOUS
  <2>1. i + m \in 1 .. m + n /\ ~(i + m <= m) /\ (i + m) - m = i
    OBVIOUS
  <2> QED
    BY <1>5, <2>1
<1>8. \A i \in 1 .. m + n : (i \in 1 .. m /\ r[i] = s[i]) \/ (i - m \in 1 .. n /\ r[i] = t[i - m])
  BY <1>5
<1>9. Range(r) = Range(s) \cup Range(t)
  <2>1. \A x \in Range(s) : x \in Range(r)
    BY <1>2, <1>5, <1>6 DEF Range
  <2>2. \A x \in Range(t) : x \in Range(r)
    BY <1>2, <1>5, <1>7 DEF Range
  <2>3. \A x \in Range(r) : x \in Range(s) \cup Range(t)
    BY <1>2, <1>5, <1>8 DEF Range
  <2> QED
    BY <2>1, <2>2, <2>3
<1> QED
  BY <1>4, <1>5, <1>9 DEF Sequence

\* A set of numbers that has a bound, and is not empty, has a greatest member.
LEMMA GreatestMember ==
  ASSUME NEW n \in Nat, NEW T \in SUBSET (1 .. n), T # {}
  PROVE  \E x \in T : \A y \in T : y <= x
<1>1. PICK U : U = {n - x : x \in T}
  OBVIOUS
<1>2. U \in SUBSET Nat /\ U # {}
  <2>1. \A x \in T : n - x \in Nat
    OBVIOUS
  <2> QED
    BY <1>1, <2>1
<1>3. PICK z \in U : \A y \in U : z <= y
  BY <1>2, LeastMember
<1>4. PICK x \in T : z = n - x
  BY <1>1, <1>3
<1>5. \A y \in T : n - x <= n - y /\ x \in Int /\ y \in Int
  BY <1>1, <1>3, <1>4
<1>6. \A y \in T : y <= x
  BY <1>5
<1> QED
  BY <1>6

\* A step that enters no code, whatever constants it adds.
LEMMA AbortsStay ==
  ASSUME AInv, UNCHANGED <<packages, pkg, abort_codes, abort_ids, abort_count>>,
         complained \in BOOLEAN, complained' \in BOOLEAN, complained => complained',
         Numbers', DOMAIN constants \subseteq DOMAIN constants',
         \A c \in DOMAIN constants : constants'[c] = constants[c]
  PROVE  AInv'
<1>1. CodeNames' = CodeNames
  BY DEF CodeNames
<1>2. Entered'
  BY <1>1 DEF AInv, Entered
<1>3. Indexed'
  BY <1>1 DEF AInv, Entered, Indexed
<1>4. Counted => Counted'
  BY <1>1 DEF Counted
<1> QED
  BY <1>2, <1>3, <1>4 DEF AInv

\* A package comes without codes.
LEMMA PackageKeepsAborts ==
  ASSUME AInv, NEW a \in Alphabets, NEW d \in a, complained \in BOOLEAN, Package(d)
  PROVE  AInv'
<1>0. Grammatical(d) /\ d.kind = "package"
  BY RxgenAssumption DEF Package
<1>1. /\ UNCHANGED <<constants, abort_ids, abort_count>>
      /\ complained' \in BOOLEAN /\ (complained => complained')
  BY DEF Package, Goes, names
<1>2. Numbers'
  BY <1>1 DEF AInv, Numbers
<1>3. CASE d.name \in packages
  <2>1. UNCHANGED <<packages, pkg, abort_codes>>
    BY <1>3 DEF Package
  <2> QED
    BY <1>1, <1>2, <2>1, AbortsStay
<1>4. CASE d.name \notin packages
  <2>1. packages' = packages \cup {d.name} /\ pkg' = d.name
        /\ abort_codes' = Taking(abort_codes, d.name, <<>>)
    BY <1>4 DEF Package
  <2>2. d.name \in Nat \ {NoPackage}
    BY <1>0 DEF Grammatical
  <2>3. DOMAIN abort_codes' = packages' /\ abort_codes'[d.name] = <<>>
        /\ \A p \in packages : abort_codes'[p] = abort_codes[p]
    BY <1>4, <2>1 DEF AInv, Entered, Taking
  <2>4. Range(<<>>) = {} /\ Sequence(<<>>)
    BY DEF Range, Sequence
  <2>5. CodeNames' = CodeNames
    BY <2>1, <2>3, <2>4 DEF CodeNames
  <2>6. Entered'
    BY <1>1, <2>1, <2>2, <2>3, <2>4, <2>5 DEF AInv, Entered
  <2>7. Indexed'
    BY <1>1, <2>5 DEF AInv, Indexed
  <2>8. Counted => Counted'
    BY <1>1, <2>1, <2>3, <2>4, <2>5 DEF Counted
  <2> QED
    BY <1>1, <1>2, <2>6, <2>7, <2>8 DEF AInv
<1> QED
  BY <1>3, <1>4

\* A list of codes is entered, indexed and counted.
LEMMA ErrorCodesKeepsAborts ==
  ASSUME AInv, NEW a \in Alphabets, NEW d \in a, complained \in BOOLEAN, ErrorCodes(d)
  PROVE  AInv'
<1>0. Grammatical(d) /\ d.kind = "codes"
  BY RxgenAssumption DEF ErrorCodes
<1>1. CASE pkg = NoPackage
  <2>1. Raise
    BY <1>1 DEF ErrorCodes
  <2>2. UNCHANGED <<packages, pkg, abort_codes, abort_ids, abort_count, constants, complained>>
    BY <2>1 DEF Raise, context, names, aborts
  <2>3. Numbers'
    BY <2>2 DEF AInv, Numbers
  <2> QED
    BY <2>2, <2>3, AbortsStay
<1>2. CASE pkg # NoPackage
  <2> DEFINE cs == Added(d.list)
             entry == [i \in DOMAIN d.list |-> d.list[i].name]
             Latest(u) == CHOOSE i \in DOMAIN entry :
                            /\ U32(cs[entry[i]]) = u
                            /\ \A j \in DOMAIN entry : U32(cs[entry[j]]) = u => j <= i
             ids == [u \in {U32(cs[entry[i]]) : i \in DOMAIN entry} |-> entry[Latest(u)]]
  <2>1. /\ Goes(Clashes(d.list)) /\ constants' = cs
        /\ abort_count' = abort_count + Len(d.list)
        /\ abort_codes' = [abort_codes EXCEPT ![pkg] = @ \o entry]
        /\ abort_ids' = Filled(ids, abort_ids)
        /\ UNCHANGED <<packages, pkg>>
    BY <1>2 DEF ErrorCodes
  <2>2. PICK n \in Nat : DOMAIN d.list = 1 .. n /\ Len(d.list) = n
    BY <1>0 DEF Grammatical
  <2>3. /\ DOMAIN cs = DOMAIN constants \cup {d.list[i].name : i \in DOMAIN d.list}
        /\ \A c \in DOMAIN constants : cs[c] = constants[c]
        /\ \A c \in DOMAIN cs : cs[c] \in Int
    BY <1>0, AddedIs DEF AInv, Grammatical
  <2>4. /\ DOMAIN entry = 1 .. n /\ Sequence(entry)
        /\ \A i \in 1 .. n : entry[i] = d.list[i].name
    <3>1. entry \in Seq({d.list[i].name : i \in 1 .. n})
      BY <2>2
    <3> QED
      BY <2>2, <3>1 DEF Sequence
  <2> HIDE DEF entry, cs
  <2>5. DOMAIN cs = DOMAIN constants \cup Range(entry)
    BY <2>2, <2>3, <2>4 DEF Range
  <2>6. \A u \in DOMAIN ids : Latest(u) \in 1 .. n /\ U32(cs[entry[Latest(u)]]) = u
    <3> SUFFICES ASSUME NEW u \in DOMAIN ids
                 PROVE  Latest(u) \in 1 .. n /\ U32(cs[entry[Latest(u)]]) = u
      OBVIOUS
    <3>1. PICK T : T = {i \in 1 .. n : U32(cs[entry[i]]) = u}
      OBVIOUS
    <3>2. T \in SUBSET (1 .. n) /\ T # {}
      BY <2>4, <3>1
    <3>3. PICK x \in T : \A y \in T : y <= x
      BY <3>2, GreatestMember
    <3>4. /\ x \in DOMAIN entry /\ U32(cs[entry[x]]) = u
          /\ \A j \in DOMAIN entry : U32(cs[entry[j]]) = u => j <= x
      BY <2>4, <3>1, <3>3
    <3> QED
      BY <2>4, <3>4
  <2>7. IsFiniteSet(DOMAIN ids)
    <3>1. PICK f : f = [i \in 1 .. n |-> U32(cs[entry[i]])]
      OBVIOUS
    <3>2. f \in Surjection(1 .. n, DOMAIN ids)
      BY <2>4, <3>1 DEF Surjection
    <3> QED
      BY <3>2, FS_Interval, FS_Surjection
  <2>8. \A u \in DOMAIN ids : ids[u] \in Range(entry) /\ U32(cs[ids[u]]) = u
    BY <2>4, <2>6 DEF Range
  <2> HIDE DEF ids
  <2>9. pkg \in packages
    BY <1>2 DEF AInv, Entered
  <2>10. /\ DOMAIN abort_codes' = packages
         /\ Sequence(abort_codes'[pkg])
         /\ Range(abort_codes'[pkg]) = Range(abort_codes[pkg]) \cup Range(entry)
         /\ \A p \in packages : p # pkg => abort_codes'[p] = abort_codes[p]
    BY <2>1, <2>4, <2>9, JoinedRange DEF AInv, Entered
  <2>11. CodeNames' = CodeNames \cup Range(entry)
    BY <2>1, <2>9, <2>10 DEF CodeNames
  <2>12. Numbers' /\ Entered'
    BY <2>1, <2>3, <2>5, <2>9, <2>10, <2>11 DEF AInv, Entered, Numbers
  <2>13. Indexed'
    <3>1. DOMAIN abort_ids' = DOMAIN ids \cup DOMAIN abort_ids
      BY <2>1 DEF Filled
    <3>2. IsFiniteSet(DOMAIN abort_ids')
      BY <2>7, <3>1, FS_Union, ZenonT(60) DEF AInv, Indexed
    <3>3. ASSUME NEW u \in DOMAIN abort_ids'
          PROVE  abort_ids'[u] \in CodeNames' /\ U32(constants'[abort_ids'[u]]) = u
      <4>1. CASE u \in DOMAIN ids
        <5>1. abort_ids'[u] = ids[u]
          BY <2>1, <4>1 DEF Filled
        <5> QED
          BY <2>1, <2>8, <2>11, <4>1, <5>1
      <4>2. CASE u \notin DOMAIN ids
        <5>1. abort_ids'[u] = abort_ids[u] /\ u \in DOMAIN abort_ids
          BY <2>1, <3>1, <4>2 DEF Filled
        <5>2. abort_ids[u] \in CodeNames /\ U32(constants[abort_ids[u]]) = u
          BY <5>1 DEF AInv, Indexed
        <5>3. constants'[abort_ids[u]] = constants[abort_ids[u]]
          BY <2>1, <2>3, <5>2 DEF AInv, Entered
        <5> QED
          BY <2>11, <5>1, <5>2, <5>3
      <4> QED
        BY <4>1, <4>2
    <3> QED
      BY <3>2, <3>3 DEF Indexed
  <2>14. ASSUME ~complained' PROVE Counted'
    <3>1. Counted /\ ~Clashes(d.list)
      BY <2>1, <2>14 DEF AInv, Goes
    <3>2. \A i \in 1 .. n : entry[i] \notin DOMAIN constants
                             /\ \A j \in 1 .. i - 1 : entry[j] # entry[i]
      <4> SUFFICES ASSUME NEW i \in 1 .. n
                   PROVE  entry[i] \notin DOMAIN constants
                          /\ \A j \in 1 .. i - 1 : entry[j] # entry[i]
        OBVIOUS
      <4>1. d.list[i].name \notin DOMAIN constants \cup {d.list[j].name : j \in 1 .. i - 1}
        BY <2>2, <3>1 DEF Clashes
      <4>2. \A j \in 1 .. i - 1 : j \in 1 .. n
        OBVIOUS
      <4> QED
        BY <2>4, <4>1, <4>2
    <3>3. \A i, j \in 1 .. n : entry[i] = entry[j] => i = j
      <4> SUFFICES ASSUME NEW i \in 1 .. n, NEW j \in 1 .. n, i # j PROVE entry[i] # entry[j]
        OBVIOUS
      <4>1. i \in 1 .. j - 1 \/ j \in 1 .. i - 1
        OBVIOUS
      <4> QED
        BY <3>2, <4>1
    <3>4. Range(entry) \cap DOMAIN constants = {}
      BY <2>4, <3>2 DEF Range
    <3>5. Range(entry) \cap CodeNames = {} /\ CodeNames \cap Range(entry) = {}
      BY <3>4 DEF AInv, Entered
    <3>6. IsFiniteSet(Range(entry)) /\ Cardinality(Range(entry)) = n
      <4>1. PICK f : f = [i \in 1 .. n |-> entry[i]]
        OBVIOUS
      <4>2. f \in Surjection(1 .. n, Range(entry))
        BY <2>4, <4>1 DEF Surjection, Range
      <4>3. f \in Injection(1 .. n, Range(entry))
        BY <3>3, <4>1, <4>2 DEF Surjection, Injection, IsInjective
      <4>4. IsFiniteSet(1 .. n) /\ Cardinality(1 .. n) = n
        <5>1. Cardinality(1 .. n) = IF 1 > n THEN 0 ELSE n - 1 + 1
          BY FS_Interval
        <5> QED
          BY <5>1, FS_Interval
      <4> QED
        BY <4>2, <4>3, <4>4, FS_Surjection
    <3>7. /\ IsFiniteSet(CodeNames \cup Range(entry))
          /\ Cardinality(CodeNames \cup Range(entry)) = Cardinality(CodeNames) + n
      <4>1. /\ IsFiniteSet(CodeNames \cup Range(entry))
            /\ Cardinality(CodeNames \cup Range(entry))
                 = Cardinality(CodeNames) + n - Cardinality(CodeNames \cap Range(entry))
        BY <3>1, <3>6, FS_Union DEF Counted
      <4>2. Cardinality(CodeNames \cap Range(entry)) = 0
        BY <3>5, FS_EmptySet
      <4>3. Cardinality(CodeNames) \in Nat
        BY <3>1, FS_CardinalityType DEF Counted
      <4> QED
        BY <4>1, <4>2, <4>3
    <3>8. abort_count' = Cardinality(CodeNames')
      BY <2>1, <2>2, <2>11, <3>1, <3>7 DEF Counted
    <3>9. \A p \in packages : Range(abort_codes[p]) \subseteq CodeNames
      BY DEF CodeNames
    <3>10. ASSUME NEW p \in packages, NEW q \in packages, p # q
           PROVE  Range(abort_codes'[p]) \cap Range(abort_codes'[q]) = {}
      <4>1. Range(abort_codes[p]) \cap Range(abort_codes[q]) = {}
        BY <3>1, <3>10 DEF Counted
      <4>2. CASE p = pkg
        BY <2>10, <3>5, <3>9, <3>10, <4>1, <4>2
      <4>3. CASE q = pkg
        BY <2>10, <3>5, <3>9, <3>10, <4>1, <4>3
      <4>4. CASE p # pkg /\ q # pkg
        BY <2>10, <4>1, <4>4
      <4> QED
        BY <4>2, <4>3, <4>4
    <3> QED
      BY <2>1, <2>11, <3>7, <3>8, <3>10 DEF Counted
  <2> QED
    BY <2>12, <2>13, <2>14 DEF AInv
<1> QED
  BY <1>1, <1>2

\* The table is in order and has each code of each package, with its exception.
TableRight ==
  pc = "written" /\ ~complained =>
    /\ Len(table) \in Nat
    /\ \A i \in 1 .. Len(table) : table[i].id \in Int
    /\ \A i, j \in 1 .. Len(table) : i < j => table[i].id < table[j].id
    /\ \A p \in packages : \A i \in DOMAIN abort_codes[p] : \E k \in 1 .. Len(table) :
         /\ table[k].id = U32(constants[abort_codes[p][i]])
         /\ table[k].obj = <<p, abort_codes[p][i]>>

\* Every step keeps what is known of the codes.
LEMMA AbortsKept ==
  ASSUME AInv, SpecSound, Numbers', [Next]_vars
  PROVE  AInv'
<1>0. complained \in BOOLEAN /\ alphabet \in Alphabets
  BY DEF SpecSound
<1>1. ASSUME NEW d \in alphabet, Package(d) PROVE AInv'
  BY <1>0, <1>1, PackageKeepsAborts
<1>2. ASSUME NEW d \in alphabet, ErrorCodes(d) PROVE AInv'
  BY <1>0, <1>2, ErrorCodesKeepsAborts
<1>3. ASSUME NEW d \in alphabet, ConstantDef(d) \/ EnumDef(d) PROVE AInv'
  <2>1. /\ UNCHANGED <<packages, pkg, abort_codes, abort_ids, abort_count>>
        /\ complained' \in BOOLEAN /\ (complained => complained')
    BY <1>0, <1>3 DEF ConstantDef, EnumDef, Goes, aborts
  <2>2. /\ DOMAIN constants \subseteq DOMAIN constants'
        /\ \A c \in DOMAIN constants : constants'[c] = constants[c]
    <3>0. Grammatical(d)
      BY <1>0, RxgenAssumption
    <3>1. CASE ConstantDef(d)
      <4>1. constants' = Added(<<d>>) /\ d.value \in DOMAIN Number
        BY <3>0, <3>1 DEF ConstantDef, Grammatical
      <4>2. <<d>> \in Seq(Range(<<d>>)) /\ \A i \in DOMAIN <<d>> : <<d>>[i] = d
        BY DEF Range
      <4> QED
        BY <4>1, <4>2, AddedIs DEF AInv
    <3>2. CASE EnumDef(d)
      <4>1. constants' = Added(d.list) /\ d.kind = "enum"
        BY <3>2 DEF EnumDef
      <4> QED
        BY <3>0, <4>1, AddedIs DEF AInv, Grammatical
    <3> QED
      BY <1>3, <3>1, <3>2
  <2> QED
    BY <1>0, <2>1, <2>2, AbortsStay
<1>4. ASSUME \/ \E d \in alphabet :
                  TypeDef(d) \/ StructDef(d) \/ ProcSpec(d) \/ SyntaxError(d)
             \/ EndOfFile \/ EmitStruct \/ StructsEmitted \/ EmitFunction
             \/ FunctionsEmitted \/ EmitModule \/ Finished \/ UNCHANGED vars
      PROVE  AInv'
  <2>1. /\ UNCHANGED <<packages, pkg, abort_codes, abort_ids, abort_count, constants>>
        /\ complained' \in BOOLEAN /\ (complained => complained')
    BY <1>0, <1>4, ZenonT(60) DEF TypeDef, StructDef, ProcSpec, SyntaxError, Goes, Raise, EndOfFile, EmitStruct,
                      StructsEmitted, EmitFunction, FunctionsEmitted, EmitModule, Finished, Emits,
                      context, names, aborts, vars
  <2> QED
    BY <1>0, <2>1, AbortsStay
<1> QED
  BY <1>1, <1>2, <1>3, <1>4 DEF Next

\* There are as many indices as codes, and they are numbers.
LEMMA IndexedAll ==
  ASSUME AInv, Counted, CodeNames \subseteq Range(abort_ids)
  PROVE  /\ DOMAIN abort_ids \in SUBSET Int
         /\ Cardinality(DOMAIN abort_ids) = abort_count
         /\ abort_count \in Nat
<1> DEFINE D == DOMAIN abort_ids
<1>1. D \in SUBSET Int
  <2>1. ASSUME NEW n \in Int PROVE U32(n) \in Int
    BY RxgenAssumption DEF U32
  <2>2. \A u \in D : u = U32(constants[abort_ids[u]]) /\ constants[abort_ids[u]] \in Int
    BY DEF AInv, Entered, Indexed, Numbers
  <2> QED
    BY <2>1, <2>2
<1>2. PICK f : f = [u \in D |-> abort_ids[u]]
  OBVIOUS
<1>3. f \in Surjection(D, CodeNames)
  BY <1>2 DEF Surjection, Range, AInv, Indexed
<1>4. \A u, w \in D : f[u] = f[w] => u = w
  BY <1>2 DEF AInv, Indexed
<1>5. f \in Injection(D, CodeNames)
  BY <1>2, <1>3, <1>4 DEF Surjection, Injection, IsInjective
<1>6. IsFiniteSet(D)
  BY DEF AInv, Indexed
<1>7. Cardinality(CodeNames) = Cardinality(D)
  BY <1>3, <1>5, <1>6, FS_Surjection
<1>8. Cardinality(D) \in Nat
  BY <1>6, FS_CardinalityType
<1> QED
  BY <1>1, <1>7, <1>8 DEF Counted

\* The module is written with such a table.
LEMMA ModuleWritten ==
  ASSUME AInv, EmitModule, complained \in BOOLEAN
  PROVE  TableRight'
<1> SUFFICES ASSUME pc' = "written", ~complained' PROVE TableRight'
  BY DEF TableRight
<1>1. Counted /\ complained' = complained /\ UNCHANGED <<packages, abort_codes, constants, abort_ids>>
  BY DEF EmitModule, Emits, AInv, context, names, aborts
<1> DEFINE codes == {x \in packages \X DOMAIN constants : x[2] \in Range(abort_codes[x[1]])}
           owner(c) == CHOOSE p \in packages : /\ <<p, c>> \in codes
                                               /\ \A x \in codes : x[2] = c => x[1] <= p
           f == AbortEntries
           N == abort_count
<1>2. /\ ~\E x \in codes : x[2] \notin Range(abort_ids)
      /\ table' = [i \in 1 .. N |->
                    IF i \in DOMAIN f
                    THEN [id |-> U32(constants[abort_ids[f[i]]]),
                          obj |-> <<owner(abort_ids[f[i]]), abort_ids[f[i]]>>]
                    ELSE [id |-> 0, obj |-> NoException]]
  BY DEF EmitModule
<1>3. \A p \in packages : \A i \in DOMAIN abort_codes[p] :
        /\ abort_codes[p][i] \in Range(abort_codes[p])
        /\ abort_codes[p][i] \in CodeNames
        /\ <<p, abort_codes[p][i]>> \in codes
  <2> SUFFICES ASSUME NEW p \in packages, NEW i \in DOMAIN abort_codes[p]
               PROVE  /\ abort_codes[p][i] \in Range(abort_codes[p])
                      /\ abort_codes[p][i] \in CodeNames
                      /\ <<p, abort_codes[p][i]>> \in codes
    OBVIOUS
  <2>1. PICK c : c = abort_codes[p][i]
    OBVIOUS
  <2>2. c \in Range(abort_codes[p])
    BY <2>1 DEF Range
  <2>3. c \in CodeNames
    BY <2>2 DEF CodeNames
  <2>4. c \in DOMAIN constants
    BY <2>3 DEF AInv, Entered
  <2> QED
    BY <2>1, <2>2, <2>3, <2>4
<1>4. CodeNames \subseteq Range(abort_ids)
  <2> SUFFICES ASSUME NEW p \in packages, NEW c \in Range(abort_codes[p])
               PROVE  c \in Range(abort_ids)
    BY DEF CodeNames
  <2>1. PICK i \in DOMAIN abort_codes[p] : c = abort_codes[p][i]
    BY DEF Range
  <2>2. <<p, abort_codes[p][i]>> \in codes
    BY <1>3
  <2>3. PICK x : x = <<p, c>>
    OBVIOUS
  <2>4. x \in codes /\ x[2] = c
    BY <2>1, <2>2, <2>3
  <2> HIDE DEF codes
  <2> QED
    BY <1>2, <2>4
<1>5. /\ DOMAIN abort_ids \in SUBSET Int /\ IsFiniteSet(DOMAIN abort_ids)
      /\ Cardinality(DOMAIN abort_ids) = N /\ N \in Nat
  BY <1>1, <1>4, IndexedAll DEF AInv, Indexed
<1>6. f = [i \in 1 .. Cardinality(DOMAIN abort_ids) |->
             CHOOSE u \in DOMAIN abort_ids : Rank(DOMAIN abort_ids, u) = i]
  BY DEF AbortEntries, Sorted, Rank
<1>60. PICK D, g : D = DOMAIN abort_ids /\ g = f
  OBVIOUS
<1> HIDE DEF f
<1>61. g = [i \in 1 .. Cardinality(D) |-> CHOOSE u \in D : Rank(D, u) = i]
  BY <1>6, <1>60
<1>62. D \in SUBSET Int /\ IsFiniteSet(D) /\ Cardinality(D) = N
  BY <1>5, <1>60
<1>63. \A i \in 1 .. Cardinality(D) : g[i] \in D /\ Rank(D, g[i]) = i
  <2>1. \A i \in 1 .. Cardinality(D) : \E u \in D : Rank(D, u) = i
    BY <1>62, Ranks
  <2> QED
    BY <1>61, <2>1
<1>64. /\ \A i \in 1 .. Cardinality(D) : g[i] \in D
       /\ \A u \in D : \E i \in 1 .. Cardinality(D) : g[i] = u
       /\ \A i, j \in 1 .. Cardinality(D) : i < j => g[i] < g[j]
  BY <1>62, <1>63, SortedIs
<1>7. /\ DOMAIN f = 1 .. N
      /\ \A i \in 1 .. N : f[i] \in DOMAIN abort_ids
      /\ \A u \in DOMAIN abort_ids : \E i \in 1 .. N : f[i] = u
      /\ \A i, j \in 1 .. N : i < j => f[i] < f[j]
  BY <1>60, <1>61, <1>62, <1>64
<1> HIDE DEF owner
<1>8. /\ DOMAIN table' = 1 .. N
      /\ \A i \in 1 .. N : table'[i].id = U32(constants[abort_ids[f[i]]])
                           /\ table'[i].obj = <<owner(abort_ids[f[i]]), abort_ids[f[i]]>>
  BY <1>2, <1>7
<1>9. \A i \in 1 .. N : table'[i].id = f[i]
  BY <1>7, <1>8 DEF AInv, Indexed
<1>10. Len(table') = N
  BY <1>2, <1>5
<1>11. ASSUME NEW p \in packages, NEW i \in DOMAIN abort_codes[p]
       PROVE  \E k \in 1 .. N : /\ table'[k].id = U32(constants[abort_codes[p][i]])
                                /\ table'[k].obj = <<p, abort_codes[p][i]>>
  <2>1. PICK c : c = abort_codes[p][i] /\ c \in Range(abort_codes[p]) /\ c \in CodeNames
                 /\ <<p, c>> \in codes
    BY <1>3
  <2>2. PICK u \in DOMAIN abort_ids : abort_ids[u] = c
    BY <1>4, <2>1 DEF Range
  <2>3. PICK k \in 1 .. N : f[k] = u
    BY <1>7
  <2>4. owner(c) = p
    <3>1. ASSUME NEW q \in packages, c \in Range(abort_codes[q]) PROVE q = p
      BY <1>1, <2>1, <3>1 DEF Counted
    <3>2. \A x \in codes : x[2] = c => x[1] = p
      BY <3>1
    <3>3. p <= p
      BY DEF AInv, Entered
    <3>4. PICK y : y = <<p, c>> /\ y \in codes
      BY <2>1
    <3>5. \A q \in packages : <<q, c>> \in codes => q = p
      BY <3>1
    <3>6. \A x \in codes : x[2] = c => x[1] <= p
      BY <3>2, <3>3
    <3> HIDE DEF codes
    <3>7. \E q \in packages : <<q, c>> \in codes /\ \A x \in codes : x[2] = c => x[1] <= q
      BY <2>1, <3>6
    <3>8. owner(c) \in packages /\ <<owner(c), c>> \in codes
      BY <3>7 DEF owner
    <3> QED
      BY <3>5, <3>8
  <2>5. table'[k].id = U32(constants[c]) /\ table'[k].obj = <<p, c>>
    BY <1>8, <2>2, <2>3, <2>4
  <2> QED
    BY <2>1, <2>5
<1>12. \A i \in 1 .. N : table'[i].id \in Int
  BY <1>5, <1>7, <1>9
<1>13. \A i, j \in 1 .. N : i < j => table'[i].id < table'[j].id
  BY <1>7, <1>9
<1> QED
  BY <1>1, <1>5, <1>10, <1>11, <1>12, <1>13 DEF TableRight

\* If nothing was complained of, an abort with any code of the interface raises the
\* exception of that code, whatever the packages, the codes and their signs are.
THEOREM AbortsAlwaysFound == Spec => []AbortsFound
<1> DEFINE All == SpecSound /\ AInv /\ TableRight
<1>1. Init => All
  <2> SUFFICES ASSUME Init PROVE All
    OBVIOUS
  <2>1. /\ packages = {} /\ pkg = NoPackage /\ abort_codes = <<>> /\ abort_ids = <<>>
        /\ abort_count = 0 /\ constants = [RXRPC_SECURITY_PLAIN |-> 0] /\ pc = "parse"
    BY DEF Init
  <2>2. DOMAIN <<>> = {}
    OBVIOUS
  <2>3. CodeNames = {}
    BY <2>1 DEF CodeNames
  <2>4. Numbers
    BY <2>1 DEF Numbers
  <2>5. Entered
    BY <2>1, <2>2, <2>3 DEF Entered
  <2>6. Indexed
    BY <2>1, <2>2, FS_EmptySet DEF Indexed
  <2>7. Counted
    BY <2>1, <2>3, FS_EmptySet DEF Counted
  <2>8. TableRight
    BY <2>1 DEF TableRight
  <2> QED
    BY <2>4, <2>5, <2>6, <2>7, <2>8, WholeAtFirst DEF AInv
<1>2. All /\ [Next]_vars => All'
  <2> SUFFICES ASSUME All, [Next]_vars PROVE All'
    OBVIOUS
  <2>1. SpecSound' /\ Numbers'
    <3>1. SpecSound'
      BY WholeKept
    <3>2. SpecSound' => Numbers'
      BY DEF SpecSound, SInv
    <3> QED
      BY <3>1, <3>2
  <2>2. AInv'
    BY <2>1, AbortsKept
  <2>3. TableRight'
    <3>1. CASE EmitModule
      BY <3>1, ModuleWritten DEF SpecSound
    <3>2. CASE Finished \/ UNCHANGED vars
      BY <3>2, ZenonT(60) DEF Finished, vars, context, names, aborts, output, TableRight
    <3>3. CASE ~EmitModule /\ ~Finished /\ ~UNCHANGED vars
      <4>1. pc' # "written"
        BY <3>3, ZenonT(60) DEF Next, Package, ConstantDef, ErrorCodes, EnumDef, TypeDef, StructDef, ProcSpec,
                    SyntaxError, EndOfFile, EmitStruct, StructsEmitted, EmitFunction,
                    FunctionsEmitted, Next_, Goes, Raise
      <4> QED
        BY <4>1 DEF TableRight
    <3> QED
      BY <3>1, <3>2, <3>3
  <2> QED
    BY <2>1, <2>2, <2>3
<1>3. All => AbortsFound
  <2> SUFFICES ASSUME All, pc = "written", ~complained,
                      NEW p \in packages, NEW i \in DOMAIN abort_codes[p]
               PROVE  Search(U32(constants[abort_codes[p][i]])).obj = <<p, abort_codes[p][i]>>
    BY DEF AbortsFound
  <2>1. PICK k \in 1 .. Len(table) : /\ table[k].id = U32(constants[abort_codes[p][i]])
                                     /\ table[k].obj = <<p, abort_codes[p][i]>>
    BY DEF TableRight
  <2>2. Search(table[k].id) = table[k]
    BY SearchFinds DEF TableRight
  <2> QED
    BY <2>1, <2>2
<1> HIDE DEF All
<1> QED
  BY <1>1, <1>2, <1>3, PTL DEF Spec

-----------------------------------------------------------------------------
(* Functions defined by recursion on the numbers from lo to hi. *)

ByRecursion(f, lo, hi, base, step) ==
  \A n \in lo .. hi : f[n] = IF n = lo THEN base ELSE step[n][f[n - 1]]

\* A function so defined is into S, if every step stays in S.
LEMMA RecursionInto ==
  ASSUME NEW lo \in Int, NEW hi \in Int, NEW S, NEW base \in S, NEW step \in [Int -> [S -> S]],
         NEW f, (lo <= hi => f[lo] = base),
         \A n \in lo .. hi : n # lo /\ f[n - 1] \in S => f[n] = step[n][f[n - 1]]
  PROVE  \A n \in lo .. hi : f[n] \in S
<1> DEFINE In == {d \in Nat : lo + d <= hi => f[lo + d] \in S}
<1>1. 0 \in In
  <2>1. lo + 0 = lo
    OBVIOUS
  <2> QED
    BY <2>1
<1>2. ASSUME NEW d \in Nat, d \in In PROVE d + 1 \in In
  <2> SUFFICES ASSUME lo + (d + 1) <= hi PROVE f[lo + (d + 1)] \in S
    OBVIOUS
  <2>1. f[lo + d] \in S
    BY <1>2
  <2>2. (lo + (d + 1)) - 1 = lo + d /\ lo + (d + 1) \in lo .. hi /\ lo + (d + 1) # lo
    OBVIOUS
  <2>3. f[lo + (d + 1)] = step[lo + (d + 1)][f[lo + d]]
    BY <2>1, <2>2
  <2>4. lo + (d + 1) \in Int /\ step[lo + (d + 1)] \in [S -> S]
    BY <2>1, <2>2
  <2> QED
    BY <2>1, <2>3, <2>4
<1>3. Nat \subseteq In
  <2> HIDE DEF In
  <2> QED
    BY <1>1, <1>2, Induction
<1>4. ASSUME NEW n \in lo .. hi PROVE f[n] \in S
  <2>1. n - lo \in Nat /\ lo + (n - lo) = n
    OBVIOUS
  <2>2. n - lo \in In
    BY <1>3, <2>1
  <2> QED
    BY <2>1, <2>2
<1> QED
  BY <1>4

Stepping(f, lo, hi, S, step) ==
  \A n \in lo .. hi : n # lo /\ f[n - 1] \in S => f[n] = step[n][f[n - 1]]
StaysIn(f, lo, hi, S) == \A n \in lo .. hi : f[n] \in S

\* The same, by the names of what is assumed and of what follows.
LEMMA SteppingStays ==
  ASSUME NEW lo \in Int, NEW hi \in Int, NEW S, NEW base \in S, NEW step \in [Int -> [S -> S]],
         NEW f, (lo <= hi => f[lo] = base), Stepping(f, lo, hi, S, step)
  PROVE  StaysIn(f, lo, hi, S)
<1>1. \A n \in lo .. hi : n # lo /\ f[n - 1] \in S => f[n] = step[n][f[n - 1]]
  BY Zenon DEF Stepping
<1>2. \A n \in lo .. hi : f[n] \in S
  BY <1>1, RecursionInto, Zenon
<1> QED
  BY <1>2, Zenon DEF StaysIn

\* And there is one.
LEMMA RecursionExists ==
  ASSUME NEW lo \in Int, NEW hi \in Int, NEW S, NEW base \in S, NEW step \in [Int -> [S -> S]]
  PROVE  \E f \in [lo .. hi -> S] : ByRecursion(f, lo, hi, base, step)
<1> DEFINE Def(f, m) == f \in [lo .. m -> S] /\ ByRecursion(f, lo, m, base, step)
<1>2. ASSUME NEW m \in Int, m < lo PROVE \E f : Def(f, m)
  <2>1. Def([n \in lo .. m |-> base], m)
    BY <1>2 DEF ByRecursion
  <2> QED
    BY <2>1
<1>3. \E f : Def(f, lo)
  <2>1. Def([n \in lo .. lo |-> base], lo)
    BY DEF ByRecursion
  <2> QED
    BY <2>1
<1>4. ASSUME NEW m \in Int, lo <= m, m < hi, \E f : Def(f, m)
      PROVE  \E f : Def(f, m + 1)
  <2>1. PICK f : Def(f, m)
    BY <1>4
  <2> DEFINE x == step[m + 1][f[m]]
             g == [n \in lo .. m + 1 |-> IF n = m + 1 THEN x ELSE f[n]]
  <2>2. \A n \in lo .. m : f[n] = IF n = lo THEN base ELSE step[n][f[n - 1]]
    BY <2>1 DEF ByRecursion
  <2>3. ASSUME NEW n \in lo .. m + 1
        PROVE  g[n] = IF n = lo THEN base ELSE step[n][g[n - 1]]
    <3>1. CASE n = m + 1
      <4>1. n # lo /\ n - 1 = m /\ m \in lo .. m + 1 /\ m # m + 1
        BY <1>4, <3>1
      <4>2. g[n - 1] = f[m] /\ g[n] = x
        BY <3>1, <4>1
      <4> QED
        BY <3>1, <4>1, <4>2
    <3>2. CASE n # m + 1
      <4>1. n \in lo .. m /\ (n # lo => n - 1 \in lo .. m + 1 /\ n - 1 # m + 1)
        BY <3>2
      <4> QED
        BY <2>2, <3>2, <4>1
    <3> QED
      BY <3>1, <3>2
  <2>4. g \in [lo .. m + 1 -> S]
    <3>1. x \in S
      BY <1>4, <2>1
    <3>2. ASSUME NEW n \in lo .. m + 1 PROVE n = m + 1 \/ f[n] \in S
      BY <1>4, <2>1
    <3> QED
      BY <3>1, <3>2
  <2> HIDE DEF g
  <2>5. Def(g, m + 1)
    BY <2>3, <2>4 DEF ByRecursion
  <2> QED
    BY <2>5
<1>5. CASE hi < lo
  BY <1>2, <1>5
<1>6. CASE lo <= hi
  <2> DEFINE Good == {d \in Nat : lo + d <= hi => \E f : Def(f, lo + d)}
  <2>1. 0 \in Good
    BY <1>3
  <2>2. ASSUME NEW d \in Nat, d \in Good PROVE d + 1 \in Good
    <3> SUFFICES ASSUME lo + (d + 1) <= hi PROVE \E f : Def(f, lo + (d + 1))
      OBVIOUS
    <3>1. lo + d \in Int /\ lo <= lo + d /\ lo + d < hi /\ lo + (d + 1) = (lo + d) + 1
      OBVIOUS
    <3>2. \E f : Def(f, lo + d)
      BY <2>2, <3>1
    <3> HIDE DEF Def
    <3> QED
      BY <1>4, <3>1, <3>2
  <2>3. Nat \subseteq Good
    <3> HIDE DEF Good
    <3> QED
      BY <2>1, <2>2, Induction
  <2>4. hi - lo \in Nat /\ lo + (hi - lo) = hi
    BY <1>6
  <2>5. \E f : Def(f, hi)
    <3>1. hi - lo \in Good
      BY <2>3, <2>4 DEF ByRecursion
    <3>2. \E f : Def(f, lo + (hi - lo))
      BY <2>4, <3>1
    <3> QED
      BY <2>4, <3>2
  <2> QED
    BY <2>5
<1> QED
  BY <1>5, <1>6

-----------------------------------------------------------------------------
(* Joining sequences of words. *)

\* What FlattenSeq() makes: each sequence is put after those before it.
LEMMA FlattenIs ==
  ASSUME NEW S, NEW ss \in Seq(Seq(S)), Len(ss) # 0
  PROVE  \E f : /\ f \in [1 .. Len(ss) -> Seq(S)] /\ FlattenSeq(ss) = f[Len(ss)]
                /\ \A i \in 1 .. Len(ss) : f[i] = IF i = 1 THEN ss[i] ELSE f[i - 1] \o ss[i]
<1> DEFINE m == Len(ss)
           T == Seq(S)
           step == [i \in Int |-> [s \in T |-> IF i \in 1 .. m THEN s \o ss[i] ELSE s]]
           Joins(f) == f = [i \in 1 .. m |-> IF i = 1 THEN ss[i] ELSE f[i - 1] \o ss[i]]
           F == CHOOSE g : Joins(g)
<1>1. 1 \in Int /\ m \in Int /\ m \in Nat /\ 1 \in 1 .. m /\ \A i \in 1 .. m : ss[i] \in T
  OBVIOUS
<1>2. step \in [Int -> [T -> T]]
  BY <1>1
<1>3. ASSUME NEW i \in 1 .. m, NEW s \in T PROVE step[i][s] = s \o ss[i]
  BY <1>3
<1> HIDE DEF step, m, T
<1>4. PICK f \in [1 .. m -> T] : ByRecursion(f, 1, m, ss[1], step)
  BY <1>1, <1>2, RecursionExists, Zenon
<1>5. ASSUME NEW i \in 1 .. m PROVE f[i] = IF i = 1 THEN ss[i] ELSE f[i - 1] \o ss[i]
  <2>1. i # 1 => i - 1 \in 1 .. m /\ f[i - 1] \in T
    BY <1>1
  <2>2. f[i] = IF i = 1 THEN ss[1] ELSE step[i][f[i - 1]]
    BY <1>4 DEF ByRecursion
  <2> QED
    BY <1>3, <2>1, <2>2
<1>6. Joins(f)
  <2>1. f = [i \in 1 .. m |-> f[i]]
    OBVIOUS
  <2> QED
    BY <1>5, <2>1
<1>7. Joins(F)
  <2> HIDE DEF Joins
  <2> QED
    BY <1>6
<1>8. FlattenSeq(ss) = F[m]
  BY Zenon DEF FlattenSeq, m
<1> HIDE DEF F
<1>9. /\ F = [i \in 1 .. m |-> F[i]]
      /\ \A i \in 1 .. m : F[i] = IF i = 1 THEN ss[i] ELSE F[i - 1] \o ss[i]
  BY <1>7
<1>10. \A i \in 1 .. m : i # 1 /\ F[i - 1] \in T => F[i] = step[i][F[i - 1]]
  <2> SUFFICES ASSUME NEW i \in 1 .. m, i # 1, F[i - 1] \in T PROVE F[i] = step[i][F[i - 1]]
    OBVIOUS
  <2>1. F[i] = F[i - 1] \o ss[i]
    BY <1>9
  <2> QED
    BY <1>3, <2>1
<1>11. \A i \in 1 .. m : F[i] \in T
  <2>1. ss[1] \in T /\ (1 <= m => F[1] = ss[1])
    BY <1>1, <1>9
  <2>2. Stepping(F, 1, m, T, step)
    BY <1>10, Zenon DEF Stepping
  <2>3. StaysIn(F, 1, m, T)
    BY <1>1, <1>2, <2>1, <2>2, SteppingStays, Zenon
  <2> QED
    BY <2>3, Zenon DEF StaysIn
<1> QED
  BY <1>8, <1>9, <1>11 DEF m, T

\* Nothing joined is nothing.
LEMMA FlattenNone == ASSUME NEW ss, Len(ss) = 0 PROVE FlattenSeq(ss) = ss
  BY Zenon DEF FlattenSeq

\* What is joined is a sequence of the same things.
LEMMA FlattenType ==
  ASSUME NEW S, NEW ss \in Seq(Seq(S)) PROVE FlattenSeq(ss) \in Seq(S)
<1>1. CASE Len(ss) = 0
  <2>1. ss = <<>> /\ <<>> \in Seq(S)
    BY <1>1
  <2> QED
    BY <1>1, <2>1, FlattenNone
<1>2. CASE Len(ss) # 0
  <2>1. Len(ss) \in Nat /\ Len(ss) \in 1 .. Len(ss)
    BY <1>2
  <2> QED
    BY <1>2, <2>1, FlattenIs
<1> QED
  BY <1>1, <1>2

\* A sequence added at the end comes at the end.
LEMMA FlattenAppend ==
  ASSUME NEW S, NEW ss \in Seq(Seq(S)), NEW s \in Seq(S)
  PROVE  FlattenSeq(Append(ss, s)) = FlattenSeq(ss) \o s
<1> DEFINE m == Len(ss)
           tt == Append(ss, s)
<1>1. /\ m \in Nat /\ tt \in Seq(Seq(S)) /\ Len(tt) = m + 1 /\ Len(tt) # 0 /\ tt[m + 1] = s
      /\ \A i \in 1 .. m : tt[i] = ss[i]
  OBVIOUS
<1>2. PICK g : /\ g \in [1 .. m + 1 -> Seq(S)] /\ FlattenSeq(tt) = g[m + 1]
               /\ \A i \in 1 .. m + 1 : g[i] = IF i = 1 THEN tt[i] ELSE g[i - 1] \o tt[i]
  <2> HIDE DEF tt
  <2>1. tt \in Seq(Seq(S)) /\ Len(tt) # 0 /\ Len(tt) = m + 1
    BY <1>1
  <2>2. \E g : /\ g \in [1 .. Len(tt) -> Seq(S)] /\ FlattenSeq(tt) = g[Len(tt)]
               /\ \A i \in 1 .. Len(tt) : g[i] = IF i = 1 THEN tt[i] ELSE g[i - 1] \o tt[i]
    BY <2>1, FlattenIs
  <2> QED
    BY <2>1, <2>2
<1>3. CASE m = 0
  <2>1. FlattenSeq(ss) = ss /\ ss = <<>>
    BY <1>3, FlattenNone
  <2>2. <<>> \o s = s
    OBVIOUS
  <2> QED
    BY <1>1, <1>2, <1>3, <2>1, <2>2
<1>4. CASE m # 0
  <2>1. PICK f : /\ f \in [1 .. m -> Seq(S)] /\ FlattenSeq(ss) = f[m]
                 /\ \A i \in 1 .. m : f[i] = IF i = 1 THEN ss[i] ELSE f[i - 1] \o ss[i]
    BY <1>4, FlattenIs
  <2> DEFINE Same == {d \in Nat : d + 1 \in 1 .. m => f[d + 1] = g[d + 1]}
  <2> HIDE DEF tt, m
  <2>2. 0 \in Same
    <3>1. 0 + 1 = 1 /\ (1 \in 1 .. m => 1 \in 1 .. m + 1)
      BY <1>1
    <3> QED
      BY <1>1, <1>2, <2>1, <3>1
  <2>3. ASSUME NEW d \in Nat, d \in Same PROVE d + 1 \in Same
    <3> SUFFICES ASSUME (d + 1) + 1 \in 1 .. m PROVE f[(d + 1) + 1] = g[(d + 1) + 1]
      OBVIOUS
    <3> DEFINE e == (d + 1) + 1
    <3>1. /\ e \in 1 .. m /\ e \in 1 .. m + 1 /\ e # 1 /\ e - 1 = d + 1 /\ d + 1 \in 1 .. m
      BY <1>1
    <3>2. f[d + 1] = g[d + 1]
      BY <2>3, <3>1
    <3> HIDE DEF e
    <3>3. f[e] = f[e - 1] \o ss[e]
      BY <2>1, <3>1
    <3>4. g[e] = g[e - 1] \o tt[e]
      BY <1>2, <3>1
    <3>5. f[e] = g[e]
      BY <1>1, <3>1, <3>2, <3>3, <3>4
    <3> QED
      BY <3>5 DEF e
  <2>4. Nat \subseteq Same
    <3> HIDE DEF Same
    <3> QED
      BY <2>2, <2>3, Induction
  <2>5. f[m] = g[m]
    <3>1. m - 1 \in Nat /\ (m - 1) + 1 = m /\ m \in 1 .. m
      BY <1>1, <1>4
    <3>2. m - 1 \in Same
      BY <2>4, <3>1
    <3> QED
      BY <3>1, <3>2
  <2>6. m + 1 \in 1 .. m + 1 /\ m + 1 # 1 /\ (m + 1) - 1 = m
    BY <1>1, <1>4
  <2>7. g[m + 1] = g[m] \o tt[m + 1]
    BY <1>2, <2>6
  <2> QED
    BY <1>1, <1>2, <2>1, <2>5, <2>7 DEF tt
<1> QED
  BY <1>3, <1>4

\* A function over 1 .. n is a sequence.
LEMMA FunctionIsSeq ==
  ASSUME NEW n \in Nat, NEW S, NEW f \in [1 .. n -> S]
  PROVE  f \in Seq(S)
  OBVIOUS

\* Joining is associative, and what was put in front can be taken off again.
LEMMA JoinAssociative ==
  ASSUME NEW S, NEW a \in Seq(S), NEW b \in Seq(S), NEW c \in Seq(S)
  PROVE  (a \o b) \o c = a \o (b \o c)
  OBVIOUS

\* Joining keeps the type and adds the lengths.
LEMMA JoinLength ==
  ASSUME NEW S, NEW a \in Seq(S), NEW b \in Seq(S)
  PROVE  a \o b \in Seq(S) /\ Len(a \o b) = Len(a) + Len(b)
  OBVIOUS

\* The two parts of a joined sequence can be taken back.
LEMMA TakeBack ==
  ASSUME NEW S, NEW a \in Seq(S), NEW b \in Seq(S), NEW n, n = Len(a)
  PROVE  /\ SubSeq(a \o b, 1, n) = a
         /\ SubSeq(a \o b, n + 1, Len(a \o b)) = b
  OBVIOUS

\* So can a part in the middle.
LEMMA TakeMiddle ==
  ASSUME NEW S, NEW a \in Seq(S), NEW b \in Seq(S), NEW c \in Seq(S),
         NEW m, NEW n, m = Len(a), n = Len(b)
  PROVE  SubSeq((a \o b) \o c, m + 1, m + n) = b
  OBVIOUS

\* What follows the same front is the same.
LEMMA CancelFront ==
  ASSUME NEW S, NEW a \in Seq(S), NEW b \in Seq(S), NEW c \in Seq(S), a \o b = a \o c
  PROVE  b = c
<1>1. SubSeq(a \o b, Len(a) + 1, Len(a \o b)) = b /\ SubSeq(a \o c, Len(a) + 1, Len(a \o c)) = c
  BY TakeBack
<1> QED
  BY <1>1

\* The first m sequences of W joined.
Joined(W, m) == FlattenSeq([j \in 1 .. m |-> W[j]])

\* Of no sequences nothing is joined.
LEMMA JoinedNone == ASSUME NEW W PROVE Joined(W, 0) = <<>>
<1>1. [j \in 1 .. 0 |-> W[j]] = <<>> /\ Len(<<>>) = 0
  OBVIOUS
<1> QED
  BY <1>1, FlattenNone DEF Joined

\* One sequence more is joined at the end.
LEMMA JoinedNext ==
  ASSUME NEW S, NEW W, NEW m \in Nat, \A j \in 1 .. m + 1 : W[j] \in Seq(S)
  PROVE  Joined(W, m) \in Seq(S) /\ Joined(W, m + 1) = Joined(W, m) \o W[m + 1]
<1> DEFINE ss == [j \in 1 .. m |-> W[j]]
           tt == [j \in 1 .. m + 1 |-> W[j]]
<1>1. ss \in Seq(Seq(S)) /\ Len(ss) = m /\ W[m + 1] \in Seq(S)
  OBVIOUS
<1>2. tt = Append(ss, W[m + 1])
  <2>1. /\ tt \in Seq(Seq(S)) /\ Len(tt) = m + 1
        /\ Append(ss, W[m + 1]) \in Seq(Seq(S)) /\ Len(Append(ss, W[m + 1])) = m + 1
    OBVIOUS
  <2>2. ASSUME NEW j \in 1 .. m + 1 PROVE tt[j] = Append(ss, W[m + 1])[j]
    OBVIOUS
  <2> HIDE DEF tt, ss
  <2> QED
    BY <2>1, <2>2
<1>3. Joined(W, m) = FlattenSeq(ss) /\ Joined(W, m + 1) = FlattenSeq(tt)
  BY Zenon DEF Joined
<1> HIDE DEF ss, tt
<1> QED
  BY <1>1, <1>2, <1>3, FlattenType, FlattenAppend

\* Only the sequences that are joined matter.
LEMMA JoinedSame ==
  ASSUME NEW W, NEW V, NEW m \in Nat, \A j \in 1 .. m : W[j] = V[j]
  PROVE  Joined(W, m) = Joined(V, m)
<1>1. [j \in 1 .. m |-> W[j]] = [j \in 1 .. m |-> V[j]]
  OBVIOUS
<1> QED
  BY <1>1 DEF Joined

\* What is joined has the type of its parts.
LEMMA JoinedType ==
  ASSUME NEW S, NEW W, NEW m \in Nat, \A j \in 1 .. m : W[j] \in Seq(S)
  PROVE  Joined(W, m) \in Seq(S)
<1>1. [j \in 1 .. m |-> W[j]] \in Seq(Seq(S))
  OBVIOUS
<1> QED
  BY <1>1, FlattenType DEF Joined

BeginsWith(S, s, t) == \E r \in Seq(S) : s = t \o r

\* What is joined first is at the front of what is joined in the end.
LEMMA JoinedFront ==
  ASSUME NEW S, NEW W, NEW m \in Nat, NEW n \in Nat, m <= n, \A j \in 1 .. n : W[j] \in Seq(S)
  PROVE  BeginsWith(S, Joined(W, n), Joined(W, m))
<1> DEFINE Good == {d \in Nat : m + d <= n => \E r \in Seq(S) : Joined(W, m + d) = Joined(W, m) \o r}
<1>1. 0 \in Good
  <2>1. Joined(W, m) \in Seq(S) /\ m + 0 = m
    BY JoinedType
  <2>2. Joined(W, m) = Joined(W, m) \o <<>> /\ <<>> \in Seq(S)
    BY <2>1
  <2> QED
    BY <2>1, <2>2
<1>2. ASSUME NEW d \in Nat, d \in Good PROVE d + 1 \in Good
  <2> SUFFICES ASSUME m + (d + 1) <= n
               PROVE  \E r \in Seq(S) : Joined(W, m + (d + 1)) = Joined(W, m) \o r
    OBVIOUS
  <2>1. m + d \in Nat /\ m + d <= n /\ m + (d + 1) = (m + d) + 1 /\ (m + d) + 1 \in 1 .. n
    OBVIOUS
  <2>2. PICK r \in Seq(S) : Joined(W, m + d) = Joined(W, m) \o r
    BY <1>2, <2>1
  <2> DEFINE e == m + d
             w == W[e + 1]
  <2>3. e \in Nat /\ \A j \in 1 .. e + 1 : W[j] \in Seq(S)
    BY <2>1
  <2>4. Joined(W, m) \in Seq(S) /\ w \in Seq(S)
    BY <2>3, JoinedType
  <2> HIDE DEF e
  <2>5. Joined(W, e + 1) = Joined(W, e) \o w
    BY <2>3, JoinedNext
  <2> HIDE DEF w
  <2>6. r \o w \in Seq(S) /\ (Joined(W, m) \o r) \o w = Joined(W, m) \o (r \o w)
    BY <2>4
  <2> QED
    BY <2>1, <2>2, <2>5, <2>6 DEF e
<1>3. Nat \subseteq Good
  <2> HIDE DEF Good
  <2> QED
    BY <1>1, <1>2, Induction
<1>4. n - m \in Nat /\ m + (n - m) = n
  OBVIOUS
<1>5. n - m \in Good
  BY <1>3, <1>4
<1> QED
  BY <1>4, <1>5 DEF BeginsWith

-----------------------------------------------------------------------------
(* The division of the parameters. *)

\* The parameters of a direction, in the order of the declaration.
Selected(s, way, n) ==
  /\ s \in Seq(Nat) /\ Len(s) <= n
  /\ \A j \in DOMAIN s : s[j] \in 1 .. n /\ Is(s[j], way)
  /\ \A j, k \in DOMAIN s : j < k => s[j] < s[k]

\* main's division selects the parameters of a way, in their order.
LEMMA OfSelects ==
  ASSUME NEW way, params \in Seq(Parameters)
  PROVE  Selected(Of(way), way, Len(params))
<1> DEFINE m == Len(params)
           T == Seq(Nat)
           step == [n \in Int |-> [s \in T |-> IF n \in Nat /\ Is(n, way) THEN Append(s, n) ELSE s]]
           upto(f) == f = [n \in 0 .. m |->
             IF n = 0 THEN <<>> ELSE IF Is(n, way) THEN Append(f[n - 1], n) ELSE f[n - 1]]
           F == CHOOSE g : upto(g)
<1>1. 0 \in Int /\ m \in Int /\ m \in Nat /\ <<>> \in T
  OBVIOUS
<1>2. step \in [Int -> [T -> T]]
  OBVIOUS
<1>3. ASSUME NEW n \in Nat, NEW s \in T
      PROVE  step[n][s] = IF Is(n, way) THEN Append(s, n) ELSE s
  BY <1>3
<1> HIDE DEF step, m, T
<1>4. PICK f \in [0 .. m -> T] : ByRecursion(f, 0, m, <<>>, step)
  BY <1>1, <1>2, RecursionExists, Zenon
<1>5. ASSUME NEW n \in 0 .. m
      PROVE  f[n] = IF n = 0 THEN <<>> ELSE IF Is(n, way) THEN Append(f[n - 1], n) ELSE f[n - 1]
  <2>1. n \in Nat /\ (n # 0 => n - 1 \in 0 .. m /\ f[n - 1] \in T)
    BY <1>1
  <2>2. f[n] = IF n = 0 THEN <<>> ELSE step[n][f[n - 1]]
    BY <1>4 DEF ByRecursion
  <2> QED
    BY <1>3, <2>1, <2>2
<1>6. upto(f)
  <2>1. f = [n \in 0 .. m |-> f[n]]
    OBVIOUS
  <2> QED
    BY <1>5, <2>1
<1>7. upto(F)
  <2> HIDE DEF upto
  <2> QED
    BY <1>6
<1>8. Of(way) = F[m]
  BY Zenon DEF Of, m
<1> HIDE DEF F
<1>9. \A n \in 0 .. m : F[n] =
        IF n = 0 THEN <<>> ELSE IF Is(n, way) THEN Append(F[n - 1], n) ELSE F[n - 1]
  BY <1>7
<1> HIDE DEF upto
<1> DEFINE Good == {n \in Nat : n <= m => Selected(F[n], way, n)}
<1>10. 0 \in Good
  <2>1. F[0] = <<>>
    BY <1>1, <1>9
  <2>2. <<>> \in Seq(Nat) /\ Len(<<>>) = 0 /\ DOMAIN <<>> = {}
    OBVIOUS
  <2>3. Selected(<<>>, way, 0)
    BY <2>2 DEF Selected
  <2> QED
    BY <2>1, <2>3
<1>11. ASSUME NEW n \in Nat, n \in Good PROVE n + 1 \in Good
  <2> SUFFICES ASSUME n + 1 <= m PROVE Selected(F[n + 1], way, n + 1)
    OBVIOUS
  <2>1. Selected(F[n], way, n)
    BY <1>1, <1>11
  <2>2. F[n + 1] = IF Is(n + 1, way) THEN Append(F[n], n + 1) ELSE F[n]
    <3>1. n + 1 \in 0 .. m /\ n + 1 # 0 /\ (n + 1) - 1 = n
      BY <1>1
    <3> QED
      BY <1>9, <3>1
  <2>3. CASE Is(n + 1, way)
    <3> DEFINE s == F[n]
               t == Append(s, n + 1)
    <3>1. /\ t \in Seq(Nat) /\ Len(t) = Len(s) + 1 /\ DOMAIN t = 1 .. Len(s) + 1
          /\ t[Len(s) + 1] = n + 1 /\ \A j \in 1 .. Len(s) : t[j] = s[j]
          /\ DOMAIN s = 1 .. Len(s) /\ Len(s) \in Nat
      BY <2>1 DEF Selected
    <3> HIDE DEF t
    <3>a. \A j \in 1 .. Len(s) : s[j] \in 1 .. n /\ Is(s[j], way)
      BY <2>1, <3>1 DEF Selected
    <3>b. Len(s) <= n /\ \A j, k \in 1 .. Len(s) : j < k => s[j] < s[k]
      BY <2>1, <3>1 DEF Selected
    <3> HIDE DEF s
    <3>2. Selected(t, way, n + 1)
      <4>1. ASSUME NEW j \in DOMAIN t PROVE t[j] \in 1 .. n + 1 /\ Is(t[j], way)
        <5>1. CASE j \in 1 .. Len(s)
          <6>1. t[j] = s[j] /\ s[j] \in 1 .. n /\ s[j] \in 1 .. n + 1 /\ Is(s[j], way)
            BY <3>1, <3>a, <5>1
          <6> QED
            BY <6>1
        <5>2. CASE j = Len(s) + 1
          BY <2>3, <3>1, <5>2
        <5> QED
          BY <3>1, <5>1, <5>2
      <4>2. ASSUME NEW j \in DOMAIN t, NEW k \in DOMAIN t, j < k PROVE t[j] < t[k]
        <5>1. j \in 1 .. Len(s) /\ t[j] = s[j] /\ s[j] \in 1 .. n
          BY <3>1, <3>a, <4>2
        <5>2. CASE k \in 1 .. Len(s)
          <6>1. t[k] = s[k] /\ s[j] < s[k]
            BY <3>1, <3>b, <4>2, <5>1, <5>2
          <6> QED
            BY <5>1, <6>1
        <5>3. CASE k = Len(s) + 1
          BY <3>1, <5>1, <5>3
        <5> QED
          BY <3>1, <5>2, <5>3
      <4> QED
        BY <3>1, <3>b, <4>1, <4>2 DEF Selected
    <3> QED
      BY <2>2, <2>3, <3>2 DEF s, t
  <2>4. CASE ~Is(n + 1, way)
    BY <2>1, <2>2, <2>4 DEF Selected
  <2> QED
    BY <2>3, <2>4
<1>12. Nat \subseteq Good
  <2> HIDE DEF Good
  <2> QED
    BY <1>10, <1>11, Induction
<1>13. m \in Good
  BY <1>1, <1>12
<1> QED
  BY <1>1, <1>8, <1>13 DEF m

-----------------------------------------------------------------------------
(* The parameters that the compiler accepts, and their words. *)

WireWord == Nat \X Nat \X {"n", "w", "hi", "lo", "s"} \X Nat

Regroups(a, b, c) == (a \o b) \o c = a \o (b \o c)

\* Joining is associative for the words of the wire, whatever three lists of
\* them are joined.
LEMMA WordsRegroup ==
  \A x, y, z \in Seq(WireWord) : Regroups(x, y, z)
  BY JoinAssociative DEF Regroups

Accepted(i) == i \in DOMAIN params /\ ~RefusedParameter(type(i), Is(i, "request"))

Plain(i) == is_single(type(i)) /\ ~is_blob(type(i))

\* What remains: single values other than strings, strings, and arrays with a
\* length of integers or structures.
LEMMA Kinds ==
  ASSUME params \in Seq(Parameters), NEW i, Accepted(i)
  PROVE  /\ type(i).xdr_size \in Nat /\ type(i).xdr_size % 4 = 0 /\ type(i).xdr_size # 0
         /\ count(i) \in Nat /\ i \in Nat
         /\ ~is_array(type(i)) /\ (is_single(type(i)) \/ is_bulk(type(i)))
         /\ is_int(type(i)) \/ is_struct(type(i)) \/ is_blob(type(i))
         /\ is_bulk(type(i)) => ~is_blob(type(i))
         /\ type(i).basic = "int32" => type(i).xdr_size = 4
         /\ type(i).basic = "int64" => type(i).xdr_size = 8
         /\ is_blob(type(i)) => type(i).xdr_size = 4
         /\ Plain(i) => count(i) = 0
<1>1. i \in Nat /\ params[i] \in Parameters
  BY DEF Accepted
<1> DEFINE p == params[i]
<1>2. /\ p.count \in Nat
      /\ p.typespec.array \in {"single", "fixed", "bulk"}
      /\ p.typespec.basic \in {"int32", "int64", "string", "opaque", "struct"}
      /\ p.typespec.xdr_size \in Nat /\ p.typespec.xdr_size % 4 = 0
      /\ ~is_array(p.typespec) => /\ p.typespec.basic = "int32" => p.typespec.xdr_size = 4
                                  /\ p.typespec.basic = "int64" => p.typespec.xdr_size = 8
                                  /\ is_blob(p.typespec) => p.typespec.xdr_size = 4
      /\ is_single(p.typespec) /\ ~is_blob(p.typespec) => p.count = 0
  BY <1>1, RxgenCodeAssumption
<1>3. /\ ~is_array(p.typespec)
      /\ is_struct(p.typespec) \/ is_bulk(p.typespec) => p.typespec.xdr_size # 0
      /\ ~(is_bulk(p.typespec) /\ is_blob(p.typespec))
  BY DEF Accepted, RefusedParameter, type
<1> HIDE DEF p
<1>4. type(i) = p.typespec /\ count(i) = p.count
  BY DEF type, count, p
<1> QED
  BY <1>1, <1>2, <1>3, <1>4 DEF is_array, is_single, is_bulk, is_int, is_struct, is_blob, is_opaque, Plain

\* The words that items are made of.
LEMMA AWord ==
  ASSUME NEW i \in Nat, NEW k \in Nat
  PROVE  /\ word(i, k, "w") \in WireWord /\ word(i, k, "n") \in WireWord
         /\ word(i, k, "hi") \in WireWord /\ word(i, k, "lo") \in WireWord
         /\ \A j \in Nat : <<i, k, "s", j>> \in WireWord
<1>1. ASSUME NEW part \in {"n", "w", "hi", "lo", "s"}, NEW j \in Nat
      PROVE  <<i, k, part, j>> \in WireWord
  BY DEF WireWord
<1>2. 0 \in Nat
  OBVIOUS
<1> QED
  BY <1>1, <1>2 DEF word

\* The words of an item: as many as its type is wide.
LEMMA ItemWidth ==
  ASSUME params \in Seq(Parameters), NEW i, Accepted(i), NEW k \in Nat
  PROVE  /\ ItemWords(i, k) \in Seq(WireWord)
         /\ 4 * Len(ItemWords(i, k)) = type(i).xdr_size
         /\ Len(ItemWords(i, k)) = type(i).xdr_size \div 4
         /\ is_blob(type(i)) => ItemWords(i, k) = <<word(i, k, "w")>>
<1>k. /\ type(i).xdr_size \in Nat /\ type(i).xdr_size % 4 = 0 /\ i \in Nat
      /\ is_int(type(i)) \/ is_struct(type(i)) \/ is_blob(type(i))
      /\ type(i).basic = "int32" => type(i).xdr_size = 4
      /\ type(i).basic = "int64" => type(i).xdr_size = 8
      /\ is_blob(type(i)) => type(i).xdr_size = 4
  BY Kinds
<1>1. CASE is_int(type(i)) /\ type(i).basic = "int32"
  <2>1. ItemWords(i, k) = <<word(i, k, "w")>>
    BY <1>1 DEF ItemWords, is_int, is_struct, is_blob, is_opaque
  <2>2. word(i, k, "w") \in WireWord
    BY <1>k, AWord
  <2> QED
    BY <1>1, <1>k, <2>1, <2>2 DEF is_blob, is_opaque
<1>2. CASE type(i).basic = "int64"
  <2>1. ItemWords(i, k) = <<word(i, k, "hi"), word(i, k, "lo")>>
    BY <1>2 DEF ItemWords, is_int, is_struct, is_blob, is_opaque
  <2>2. word(i, k, "hi") \in WireWord /\ word(i, k, "lo") \in WireWord
    BY <1>k, AWord
  <2> QED
    BY <1>2, <1>k, <2>1, <2>2 DEF is_blob, is_opaque
<1>3. CASE is_struct(type(i))
  <2> DEFINE n == type(i).xdr_size \div 4
  <2>1. ItemWords(i, k) = [j \in 1 .. n |-> <<i, k, "s", j>>]
    BY <1>3, Zenon DEF ItemWords, is_int, is_struct, is_blob, is_opaque
  <2>2. n \in Nat /\ 4 * n = type(i).xdr_size
    BY <1>k
  <2>3. \A j \in 1 .. n : <<i, k, "s", j>> \in WireWord
    BY <1>k, <2>2, AWord
  <2> QED
    BY <1>3, <2>1, <2>2, <2>3 DEF is_struct, is_blob, is_opaque
<1>4. CASE is_blob(type(i))
  <2>1. ItemWords(i, k) = <<word(i, k, "w")>>
    BY <1>4 DEF ItemWords, is_int, is_struct, is_blob, is_opaque
  <2>2. word(i, k, "w") \in WireWord
    BY <1>k, AWord
  <2> QED
    BY <1>4, <1>k, <2>1, <2>2
<1> QED
  BY <1>1, <1>2, <1>3, <1>4, <1>k DEF is_int

ItemsOf(i) == [k \in 1 .. count(i) |-> ItemWords(i, k)]

\* The items of an array or a string are its words joined.
LEMMA ItemsJoin ==
  ASSUME params \in Seq(Parameters), NEW i, Accepted(i)
  PROVE  /\ Items(i, ItemWords) = Joined(ItemsOf(i), count(i))
         /\ \A k \in 1 .. count(i) : ItemsOf(i)[k] \in Seq(WireWord)
         /\ Items(i, ItemWords) \in Seq(WireWord)
<1>1. count(i) \in Nat
  BY Kinds
<1>2. ItemsOf(i) = [k \in 1 .. count(i) |-> ItemsOf(i)[k]]
  BY DEF ItemsOf
<1>3. Items(i, ItemWords) = FlattenSeq(ItemsOf(i))
  BY DEF Items, ItemsOf
<1>4. Items(i, ItemWords) = Joined(ItemsOf(i), count(i))
  BY <1>2, <1>3, Zenon DEF Joined
<1>5. ASSUME NEW k \in 1 .. count(i) PROVE ItemsOf(i)[k] \in Seq(WireWord)
  BY <1>1, ItemWidth DEF ItemsOf
<1> QED
  BY <1>1, <1>4, <1>5, JoinedType

\* What a parameter is on the wire is a sequence of words.
LEMMA WireWidth ==
  ASSUME params \in Seq(Parameters), NEW i, Accepted(i)
  PROVE  Wire(i) \in Seq(WireWord)
<1>1. ItemWords(i, 0) \in Seq(WireWord) /\ Items(i, ItemWords) \in Seq(WireWord)
  BY ItemWidth, ItemsJoin
<1>2. i \in Nat /\ word(i, 0, "n") \in WireWord
  BY Kinds, AWord
<1> DEFINE a == <<word(i, 0, "n")>>
<1>3. a \in Seq(WireWord)
  BY <1>2
<1> HIDE DEF a
<1>4. a \o Items(i, ItemWords) \in Seq(WireWord)
  BY <1>1, <1>3
<1> QED
  BY <1>1, <1>4, Zenon DEF Wire, a

-----------------------------------------------------------------------------
(* Requests. *)

\* The Python wrapper encodes a parameter as XDR.
LEMMA PyEncodes ==
  ASSUME params \in Seq(Parameters), NEW i, Accepted(i)
  PROVE  PyWords(i) = Wire(i)
<1> DEFINE one(k) == IF type(i).basic = "int64" THEN PyInt64Words(i, k) ELSE ItemWords(i, k)
<1>1. ASSUME NEW k PROVE one(k) = ItemWords(i, k)
  <2>1. CASE type(i).basic = "int64"
    BY <2>1 DEF PyInt64Words, ItemWords, is_int, is_struct, is_blob, is_opaque
  <2> QED
    BY <2>1
<1>2. [k \in 1 .. count(i) |-> one(k)] = ItemsOf(i)
  BY <1>1 DEF ItemsOf
<1>3. PyWords(i) = IF is_bulk(type(i)) \/ is_blob(type(i))
                   THEN <<word(i, 0, "n")>> \o FlattenSeq([k \in 1 .. count(i) |-> one(k)])
                   ELSE one(0)
  BY Zenon DEF PyWords, Items
<1>4. Items(i, ItemWords) = FlattenSeq(ItemsOf(i))
  BY DEF Items, ItemsOf
<1>5. is_single(type(i)) \/ is_bulk(type(i))
  BY Kinds
<1>6. ~(is_single(type(i)) /\ is_bulk(type(i)))
  BY DEF is_single, is_bulk
<1> HIDE DEF one
<1>7. PyWords(i) = IF is_bulk(type(i)) \/ is_blob(type(i))
                   THEN <<word(i, 0, "n")>> \o Items(i, ItemWords) ELSE ItemWords(i, 0)
  BY <1>1, <1>2, <1>3, <1>4, Zenon
<1> QED
  BY <1>5, <1>6, <1>7, Zenon DEF Wire

\* So does the C stub, but for 64-bit integers and strings.
LEMMA CEncodes ==
  ASSUME params \in Seq(Parameters), NEW i, Accepted(i), ~Garbled(type(i))
  PROVE  CWords(i) = Wire(i)
<1> DEFINE one(k) == IF type(i).basic = "int64"
                     THEN <<word(i, k, "lo"), word(i, k, "hi")>> ELSE ItemWords(i, k)
<1>1. ASSUME NEW k PROVE one(k) = ItemWords(i, k)
  BY DEF Garbled
<1>2. [k \in 1 .. count(i) |-> one(k)] = ItemsOf(i)
  BY <1>1 DEF ItemsOf
<1>3. CASE is_bulk(type(i))
  <2>1. CWords(i) = <<word(i, 0, "n")>> \o FlattenSeq([k \in 1 .. count(i) |-> one(k)])
    BY <1>3, Zenon DEF CWords, Items, is_single_blob, is_single, is_bulk
  <2>2. Items(i, ItemWords) = FlattenSeq(ItemsOf(i))
    BY DEF Items, ItemsOf
  <2>3. ~is_single(type(i))
    BY <1>3 DEF is_single, is_bulk
  <2> HIDE DEF one
  <2>4. CWords(i) = <<word(i, 0, "n")>> \o Items(i, ItemWords)
    BY <1>2, <2>1, <2>2, Zenon
  <2> QED
    BY <2>3, <2>4, Zenon DEF Wire
<1>4. CASE ~is_bulk(type(i))
  <2>1. is_single(type(i)) /\ ~is_blob(type(i)) /\ ~is_single_blob(type(i))
    BY <1>4, Kinds DEF Garbled, is_single_blob
  <2>2. CWords(i) = one(0)
    BY <1>4, <2>1, Zenon DEF CWords
  <2> HIDE DEF one
  <2>3. CWords(i) = ItemWords(i, 0)
    BY <1>1, <2>2
  <2> QED
    BY <2>1, <2>3, Zenon DEF Wire
<1> QED
  BY <1>3, <1>4

WiresOf(way) == [j \in DOMAIN Of(way) |-> Wire(Of(way)[j])]

\* What is known of the parameters, whatever the stage.
AllAccepted == \A i \in DOMAIN params : ~RefusedParameter(type(i), Is(i, "request"))

\* The parameters of a way, and their words on the wire.
LEMMA OfAccepted ==
  ASSUME params \in Seq(Parameters), AllAccepted, NEW way
  PROVE  /\ Of(way) \in Seq(Nat) /\ Len(Of(way)) \in Nat
         /\ DOMAIN Of(way) = 1 .. Len(Of(way)) /\ Len(Of(way)) <= Len(params)
         /\ \A j \in DOMAIN Of(way) : Accepted(Of(way)[j]) /\ Is(Of(way)[j], way)
         /\ \A j, k \in DOMAIN Of(way) : j # k => Of(way)[j] # Of(way)[k]
         /\ \A j \in 1 .. Len(Of(way)) : WiresOf(way)[j] \in Seq(WireWord)
         /\ WireOf(way) = Joined(WiresOf(way), Len(Of(way)))
<1> DEFINE s == Of(way)
<1>1. Selected(s, way, Len(params))
  BY OfSelects
<1> HIDE DEF s
<1>2. /\ s \in Seq(Nat) /\ Len(s) <= Len(params)
      /\ \A j \in DOMAIN s : s[j] \in 1 .. Len(params) /\ Is(s[j], way)
      /\ \A j, k \in DOMAIN s : j < k => s[j] < s[k]
  BY <1>1 DEF Selected
<1>3. Len(s) \in Nat /\ DOMAIN s = 1 .. Len(s) /\ DOMAIN params = 1 .. Len(params)
  BY <1>2
<1>4. \A j \in DOMAIN s : Accepted(s[j]) /\ Is(s[j], way)
  BY <1>2, <1>3 DEF Accepted, AllAccepted
<1>5. \A j, k \in DOMAIN s : j # k => s[j] # s[k]
  <2> SUFFICES ASSUME NEW j \in DOMAIN s, NEW k \in DOMAIN s, j # k PROVE s[j] # s[k]
    OBVIOUS
  <2>1. s[j] \in Nat /\ s[k] \in Nat /\ (j < k \/ k < j)
    BY <1>2, <1>3
  <2> QED
    BY <1>2, <2>1
<1>6. \A j \in DOMAIN s : Wire(s[j]) \in Seq(WireWord)
  BY <1>4, WireWidth
<1>7. WiresOf(way) = [j \in 1 .. Len(s) |-> Wire(s[j])]
  BY <1>3 DEF WiresOf, s
<1>8. \A j \in 1 .. Len(s) : WiresOf(way)[j] \in Seq(WireWord)
  BY <1>3, <1>6, <1>7
<1>9. WiresOf(way) = [j \in 1 .. Len(s) |-> WiresOf(way)[j]]
  BY <1>7
<1>10. WireOf(way) = FlattenSeq(WiresOf(way))
  BY Zenon DEF WireOf, WiresOf
<1>11. WireOf(way) = Joined(WiresOf(way), Len(s))
  BY <1>9, <1>10, Zenon DEF Joined
<1> QED
  BY <1>2, <1>3, <1>4, <1>5, <1>8, <1>11 DEF s

\* The request so far, and what becomes of it.
EncInv ==
  /\ params \in Seq(Parameters)
  /\ stage \in {"declare", "encode", "decode", "done", "refused", "EINVAL", "hungry"}
  /\ caller \in {"py", "c"} /\ decoder \in Decoders
  /\ stage = "declare" => at = 1 /\ sent = <<>>
  /\ stage \notin {"declare", "refused"} => AllAccepted
  /\ stage = "encode" => /\ at \in 1 .. Len(Of("request")) + 1
                         /\ Garbles \/ sent = Joined(WiresOf("request"), at - 1)
  /\ RequestIsXdr

\* What the steps after the declaration leave alone.
LEMMA SameRequest ==
  ASSUME UNCHANGED <<params, caller>>
  PROVE  /\ AllAccepted' <=> AllAccepted
         /\ Garbles' <=> Garbles
         /\ Of("request")' = Of("request") /\ WiresOf("request")' = WiresOf("request")
         /\ WireOf("request")' = WireOf("request")
<1>1. \A i, way : (Is(i, way))' <=> Is(i, way)
  BY DEF Is
<1>2. \A i : type(i)' = type(i)
  BY DEF type
<1>3. AllAccepted' <=> AllAccepted
  BY <1>1, <1>2 DEF AllAccepted
<1>4. Of("request")' = Of("request")
  BY DEF Of, Is
<1>5. Garbles' <=> Garbles
  BY <1>2, <1>4 DEF Garbles, Some
<1>6. \A i : Wire(i)' = Wire(i)
  BY DEF Wire, Items, ItemWords, type, count
<1>7. WiresOf("request")' = WiresOf("request")
  BY <1>4, <1>6 DEF WiresOf
<1>8. WireOf("request")' = WireOf("request")
  BY <1>4, <1>6 DEF WireOf
<1> QED
  BY <1>3, <1>4, <1>5, <1>7, <1>8

\* Nothing is encoded at first.
THEOREM EncInvInit == CallInit => EncInv
  BY DEF CallInit, EncInv, RequestIsXdr

\* The steps of the decoders, and those that do nothing.
DecodeStep ==
  \/ \E form \in {"flat", "blob", "bulk"} : Starve(form)
  \/ DecodeFlat
  \/ \E form \in {"blob", "bulk"} : SkipPhase(form)
  \/ DecodeBlob \/ DecodeItem \/ Decoded

\* What a decoder leaves alone.
LEMMA DecodeLeaves ==
  ASSUME DecodeStep
  PROVE  /\ stage = "decode" /\ stage' \in {"decode", "done", "hungry"}
         /\ UNCHANGED <<params, caller, decoder, sent>>
<1>1. ASSUME NEW form, Starve(form)
      PROVE  stage = "decode" /\ stage' = "hungry" /\ UNCHANGED <<params, caller, decoder, sent>>
  BY <1>1 DEF Starve, Running
<1>2. CASE DecodeFlat
  BY <1>2 DEF DecodeFlat, Running
<1>3. ASSUME NEW form, SkipPhase(form)
      PROVE  stage = "decode" /\ stage' = "decode" /\ UNCHANGED <<params, caller, decoder, sent>>
  BY <1>3 DEF SkipPhase, Running
<1>4. CASE DecodeBlob
  BY <1>4 DEF DecodeBlob, Running
<1>5. CASE DecodeItem
  BY <1>5 DEF DecodeItem, Running
<1>6. CASE Decoded
  BY <1>6 DEF Decoded
<1> QED
  BY <1>1, <1>2, <1>3, <1>4, <1>5, <1>6 DEF DecodeStep

\* Every step keeps to what is known of the request: each encoder appends the
\* words of the parameter, or is a stub that garbles it.
THEOREM EncInvStep == EncInv /\ [CallNext]_callVars => EncInv'
<1> SUFFICES ASSUME EncInv, [CallNext]_callVars PROVE EncInv'
  OBVIOUS
<1>0. UNCHANGED <<params, caller>> =>
        /\ AllAccepted' <=> AllAccepted
        /\ Garbles' <=> Garbles
        /\ Of("request")' = Of("request") /\ WiresOf("request")' = WiresOf("request")
        /\ WireOf("request")' = WireOf("request")
  BY SameRequest
<1>1. ASSUME NEW p \in Parameters, Parameter(p) PROVE EncInv'
  BY <1>1 DEF EncInv, Parameter, RequestIsXdr
<1>2. CASE Emit
  <2>1. UNCHANGED <<params, caller, decoder, at, sent>>
    BY <1>2 DEF Emit
  <2>2. CASE \E i \in DOMAIN params : RefusedParameter(type(i), Is(i, "request"))
    BY <1>2, <2>1, <2>2 DEF Emit, EncInv, RequestIsXdr
  <2>3. CASE AllAccepted
    <3>1. stage' \in {"EINVAL", "encode"}
      BY <1>2, <2>3 DEF Emit, AllAccepted
    <3>2. Len(Of("request")) \in Nat
      BY <2>3, OfAccepted DEF EncInv
    <3>3. at \in 1 .. Len(Of("request")) + 1 /\ at - 1 = 0 /\ sent = <<>>
      BY <1>2, <3>2 DEF Emit, EncInv
    <3>4. sent = Joined(WiresOf("request"), at - 1)
      BY <3>3, JoinedNone
    <3> QED
      BY <1>0, <2>1, <2>3, <3>1, <3>3, <3>4 DEF EncInv, RequestIsXdr
  <2> QED
    BY <2>2, <2>3 DEF AllAccepted
<1>3. CASE EncodeParameter
  <2> DEFINE O == Of("request")
             i == O[at]
             W == WiresOf("request")
  <2>1. /\ stage = "encode" /\ at \in 1 .. Len(O) /\ UNCHANGED <<params, caller, decoder>>
        /\ AllAccepted
    BY <1>3, OfAccepted DEF EncodeParameter, EncInv
  <2>2. /\ Accepted(i) /\ Len(O) \in Nat /\ \A j \in 1 .. Len(O) : W[j] \in Seq(WireWord)
        /\ W[at] = Wire(i) /\ at \in DOMAIN O
    BY <2>1, OfAccepted DEF EncInv, WiresOf
  <2>3. CASE caller = "py" /\ PyRefuses(i)
    <3>1. stage' = "EINVAL" /\ UNCHANGED <<sent, at>>
      BY <1>3, <2>3 DEF EncodeParameter
    <3> QED
      BY <1>0, <2>1, <3>1 DEF EncInv, RequestIsXdr
  <2>4. CASE ~(caller = "py" /\ PyRefuses(i))
    <3>1. /\ sent' = sent \o (IF caller = "py" THEN PyWords(i) ELSE CWords(i))
          /\ at' = at + 1 /\ stage' = "encode"
      BY <1>3, <2>1, <2>4 DEF EncodeParameter
    <3>2. at' \in 1 .. Len(O) + 1 /\ at' - 1 = at /\ at - 1 \in Nat /\ (at - 1) + 1 = at
      BY <2>1, <2>2, <3>1
    <3>3. ASSUME ~Garbles PROVE sent' = Joined(W, at)
      <4>1. (IF caller = "py" THEN PyWords(i) ELSE CWords(i)) = Wire(i)
        <5>1. CASE caller = "py"
          BY <2>2, <5>1, PyEncodes DEF EncInv
        <5>2. CASE caller = "c"
          <6>1. ~Garbled(type(i))
            BY <2>2, <3>3, <5>2 DEF Garbles, Some
          <6> QED
            BY <2>2, <5>2, <6>1, CEncodes DEF EncInv
        <5> QED
          BY <5>1, <5>2 DEF EncInv
      <4>2. sent = Joined(W, at - 1)
        BY <2>1, <3>3 DEF EncInv
      <4>3. \A j \in 1 .. (at - 1) + 1 : W[j] \in Seq(WireWord)
        BY <2>1, <2>2, <3>2
      <4> HIDE DEF W, i
      <4>4. Joined(W, (at - 1) + 1) = Joined(W, at - 1) \o W[(at - 1) + 1]
        BY <3>2, <4>3, JoinedNext
      <4> QED
        BY <2>2, <3>1, <3>2, <4>1, <4>2, <4>4
    <3> QED
      BY <1>0, <2>1, <3>1, <3>2, <3>3 DEF EncInv, RequestIsXdr
  <2> QED
    BY <2>3, <2>4
<1>4. CASE Send
  <2>1. /\ stage = "encode" /\ at = Len(Of("request")) + 1 /\ stage' = "decode"
        /\ UNCHANGED <<params, caller, decoder, sent>> /\ AllAccepted
    BY <1>4 DEF Send, EncInv
  <2>2. Len(Of("request")) \in Nat /\ WireOf("request") = Joined(WiresOf("request"), Len(Of("request")))
    BY <2>1, OfAccepted DEF EncInv
  <2>3. Garbles \/ sent = WireOf("request")
    BY <2>1, <2>2 DEF EncInv
  <2> QED
    BY <1>0, <2>1, <2>3 DEF EncInv, RequestIsXdr
<1>5. CASE DecodeStep
  <2>1. /\ stage = "decode" /\ stage' \in {"decode", "done", "hungry"}
        /\ UNCHANGED <<params, caller, decoder, sent>>
    BY <1>5, DecodeLeaves
  <2> QED
    BY <1>0, <2>1 DEF EncInv, RequestIsXdr
<1>6. CASE UNCHANGED callVars
  BY <1>0, <1>6 DEF callVars, EncInv, RequestIsXdr
<1> QED
  BY <1>1, <1>2, <1>3, <1>4, <1>5, <1>6 DEF CallNext, DecodeStep, CallFinished

\* So it is known always.
THEOREM CallsEncode == CallSpec => []EncInv
  BY EncInvInit, EncInvStep, PTL DEF CallSpec

\* A request is XDR, whatever its parameters are.
THEOREM AlwaysXdr == CallSpec => []RequestIsXdr
<1>1. EncInv => RequestIsXdr
  BY DEF EncInv
<1> QED
  BY <1>1, CallsEncode, PTL

-----------------------------------------------------------------------------
(* The names in the C stub. *)

\* The sender of a stub uses a name it has not declared for arrays of 64-bit
\* integers only.
LEMMA SenderNames ==
  ASSUME NEW i
  PROVE  SendUses(i) \subseteq SendDeclares(i) <=> ~(is_bulk_int(type(i)) /\ type(i).basic = "int64")
<1>0. is_bulk(type(i)) => ~is_single_blob(type(i))
  BY DEF is_bulk, is_single_blob, is_single
<1>1. CASE is_bulk(type(i)) /\ type(i).basic = "int64"
  <2>a. SendUses(i) = {<<"get", i>>, <<"token", i>>, <<"nr", i>>} \cup {<<"", i>>}
    BY <1>0, <1>1 DEF SendUses
  <2>b. SendDeclares(i) = {<<"get", i>>, <<"token", i>>, <<"nr", i>>}
    BY <1>0, <1>1 DEF SendDeclares
  <2>1. <<"", i>> \in SendUses(i) /\ SendDeclares(i) = {<<"get", i>>, <<"token", i>>, <<"nr", i>>}
    BY <2>a, <2>b
  <2>2. <<"", i>> \notin {<<"get", i>>, <<"token", i>>, <<"nr", i>>}
    OBVIOUS
  <2> QED
    BY <1>1, <2>1, <2>2 DEF is_bulk_int, is_int
<1>2. CASE ~(is_bulk(type(i)) /\ type(i).basic = "int64")
  BY <1>0, <1>2 DEF SendUses, SendDeclares, is_bulk_int
<1> QED
  BY <1>1, <1>2

\* The decoder of a stub does so for arrays of integers only.
LEMMA DecoderNames ==
  ASSUME params \in Seq(Parameters), NEW i, Accepted(i)
  PROVE  DecodeUses(i) \subseteq DecodeDeclares(i) <=> ~is_bulk_int(type(i))
<1>0. is_bulk(type(i)) => ~is_single_blob(type(i))
  BY DEF is_bulk, is_single_blob, is_single
<1>1. is_bulk(type(i)) => is_int(type(i)) \/ is_struct(type(i))
  BY Kinds
<1>2. CASE is_bulk(type(i)) /\ is_int(type(i))
  <2>1. ~is_struct(type(i))
    BY <1>2 DEF is_int, is_struct
  <2>a. DecodeUses(i) = {<<"alloc", i>>} \cup {<<"token", i>>, <<"nr", i>>} \cup {<<"store", i>>}
    BY <1>0, <1>2 DEF DecodeUses, BulkEntryUses
  <2>b. DecodeDeclares(i) = {<<"store", i>>, <<"token", i>>, <<"nr", i>>}
    BY <1>0, <1>2, <2>1 DEF DecodeDeclares
  <2>2. /\ <<"alloc", i>> \in DecodeUses(i)
        /\ DecodeDeclares(i) = {<<"store", i>>, <<"token", i>>, <<"nr", i>>}
    BY <2>a, <2>b
  <2>3. <<"alloc", i>> \notin {<<"store", i>>, <<"token", i>>, <<"nr", i>>}
    OBVIOUS
  <2> QED
    BY <1>2, <2>2, <2>3 DEF is_bulk_int
<1>3. CASE is_bulk(type(i)) /\ ~is_int(type(i))
  BY <1>0, <1>1, <1>3 DEF DecodeUses, DecodeDeclares, BulkEntryUses, is_bulk_int
<1>4. CASE ~is_bulk(type(i))
  BY <1>0, <1>4 DEF DecodeUses, DecodeDeclares, is_bulk_int
<1> QED
  BY <1>2, <1>3, <1>4

\* The stub compiles or not for the reasons given, and for no others.
THEOREM AlwaysCompiles == CallSpec => []StubCompiles
<1>1. EncInv => StubCompiles
  <2> SUFFICES ASSUME EncInv, stage = "encode"
               PROVE  (/\ \A j \in DOMAIN Of("request") :
                            SendUses(Of("request")[j]) \subseteq SendDeclares(Of("request")[j])
                       /\ \A j \in DOMAIN Of("response") :
                            DecodeUses(Of("response")[j]) \subseteq DecodeDeclares(Of("response")[j]))
                      <=> ~(\/ Some("response", is_bulk_int)
                            \/ Some("request", LAMBDA ty : is_bulk_int(ty) /\ ty.basic = "int64"))
    BY Zenon DEF StubCompiles
  <2>1. \A j \in DOMAIN Of("response") : Accepted(Of("response")[j])
    BY OfAccepted DEF EncInv
  <2>2. \A j \in DOMAIN Of("response") :
          DecodeUses(Of("response")[j]) \subseteq DecodeDeclares(Of("response")[j])
            <=> ~is_bulk_int(type(Of("response")[j]))
    BY <2>1, DecoderNames DEF EncInv
  <2>3. \A j \in DOMAIN Of("request") :
          SendUses(Of("request")[j]) \subseteq SendDeclares(Of("request")[j])
            <=> ~(is_bulk_int(type(Of("request")[j])) /\ type(Of("request")[j]).basic = "int64")
    BY SenderNames
  <2>4. Some("response", is_bulk_int)
          <=> \E j \in DOMAIN Of("response") : is_bulk_int(type(Of("response")[j]))
    BY Zenon DEF Some
  <2>5. Some("request", LAMBDA ty : is_bulk_int(ty) /\ ty.basic = "int64")
          <=> \E j \in DOMAIN Of("request") :
                is_bulk_int(type(Of("request")[j])) /\ type(Of("request")[j]).basic = "int64"
    BY Zenon DEF Some
  <2> QED
    BY <2>2, <2>3, <2>4, <2>5, Zenon
<1> QED
  BY <1>1, CallsEncode, PTL

-----------------------------------------------------------------------------
(* The phases of a decoder. *)

PhaseEntry == [i : Nat, special : {"", "bulk", "blob"}]
DecodePhase == [form : {"flat", "bulk", "blob"}, size : Nat, params : Seq(PhaseEntry)]

EntryWords(p) == IF p.special # "" THEN <<word(p.i, 0, "n")>> ELSE ItemWords(p.i, 0)
EntryList(ps) == [n \in DOMAIN ps |-> EntryWords(ps[n])]
PhaseWords(ph) ==
  IF ph.form = "flat" THEN Joined(EntryList(ph.params), Len(ph.params))
  ELSE Items(ph.params[1].i, ItemWords)
WordList(P) == [k \in DOMAIN P |-> PhaseWords(P[k])]
AllWords(P) == Joined(WordList(P), Len(P))

GoodEntry(p) == Accepted(p.i) /\ (p.special = "" <=> Plain(p.i))
GoodFlat(ph) ==
  /\ ph.form = "flat" /\ ph.size = 4 * Len(PhaseWords(ph))
  /\ \A n \in DOMAIN ph.params : GoodEntry(ph.params[n])
GoodLong(ph) ==
  LET i == ph.params[1].i
  IN  /\ ph.form # "flat" /\ Len(ph.params) = 1 /\ ph.params[1].special = ""
      /\ Accepted(i) /\ ~Plain(i)
      /\ ph.form = (IF is_bulk(type(i)) THEN "bulk" ELSE "blob")
      /\ ph.size = type(i).xdr_size

\* The phase ends with the count of i, and the phase holds i itself.
Counts(ph, i) == ph.form = "flat" /\ \E n \in DOMAIN ph.params :
                   ph.params[n].i = i /\ ph.params[n].special # ""
Holds(ph, i) == \E n \in DOMAIN ph.params : ph.params[n].i = i /\ ph.params[n].special = ""

\* The phases P are sound, name only the parameters S, and hold H.
Shape(P, S, H) ==
  /\ P \in Seq(DecodePhase)
  /\ \A k \in DOMAIN P : GoodFlat(P[k]) \/ GoodLong(P[k])
  /\ \A k \in DOMAIN P : GoodLong(P[k]) => k > 1 /\ Counts(P[k - 1], P[k].params[1].i)
  /\ \A k \in DOMAIN P : \A n \in DOMAIN P[k].params : P[k].params[n].i \in S
  /\ \A k \in DOMAIN P : \A m, n \in DOMAIN P[k].params :
       P[k].params[m].i = P[k].params[n].i => m = n
  /\ \A k, l \in DOMAIN P : \A i : Holds(P[k], i) /\ Holds(P[l], i) => k = l
  /\ \A i \in H : \E k \in DOMAIN P : Holds(P[k], i)

\* The words of an entry of a flat phase: a value, or a count.
LEMMA EntryWidth ==
  ASSUME params \in Seq(Parameters), NEW p \in PhaseEntry, GoodEntry(p)
  PROVE  /\ EntryWords(p) \in Seq(WireWord)
         /\ 4 * Len(EntryWords(p)) = (IF p.special = "" THEN type(p.i).xdr_size ELSE 4)
<1>1. Accepted(p.i) /\ p.i \in Nat
  BY DEF GoodEntry, PhaseEntry
<1>2. word(p.i, 0, "n") \in WireWord
  BY <1>1, AWord
<1>3. CASE p.special = ""
  BY <1>1, <1>3, ItemWidth DEF EntryWords
<1>4. CASE p.special # ""
  <2> DEFINE w == word(p.i, 0, "n")
  <2>1. EntryWords(p) = <<w>>
    BY <1>4 DEF EntryWords
  <2> HIDE DEF w
  <2>2. <<w>> \in Seq(WireWord) /\ 4 * Len(<<w>>) = 4
    BY <1>2 DEF w
  <2> QED
    BY <1>4, <2>1, <2>2
<1> QED
  BY <1>3, <1>4

\* The words of a list of parameters, and with one more.
LEMMA EntryListType ==
  ASSUME params \in Seq(Parameters), NEW ps \in Seq(PhaseEntry),
         \A n \in DOMAIN ps : GoodEntry(ps[n])
  PROVE  /\ \A n \in 1 .. Len(ps) : EntryList(ps)[n] \in Seq(WireWord)
         /\ Joined(EntryList(ps), Len(ps)) \in Seq(WireWord)
<1>1. ASSUME NEW n \in 1 .. Len(ps) PROVE EntryList(ps)[n] \in Seq(WireWord)
  <2>1. n \in DOMAIN ps /\ ps[n] \in PhaseEntry /\ GoodEntry(ps[n])
    OBVIOUS
  <2>2. EntryList(ps)[n] = EntryWords(ps[n])
    BY <2>1 DEF EntryList
  <2> QED
    BY <2>1, <2>2, EntryWidth
<1> QED
  BY <1>1, JoinedType

\* The words of a list of parameters with one more.
LEMMA OneMoreEntry ==
  ASSUME params \in Seq(Parameters), NEW ps \in Seq(PhaseEntry), NEW p \in PhaseEntry,
         \A n \in DOMAIN ps : GoodEntry(ps[n]), GoodEntry(p)
  PROVE  Joined(EntryList(Append(ps, p)), Len(ps) + 1)
           = Joined(EntryList(ps), Len(ps)) \o EntryWords(p)
<1> DEFINE m == Len(ps)
           qs == Append(ps, p)
<1>1. /\ m \in Nat /\ qs \in Seq(PhaseEntry) /\ Len(qs) = m + 1 /\ DOMAIN qs = 1 .. m + 1
      /\ qs[m + 1] = p /\ \A n \in 1 .. m : qs[n] = ps[n]
      /\ DOMAIN ps = 1 .. m
  OBVIOUS
<1> HIDE DEF qs, m
<1>2. \A n \in DOMAIN qs : GoodEntry(qs[n])
  BY <1>1
<1>3. \A n \in 1 .. m + 1 : EntryList(qs)[n] \in Seq(WireWord)
  BY <1>1, <1>2, EntryListType
<1>4. Joined(EntryList(qs), m + 1) = Joined(EntryList(qs), m) \o EntryList(qs)[m + 1]
  BY <1>1, <1>3, JoinedNext
<1>5. \A n \in 1 .. m : EntryList(qs)[n] = EntryList(ps)[n]
  BY <1>1 DEF EntryList
<1>6. Joined(EntryList(qs), m) = Joined(EntryList(ps), m)
  BY <1>1, <1>5, JoinedSame
<1>7. EntryList(qs)[m + 1] = EntryWords(p)
  BY <1>1 DEF EntryList
<1> QED
  BY <1>4, <1>6, <1>7 DEF qs, m

\* What a phase takes are words.
LEMMA PhaseWordsType ==
  ASSUME params \in Seq(Parameters), NEW ph \in DecodePhase, GoodFlat(ph) \/ GoodLong(ph)
  PROVE  PhaseWords(ph) \in Seq(WireWord)
<1>1. CASE GoodFlat(ph)
  <2>1. ph.params \in Seq(PhaseEntry) /\ \A n \in DOMAIN ph.params : GoodEntry(ph.params[n])
    BY <1>1 DEF GoodFlat, DecodePhase
  <2>2. PhaseWords(ph) = Joined(EntryList(ph.params), Len(ph.params))
    BY <1>1 DEF PhaseWords, GoodFlat
  <2> QED
    BY <2>1, <2>2, EntryListType
<1>2. CASE GoodLong(ph)
  BY <1>2, ItemsJoin DEF GoodLong, PhaseWords
<1> QED
  BY <1>1, <1>2

\* One more phase.
LEMMA OneMorePhase ==
  ASSUME params \in Seq(Parameters), NEW P \in Seq(DecodePhase), NEW ph \in DecodePhase,
         \A k \in DOMAIN P : GoodFlat(P[k]) \/ GoodLong(P[k]), GoodFlat(ph) \/ GoodLong(ph)
  PROVE  /\ AllWords(P) \in Seq(WireWord)
         /\ AllWords(Append(P, ph)) = AllWords(P) \o PhaseWords(ph)
<1> DEFINE m == Len(P)
           Q == Append(P, ph)
<1>1. /\ m \in Nat /\ Q \in Seq(DecodePhase) /\ Len(Q) = m + 1 /\ DOMAIN Q = 1 .. m + 1
      /\ Q[m + 1] = ph /\ \A n \in 1 .. m : Q[n] = P[n]
      /\ DOMAIN P = 1 .. m
  OBVIOUS
<1> HIDE DEF Q, m
<1>2. \A k \in 1 .. m + 1 : Q[k] \in DecodePhase /\ (GoodFlat(Q[k]) \/ GoodLong(Q[k]))
  BY <1>1
<1>3. \A k \in 1 .. m + 1 : WordList(Q)[k] \in Seq(WireWord)
  BY <1>1, <1>2, PhaseWordsType DEF WordList
<1>4. /\ Joined(WordList(Q), m) \in Seq(WireWord)
      /\ Joined(WordList(Q), m + 1) = Joined(WordList(Q), m) \o WordList(Q)[m + 1]
  BY <1>1, <1>3, JoinedNext
<1>5. \A n \in 1 .. m : WordList(Q)[n] = WordList(P)[n]
  BY <1>1 DEF WordList
<1>6. Joined(WordList(Q), m) = Joined(WordList(P), m)
  BY <1>1, <1>5, JoinedSame
<1>7. WordList(Q)[m + 1] = PhaseWords(ph)
  BY <1>1 DEF WordList
<1>8. AllWords(P) = Joined(WordList(P), m) /\ AllWords(Q) = Joined(WordList(Q), m + 1)
  BY <1>1 DEF AllWords, m
<1> QED
  BY <1>4, <1>6, <1>7, <1>8 DEF Q

\* Each parameter is named once in a phase, and is one of S.
Neat(ph, S) ==
  /\ \A n \in DOMAIN ph.params : ph.params[n].i \in S
  /\ \A m, n \in DOMAIN ph.params : ph.params[m].i = ph.params[n].i => m = n

\* Sound phases and one more.
LEMMA ShapeAppend ==
  ASSUME NEW P, NEW S, NEW H, Shape(P, S, H), NEW ph \in DecodePhase,
         GoodFlat(ph) \/ GoodLong(ph), Neat(ph, S),
         GoodLong(ph) => Len(P) # 0 /\ Counts(P[Len(P)], ph.params[1].i),
         \A i : \A k \in DOMAIN P : ~(Holds(P[k], i) /\ Holds(ph, i)),
         NEW G, \A i \in G : i \in H \/ Holds(ph, i)
  PROVE  Shape(Append(P, ph), S, G)
<1> DEFINE m == Len(P)
           Q == Append(P, ph)
<1>1. P \in Seq(DecodePhase)
  BY DEF Shape
<1>2. /\ m \in Nat /\ Q \in Seq(DecodePhase) /\ DOMAIN Q = 1 .. m + 1
      /\ Q[m + 1] = ph /\ \A n \in 1 .. m : Q[n] = P[n]
      /\ DOMAIN P = 1 .. m
  BY <1>1
<1> HIDE DEF Q
<1>3. \A k \in DOMAIN Q : GoodFlat(Q[k]) \/ GoodLong(Q[k])
  BY <1>2 DEF Shape
<1>4. ASSUME NEW k \in DOMAIN Q, GoodLong(Q[k])
      PROVE  k > 1 /\ Counts(Q[k - 1], Q[k].params[1].i)
  <2>1. CASE k \in 1 .. m
    <3>1. Q[k] = P[k] /\ k > 1 /\ Counts(P[k - 1], P[k].params[1].i)
      BY <1>2, <1>4, <2>1 DEF Shape
    <3>2. k - 1 \in 1 .. m
      BY <1>2, <2>1, <3>1
    <3> QED
      BY <1>2, <3>1, <3>2
  <2>2. CASE k = m + 1
    <3>1. Q[k] = ph /\ m # 0 /\ Counts(P[m], ph.params[1].i)
      BY <1>2, <1>4, <2>2
    <3>2. k - 1 = m /\ m \in 1 .. m /\ k > 1
      BY <1>2, <2>2, <3>1
    <3> QED
      BY <1>2, <3>1, <3>2
  <2> QED
    BY <1>2, <2>1, <2>2
<1>5. ASSUME NEW k \in DOMAIN Q PROVE Neat(Q[k], S)
  <2>1. CASE k \in 1 .. m
    BY <1>2, <2>1 DEF Shape, Neat
  <2>2. CASE k = m + 1
    BY <1>2, <2>2
  <2> QED
    BY <1>2, <2>1, <2>2
<1>6. ASSUME NEW k \in DOMAIN Q, NEW l \in DOMAIN Q, NEW i, Holds(Q[k], i), Holds(Q[l], i)
      PROVE  k = l
  <2>1. k \in 1 .. m \/ k = m + 1
    BY <1>2
  <2>2. l \in 1 .. m \/ l = m + 1
    BY <1>2
  <2>3. CASE k \in 1 .. m /\ l \in 1 .. m
    BY <1>2, <1>6, <2>3 DEF Shape
  <2> QED
    BY <1>2, <1>6, <2>1, <2>2, <2>3
<1>7. ASSUME NEW i \in G PROVE \E k \in DOMAIN Q : Holds(Q[k], i)
  <2>1. CASE Holds(ph, i)
    <3>1. m + 1 \in DOMAIN Q
      BY <1>2
    <3> QED
      BY <1>2, <2>1, <3>1
  <2>2. CASE i \in H
    <3>1. PICK k \in DOMAIN P : Holds(P[k], i)
      BY <2>2 DEF Shape
    <3>2. k \in DOMAIN Q /\ Q[k] = P[k]
      BY <1>2
    <3> QED
      BY <3>1, <3>2
  <2> QED
    BY <2>1, <2>2
<1> QED
  BY <1>2, <1>3, <1>4, <1>5, <1>6, <1>7 DEF Shape, Neat, Q

\* Sound phases but for the last, which is flat.
LEMMA ShapeFront ==
  ASSUME NEW P, NEW S, NEW H, Shape(P, S, H), Len(P) # 0
  PROVE  /\ Shape(Front(P), S, {i \in H : ~Holds(Last(P), i)})
         /\ Last(P) \in DecodePhase /\ Neat(Last(P), S)
         /\ \A i : \A k \in DOMAIN Front(P) : ~(Holds(Front(P)[k], i) /\ Holds(Last(P), i))
         /\ P = Append(Front(P), Last(P))
<1> DEFINE m == Len(P) - 1
           Q == Front(P)
<1>1. P \in Seq(DecodePhase)
  BY DEF Shape
<1>2. /\ m \in Nat /\ Q \in Seq(DecodePhase) /\ DOMAIN Q = 1 .. m /\ DOMAIN P = 1 .. m + 1
      /\ Last(P) = P[m + 1] /\ \A n \in 1 .. m : Q[n] = P[n]
      /\ P[m + 1] \in DecodePhase
  BY <1>1 DEF Front, Last
<1>3. P = Append(Front(P), Last(P))
  BY <1>1 DEF Front, Last
<1> HIDE DEF Q, m
<1>4. Neat(Last(P), S)
  BY <1>2 DEF Shape, Neat
<1>5. \A i : \A k \in DOMAIN Q : ~(Holds(Q[k], i) /\ Holds(Last(P), i))
  <2> SUFFICES ASSUME NEW i, NEW k \in DOMAIN Q, Holds(Q[k], i), Holds(Last(P), i) PROVE FALSE
    OBVIOUS
  <2>1. k \in DOMAIN P /\ m + 1 \in DOMAIN P /\ k # m + 1 /\ Q[k] = P[k]
    BY <1>2
  <2> QED
    BY <1>2, <2>1 DEF Shape
<1>6. Shape(Q, S, {i \in H : ~Holds(Last(P), i)})
  <2>1. \A k \in DOMAIN Q : k \in DOMAIN P /\ Q[k] = P[k]
    BY <1>2
  <2>2. ASSUME NEW k \in DOMAIN Q, GoodLong(Q[k])
        PROVE  k > 1 /\ Counts(Q[k - 1], Q[k].params[1].i)
    <3>1. k > 1 /\ Counts(P[k - 1], Q[k].params[1].i)
      BY <2>1, <2>2 DEF Shape
    <3>2. k - 1 \in DOMAIN Q
      BY <1>2, <3>1
    <3> QED
      BY <2>1, <3>1, <3>2
  <2>3. ASSUME NEW i \in H, ~Holds(Last(P), i) PROVE \E k \in DOMAIN Q : Holds(Q[k], i)
    <3>1. PICK k \in DOMAIN P : Holds(P[k], i)
      BY DEF Shape
    <3>2. k \in DOMAIN Q
      BY <1>2, <2>3, <3>1
    <3> QED
      BY <2>1, <3>1, <3>2
  <2>4. \A k \in DOMAIN Q : GoodFlat(Q[k]) \/ GoodLong(Q[k])
    BY <2>1 DEF Shape
  <2>5. \A k \in DOMAIN Q : Neat(Q[k], S)
    BY <2>1 DEF Shape, Neat
  <2>6. \A k, l \in DOMAIN Q : \A i : Holds(Q[k], i) /\ Holds(Q[l], i) => k = l
    BY <2>1 DEF Shape
  <2> QED
    BY <1>2, <2>2, <2>3, <2>4, <2>5, <2>6 DEF Shape, Neat
<1> QED
  BY <1>2, <1>3, <1>4, <1>5, <1>6 DEF Q

\* What more can be named by sound phases.
LEMMA ShapeMore ==
  ASSUME NEW P, NEW S, NEW H, Shape(P, S, H), NEW R, S \subseteq R
  PROVE  Shape(P, R, H)
<1>1. \A k \in DOMAIN P : \A n \in DOMAIN P[k].params : P[k].params[n].i \in R
  BY DEF Shape
<1> QED
  BY <1>1, Zenon DEF Shape

\* The phase to which the next parameter goes, and the phases before it.
OpenFlat(P) == IF Open(P) THEN Last(P) ELSE Phase("flat", 0, <<>>)
Before(P) == IF Open(P) THEN Front(P) ELSE P

\* The flat phase that is open when a parameter comes, and those before it.
LEMMA OpenPhase ==
  ASSUME params \in Seq(Parameters), NEW P, NEW S, NEW H, Shape(P, S, H)
  PROVE  /\ OpenFlat(P) \in DecodePhase /\ GoodFlat(OpenFlat(P)) /\ Neat(OpenFlat(P), S)
         /\ \E G : /\ Shape(Before(P), S, G)
                   /\ \A i \in H : i \in G \/ Holds(OpenFlat(P), i)
         /\ \A i : \A k \in DOMAIN Before(P) : ~(Holds(Before(P)[k], i) /\ Holds(OpenFlat(P), i))
         /\ AllWords(P) = AllWords(Before(P)) \o PhaseWords(OpenFlat(P))
         /\ Before(P) \in Seq(DecodePhase) /\ Len(Before(P)) \in Nat /\ Len(Before(P)) <= Len(P)
         /\ AllWords(Before(P)) \in Seq(WireWord)
<1>0. P \in Seq(DecodePhase) /\ \A k \in DOMAIN P : GoodFlat(P[k]) \/ GoodLong(P[k])
  BY DEF Shape
<1>1. CASE Open(P)
  <2>1. P # <<>> /\ Len(P) # 0 /\ Last(P).form = "flat" /\ Last(P) = P[Len(P)] /\ Len(P) \in DOMAIN P
    BY <1>0, <1>1 DEF Open, Last
  <2>2. GoodFlat(Last(P))
    BY <1>0, <2>1 DEF GoodLong
  <2> DEFINE Q == Front(P)
             ph == Last(P)
  <2>3. /\ Shape(Q, S, {i \in H : ~Holds(ph, i)})
        /\ ph \in DecodePhase /\ Neat(ph, S)
        /\ \A i : \A k \in DOMAIN Q : ~(Holds(Q[k], i) /\ Holds(ph, i))
        /\ P = Append(Q, ph)
    BY <2>1, ShapeFront
  <2>4. Before(P) = Q /\ OpenFlat(P) = ph
    BY <1>1 DEF Before, OpenFlat
  <2>5. Len(Q) \in Nat /\ Len(Q) <= Len(P)
    BY <1>0, <2>1 DEF Front
  <2> HIDE DEF Q, ph
  <2>6. Q \in Seq(DecodePhase) /\ \A k \in DOMAIN Q : GoodFlat(Q[k]) \/ GoodLong(Q[k])
    BY <2>3 DEF Shape
  <2>7. AllWords(Q) \in Seq(WireWord) /\ AllWords(Append(Q, ph)) = AllWords(Q) \o PhaseWords(ph)
    BY <2>2, <2>3, <2>6, OneMorePhase DEF ph
  <2>8. AllWords(P) = AllWords(Q) \o PhaseWords(ph)
    BY <2>3, <2>7
  <2>9. \E G : Shape(Q, S, G) /\ \A i \in H : i \in G \/ Holds(ph, i)
    <3>1. \A i \in H : i \in {j \in H : ~Holds(ph, j)} \/ Holds(ph, i)
      OBVIOUS
    <3> QED
      BY <2>3, <3>1
  <2>10. GoodFlat(ph)
    BY <2>2 DEF ph
  <2> QED
    BY <2>3, <2>4, <2>5, <2>6, <2>7, <2>8, <2>9, <2>10
<1>2. CASE ~Open(P)
  <2> DEFINE ph == Phase("flat", 0, <<>>)
  <2>1. Before(P) = P /\ OpenFlat(P) = ph
    BY <1>2 DEF Before, OpenFlat
  <2>2. /\ ph.form = "flat" /\ ph.size = 0 /\ ph.params = <<>>
        /\ <<>> \in Seq(PhaseEntry) /\ DOMAIN ph.params = {} /\ Len(<<>>) = 0
    BY DEF Phase
  <2>3. ph \in DecodePhase
    BY DEF Phase, DecodePhase
  <2> HIDE DEF ph
  <2>4. PhaseWords(ph) = <<>>
    BY <2>2, JoinedNone DEF PhaseWords
  <2>5. GoodFlat(ph)
    BY <2>2, <2>4 DEF GoodFlat
  <2>6. Neat(ph, S) /\ \A i : ~Holds(ph, i)
    BY <2>2 DEF Neat, Holds
  <2>7. AllWords(P) \in Seq(WireWord)
    BY <1>0, <2>3, <2>5, OneMorePhase
  <2>8. AllWords(P) = AllWords(P) \o <<>>
    BY <2>7
  <2>9. \E G : Shape(P, S, G) /\ \A i \in H : i \in G \/ Holds(ph, i)
    OBVIOUS
  <2> QED
    BY <1>0, <2>1, <2>3, <2>4, <2>5, <2>6, <2>7, <2>8, <2>9
<1> QED
  BY <1>1, <1>2

\* A parameter more in a flat phase.
LEMMA Extended ==
  ASSUME params \in Seq(Parameters), NEW ph \in DecodePhase, GoodFlat(ph), NEW S, Neat(ph, S),
         NEW p \in PhaseEntry, GoodEntry(p), p.i \notin S,
         NEW size \in Nat, size = 4 * Len(EntryWords(p))
  PROVE  LET X == Extend(ph, size, p)
         IN  /\ X \in DecodePhase /\ GoodFlat(X) /\ Neat(X, S \cup {p.i})
             /\ PhaseWords(X) = PhaseWords(ph) \o EntryWords(p)
             /\ \A i : Holds(X, i) <=> Holds(ph, i) \/ (i = p.i /\ p.special = "")
             /\ p.special # "" => Counts(X, p.i)
<1> DEFINE X == Extend(ph, size, p)
           ps == ph.params
           qs == Append(ps, p)
           m == Len(ps)
<1>1. /\ ph.form = "flat" /\ ph.size = 4 * Len(PhaseWords(ph)) /\ ph.size \in Nat
      /\ ps \in Seq(PhaseEntry) /\ \A n \in DOMAIN ps : GoodEntry(ps[n])
  BY DEF GoodFlat, DecodePhase
<1>3. /\ X.form = "flat" /\ X.size = ph.size + size /\ X.params = qs
      /\ X = [form |-> "flat", size |-> ph.size + size, params |-> qs]
  BY DEF Extend, Phase
<1>5. PhaseWords(ph) = Joined(EntryList(ps), m) /\ PhaseWords(ph) \in Seq(WireWord)
  BY <1>1, PhaseWordsType DEF PhaseWords
<1>a. Neat(ph, S) => /\ \A n \in DOMAIN ps : ps[n].i \in S
                     /\ \A k, n \in DOMAIN ps : ps[k].i = ps[n].i => k = n
  BY DEF Neat
<1>b. \A i : Holds(ph, i) <=> \E n \in DOMAIN ps : ps[n].i = i /\ ps[n].special = ""
  BY DEF Holds
<1> HIDE DEF ps, X
<1>2. /\ qs \in Seq(PhaseEntry) /\ DOMAIN qs = 1 .. m + 1 /\ Len(qs) = m + 1 /\ m \in Nat
      /\ DOMAIN ps = 1 .. m
      /\ qs[m + 1] = p /\ \A n \in 1 .. m : qs[n] = ps[n]
  BY <1>1
<1>4. EntryWords(p) \in Seq(WireWord) /\ 4 * Len(EntryWords(p)) = size
  BY EntryWidth
<1> HIDE DEF m, qs
<1>6. PhaseWords(X) = Joined(EntryList(qs), m + 1)
  BY <1>2, <1>3 DEF PhaseWords
<1>7. PhaseWords(X) = PhaseWords(ph) \o EntryWords(p)
  BY <1>1, <1>5, <1>6, OneMoreEntry DEF qs, m
<1>8. Len(PhaseWords(X)) = Len(PhaseWords(ph)) + Len(EntryWords(p))
  BY <1>4, <1>5, <1>7
<1>9. X.size = 4 * Len(PhaseWords(X)) /\ X.size \in Nat
  <2> DEFINE u == Len(PhaseWords(ph))
             v == Len(EntryWords(p))
  <2>1. u \in Nat /\ v \in Nat
    BY <1>4, <1>5
  <2>2. ph.size = 4 * u /\ size = 4 * v /\ X.size = ph.size + size /\ Len(PhaseWords(X)) = u + v
    BY <1>1, <1>3, <1>4, <1>8
  <2> HIDE DEF u, v
  <2> QED
    BY <2>1, <2>2
<1>10. X \in DecodePhase
  BY <1>2, <1>3, <1>9 DEF DecodePhase
<1>11. \A n \in DOMAIN qs : GoodEntry(qs[n])
  BY <1>1, <1>2
<1>12. Neat(X, S \cup {p.i})
  <2>1. \A n \in 1 .. m : ps[n].i \in S
    BY <1>2, <1>a
  <2>2. \A k, n \in 1 .. m : ps[k].i = ps[n].i => k = n
    BY <1>2, <1>a
  <2>3. \A n \in 1 .. m + 1 : n \in 1 .. m \/ n = m + 1
    BY <1>2
  <2>4. \A n \in DOMAIN qs : qs[n].i \in S \cup {p.i}
    BY <1>2, <2>1, <2>3
  <2>5. \A k, n \in DOMAIN qs : qs[k].i = qs[n].i => k = n
    BY <1>2, <2>1, <2>2, <2>3
  <2> QED
    BY <1>3, <2>4, <2>5 DEF Neat
<1>13. ASSUME NEW i PROVE Holds(X, i) <=> Holds(ph, i) \/ (i = p.i /\ p.special = "")
  <2>1. ASSUME Holds(X, i) PROVE Holds(ph, i) \/ (i = p.i /\ p.special = "")
    <3>1. PICK n \in DOMAIN qs : qs[n].i = i /\ qs[n].special = ""
      BY <1>3, <2>1 DEF Holds
    <3>2. n = m + 1 \/ (n \in DOMAIN ps /\ qs[n] = ps[n])
      BY <1>2
    <3> QED
      BY <1>2, <1>b, <3>1, <3>2
  <2>2. ASSUME Holds(ph, i) PROVE Holds(X, i)
    <3>1. PICK n \in 1 .. m : ps[n].i = i /\ ps[n].special = ""
      BY <1>2, <1>b, <2>2
    <3>2. n \in DOMAIN qs /\ qs[n] = ps[n]
      BY <1>2
    <3> QED
      BY <1>3, <3>1, <3>2 DEF Holds
  <2>3. ASSUME i = p.i, p.special = "" PROVE Holds(X, i)
    <3>1. m + 1 \in DOMAIN qs
      BY <1>2
    <3> QED
      BY <1>2, <1>3, <2>3, <3>1 DEF Holds
  <2> QED
    BY <2>1, <2>2, <2>3
<1>14. ASSUME p.special # "" PROVE Counts(X, p.i)
  <2>1. m + 1 \in DOMAIN qs
    BY <1>2
  <2> QED
    BY <1>2, <1>3, <1>14, <2>1 DEF Counts
<1>15. GoodFlat(X)
  BY <1>3, <1>9, <1>11 DEF GoodFlat
<1> QED
  BY <1>7, <1>10, <1>12, <1>13, <1>14, <1>15 DEF X

\* A sequence of one.
LEMMA AloneInSeq == ASSUME NEW S, NEW x \in S PROVE <<x>> \in Seq(S)
  OBVIOUS

\* A parameter more in the phases: its words are added to theirs.
LEMMA ParameterAdded ==
  ASSUME params \in Seq(Parameters), NEW P, NEW S, NEW H, Shape(P, S, H),
         NEW i, Accepted(i), i \notin S
  PROVE  LET Q == AddParameter(P, i)
         IN  /\ Shape(Q, S \cup {i}, H \cup {i}) /\ Len(Q) <= Len(P) + 2
             /\ AllWords(Q) = AllWords(P) \o Wire(i)
<1> DEFINE flat == OpenFlat(P)
           before == Before(P)
           R == S \cup {i}
           form == IF is_bulk(type(i)) THEN "bulk" ELSE "blob"
           itself == [i |-> i, special |-> ""]
           its_count == [i |-> i, special |-> form]
           p == IF Plain(i) THEN itself ELSE its_count
           size == IF Plain(i) THEN type(i).xdr_size ELSE 4
           X == Extend(flat, size, p)
           Y == Phase(form, type(i).xdr_size, <<itself>>)
<1>1. /\ flat \in DecodePhase /\ GoodFlat(flat) /\ Neat(flat, S)
      /\ \A j : \A k \in DOMAIN before : ~(Holds(before[k], j) /\ Holds(flat, j))
      /\ AllWords(P) = AllWords(before) \o PhaseWords(flat)
      /\ before \in Seq(DecodePhase) /\ Len(before) \in Nat /\ Len(before) <= Len(P)
      /\ AllWords(before) \in Seq(WireWord)
  BY OpenPhase
<1>2. PICK G : Shape(before, S, G) /\ \A j \in H : j \in G \/ Holds(flat, j)
  BY OpenPhase
<1>3. i \in Nat /\ type(i).xdr_size \in Nat
  BY Kinds
<1>4. p \in PhaseEntry /\ p.i = i /\ (p.special = "" <=> Plain(i)) /\ itself \in PhaseEntry
  BY <1>3 DEF PhaseEntry
<1>5. GoodEntry(p) /\ EntryWords(p) \in Seq(WireWord) /\ size \in Nat /\ size = 4 * Len(EntryWords(p))
  <2>1. GoodEntry(p)
    BY <1>4 DEF GoodEntry
  <2>2. EntryWords(p) \in Seq(WireWord)
        /\ 4 * Len(EntryWords(p)) = (IF p.special = "" THEN type(p.i).xdr_size ELSE 4)
    BY <1>4, <2>1, EntryWidth
  <2> QED
    BY <1>3, <1>4, <2>1, <2>2
<1>6. AddParameter(P, i) = IF Plain(i) THEN Append(before, X) ELSE before \o <<X, Y>>
  BY Zenon DEF AddParameter, Before, OpenFlat, Plain
<1>e. EntryWords(p) = IF Plain(i) THEN ItemWords(i, 0) ELSE <<word(i, 0, "n")>>
  BY <1>4 DEF EntryWords
<1> HIDE DEF p, size, before, flat
<1>a. flat \in DecodePhase /\ GoodFlat(flat) /\ Neat(flat, S) /\ p \in PhaseEntry /\ GoodEntry(p)
      /\ p.i \notin S /\ size \in Nat /\ size = 4 * Len(EntryWords(p))
  BY <1>1, <1>4, <1>5
<1>b. /\ X \in DecodePhase /\ GoodFlat(X) /\ Neat(X, S \cup {p.i})
      /\ PhaseWords(X) = PhaseWords(flat) \o EntryWords(p)
      /\ \A j : Holds(X, j) <=> Holds(flat, j) \/ (j = p.i /\ p.special = "")
      /\ p.special # "" => Counts(X, p.i)
  BY <1>a, Extended
<1>7. /\ X \in DecodePhase /\ GoodFlat(X) /\ Neat(X, R)
      /\ PhaseWords(X) = PhaseWords(flat) \o EntryWords(p)
      /\ \A j : Holds(X, j) <=> Holds(flat, j) \/ (j = i /\ p.special = "")
      /\ p.special # "" => Counts(X, i)
  BY <1>4, <1>b
<1> HIDE DEF X
<1>s. before \in Seq(DecodePhase) /\ Len(before) \in Nat /\ Len(before) <= Len(P) /\ X \in DecodePhase
  BY <1>1, <1>7
<1>8. Shape(before, R, G) /\ \A k \in DOMAIN before : \A n \in DOMAIN before[k].params :
                                before[k].params[n].i # i
  BY <1>2, ShapeMore DEF Shape
<1>9. \A k \in DOMAIN before : ~Holds(before[k], i)
  BY <1>8 DEF Holds
<1>10. \A j : \A k \in DOMAIN before : ~(Holds(before[k], j) /\ Holds(X, j))
  BY <1>1, <1>7, <1>9
<1> DEFINE P1 == Append(before, X)
           H1 == IF Plain(i) THEN H \cup {i} ELSE H
<1>11. Shape(P1, R, H1)
  <2>1. \A j \in H1 : j \in G \/ Holds(X, j)
    BY <1>2, <1>4, <1>7
  <2>2. ~GoodLong(X)
    BY <1>7 DEF GoodFlat, GoodLong
  <2> HIDE DEF H1, R
  <2> QED
    BY <1>7, <1>8, <1>10, <2>1, <2>2, ShapeAppend
<1>12. AllWords(P1) = AllWords(P) \o EntryWords(p) /\ AllWords(P) \in Seq(WireWord)
  <2>1. PhaseWords(flat) \in Seq(WireWord)
    BY <1>1, PhaseWordsType
  <2>2. \A k \in DOMAIN before : GoodFlat(before[k]) \/ GoodLong(before[k])
    BY <1>2 DEF Shape
  <2>3. AllWords(P1) = AllWords(before) \o PhaseWords(X)
    BY <1>1, <1>7, <2>2, OneMorePhase
  <2> HIDE DEF P1
  <2>4. AllWords(P1) = AllWords(before) \o (PhaseWords(flat) \o EntryWords(p))
    BY <1>7, <2>3
  <2>5. AllWords(before) \o (PhaseWords(flat) \o EntryWords(p))
          = (AllWords(before) \o PhaseWords(flat)) \o EntryWords(p)
    <3>1. AllWords(before) \in Seq(WireWord) /\ EntryWords(p) \in Seq(WireWord)
      BY <1>1, <1>5
    <3> DEFINE a == AllWords(before)
               b == PhaseWords(flat)
               c == EntryWords(p)
    <3>2. a \in Seq(WireWord) /\ b \in Seq(WireWord) /\ c \in Seq(WireWord)
      BY <2>1, <3>1
    <3> HIDE DEF a, b, c
    <3>3. a \o (b \o c) = (a \o b) \o c
      BY <3>2
    <3> QED
      BY <3>3 DEF a, b, c
  <2>6. AllWords(P) \in Seq(WireWord)
    BY <1>1, <2>1, JoinLength
  <2> QED
    BY <1>1, <2>4, <2>5, <2>6
<1>13. CASE Plain(i)
  <2>1. AddParameter(P, i) = P1 /\ Wire(i) = EntryWords(p) /\ H1 = H \cup {i}
    BY <1>6, <1>e, <1>13, Zenon DEF Wire, Plain
  <2>2. Len(P1) = Len(before) + 1
    BY <1>s
  <2>3. P \in Seq(DecodePhase)
    BY DEF Shape
  <2> HIDE DEF P1, H1
  <2> QED
    BY <1>1, <1>11, <1>12, <2>1, <2>2, <2>3
<1>14. CASE ~Plain(i)
  <2>1. Wire(i) = <<word(i, 0, "n")>> \o Items(i, ItemWords) /\ EntryWords(p) = <<word(i, 0, "n")>>
    BY <1>e, <1>14, Zenon DEF Wire, Plain
  <2>2. Y.form = form /\ Y.size = type(i).xdr_size /\ Y.params = <<itself>>
    BY DEF Phase
  <2>a. itself \in PhaseEntry /\ itself.i = i /\ itself.special = ""
    BY <1>4
  <2> HIDE DEF itself
  <2>b. <<itself>> \in Seq(PhaseEntry) /\ DOMAIN <<itself>> = {1} /\ Len(<<itself>>) = 1 /\ <<itself>>[1] = itself
    <3>1. 1 .. 1 = {1}
      OBVIOUS
    <3>2. Len(<<itself>>) = 1 /\ DOMAIN <<itself>> = 1 .. 1 /\ <<itself>>[1] = itself
      OBVIOUS
    <3>3. <<itself>> \in Seq(PhaseEntry)
      BY <2>a, AloneInSeq
    <3> QED
      BY <3>1, <3>2, <3>3
  <2>3. Y \in DecodePhase
    BY <1>3, <2>b DEF Phase, DecodePhase
  <2>4. Y.params[1].i = i /\ Y.params[1].special = "" /\ DOMAIN Y.params = {1} /\ Len(Y.params) = 1
    BY <2>2, <2>a, <2>b
  <2>5. Y.form # "flat" /\ Y.form = (IF is_bulk(type(i)) THEN "bulk" ELSE "blob")
    BY <2>2
  <2> HIDE DEF Y
  <2>6. GoodLong(Y)
    BY <1>14, <2>2, <2>4, <2>5 DEF GoodLong
  <2>7. Neat(Y, R)
    BY <2>4 DEF Neat
  <2>8. \A j : Holds(Y, j) <=> j = i
    BY <2>4 DEF Holds
  <2>9. P1 \in Seq(DecodePhase) /\ Len(P1) = Len(before) + 1 /\ DOMAIN P1 = 1 .. Len(before) + 1
        /\ P1[Len(before) + 1] = X /\ \A k \in 1 .. Len(before) : P1[k] = before[k]
        /\ DOMAIN before = 1 .. Len(before)
    BY <1>s
  <2>10. AddParameter(P, i) = Append(P1, Y)
    <3>1. before \o <<X, Y>> = Append(Append(before, X), Y)
      BY <1>s, <2>3
    <3> QED
      BY <1>6, <1>14, <3>1
  <2> HIDE DEF P1
  <2>11. ASSUME NEW k \in DOMAIN P1 PROVE ~Holds(P1[k], i)
    <3>1. ~Holds(X, i)
      <4>1. ~Holds(flat, i)
        BY <1>1 DEF Neat, Holds
      <4> QED
        BY <1>4, <1>7, <1>14, <4>1
    <3>2. k = Len(before) + 1 \/ k \in DOMAIN before
      BY <1>1, <2>9
    <3> QED
      BY <1>9, <2>9, <3>1, <3>2
  <2>12. \A j : \A k \in DOMAIN P1 : ~(Holds(P1[k], j) /\ Holds(Y, j))
    BY <2>8, <2>11
  <2>13. Len(P1) # 0 /\ Counts(P1[Len(P1)], Y.params[1].i)
    <3>1. Counts(X, i)
      BY <1>4, <1>7, <1>14
    <3>2. P1[Len(P1)] = X /\ Len(P1) # 0
      BY <1>s, <2>9
    <3> QED
      BY <2>4, <3>1, <3>2
  <2>14. \A j \in H \cup {i} : j \in H1 \/ Holds(Y, j)
    BY <1>14, <2>8
  <2> HIDE DEF H1, R
  <2> DEFINE H2 == H \cup {i}
  <2>h. \A j \in H2 : j \in H1 \/ Holds(Y, j)
    BY <2>14
  <2> HIDE DEF H2
  <2>15. Shape(Append(P1, Y), R, H2)
    BY <1>11, <2>3, <2>6, <2>7, <2>12, <2>13, <2>h, ShapeAppend
  <2>16. AllWords(Append(P1, Y)) = AllWords(P1) \o PhaseWords(Y)
    <3>1. \A k \in DOMAIN P1 : GoodFlat(P1[k]) \/ GoodLong(P1[k])
      BY <1>11 DEF Shape
    <3> QED
      BY <2>3, <2>6, <2>9, <3>1, OneMorePhase
  <2>17. PhaseWords(Y) = Items(i, ItemWords)
    BY <2>4, <2>5 DEF PhaseWords
  <2>18. Items(i, ItemWords) \in Seq(WireWord)
    BY ItemsJoin
  <2>19. (AllWords(P) \o EntryWords(p)) \o Items(i, ItemWords)
           = AllWords(P) \o (EntryWords(p) \o Items(i, ItemWords))
    <3>1. Regroups(AllWords(P), EntryWords(p), Items(i, ItemWords))
      BY <1>5, <1>12, <2>18, WordsRegroup, Zenon
    <3> QED
      BY <3>1 DEF Regroups
  <2>20. AllWords(Append(P1, Y)) = AllWords(P) \o Wire(i)
    BY <1>12, <2>1, <2>16, <2>17, <2>19
  <2>21. Len(Append(P1, Y)) = Len(before) + 2
    BY <1>1, <2>3, <2>9
  <2>22. P \in Seq(DecodePhase)
    BY DEF Shape
  <2> QED
    BY <1>1, <2>10, <2>15, <2>20, <2>21, <2>22 DEF R, H2
<1> QED
  BY <1>13, <1>14

\* The phases of the first n parameters.
First(way, n) == {Of(way)[j] : j \in 1 .. n}
PhasesOf(way, P, n) ==
  /\ Shape(P, First(way, n), First(way, n))
  /\ AllWords(P) = Joined(WiresOf(way), n) /\ Len(P) <= 2 * n

\* The phases grow with the parameters, and stay sound.
LEMMA PhasesGrow ==
  ASSUME params \in Seq(Parameters), AllAccepted, NEW way, NEW f, f[0] = <<>>,
         \A n \in 1 .. Len(Of(way)) : AddParameter(f[n - 1], Of(way)[n]) \in Seq(DecodePhase)
           => f[n] = AddParameter(f[n - 1], Of(way)[n])
  PROVE  /\ \A n \in 0 .. Len(Of(way)) : PhasesOf(way, f[n], n)
         /\ \A n \in 1 .. Len(Of(way)) : f[n] = AddParameter(f[n - 1], Of(way)[n])
<1> DEFINE O == Of(way)
           m == Len(O)
           W == WiresOf(way)
           Good == {n \in Nat : n <= m => PhasesOf(way, f[n], n)}
<1>1. /\ m \in Nat /\ DOMAIN O = 1 .. m /\ \A j \in 1 .. m : Accepted(O[j])
      /\ \A j, k \in 1 .. m : j # k => O[j] # O[k]
      /\ \A j \in 1 .. m : W[j] \in Seq(WireWord)
      /\ \A j \in 1 .. m : W[j] = Wire(O[j])
  BY OfAccepted DEF WiresOf
<1>2. 0 \in Good
  <2> DEFINE nil == <<>>
  <2>1. nil \in Seq(DecodePhase) /\ DOMAIN nil = {} /\ Len(nil) = 0
    OBVIOUS
  <2>2. First(way, 0) = {}
    BY DEF First
  <2>3. Joined(W, 0) = nil /\ Joined(WordList(nil), 0) = nil
    BY JoinedNone
  <2>4. f[0] = nil
    OBVIOUS
  <2> HIDE DEF nil, W
  <2>5. AllWords(nil) = Joined(W, 0)
    BY <2>1, <2>3 DEF AllWords
  <2>6. Shape(nil, {}, {})
    BY <2>1 DEF Shape
  <2>7. PhasesOf(way, nil, 0)
    <3>1. Len(nil) <= 2 * 0
      BY <2>1
    <3> QED
      BY <2>2, <2>5, <2>6, <3>1, Zenon DEF PhasesOf, W
  <2> QED
    BY <2>4, <2>7
<1>3. ASSUME NEW n \in Nat, n + 1 <= m, PhasesOf(way, f[n], n)
      PROVE  PhasesOf(way, f[n + 1], n + 1) /\ f[n + 1] = AddParameter(f[n], O[n + 1])
  <2> DEFINE i == O[n + 1]
             P == f[n]
             Q == AddParameter(P, i)
  <2>1. n + 1 \in 1 .. m /\ (n + 1) - 1 = n
    BY <1>1, <1>3
  <2>2. Accepted(i)
    BY <1>1, <2>1
  <2>3. i \notin First(way, n)
    <3> SUFFICES ASSUME NEW j \in 1 .. n PROVE O[j] # O[n + 1]
      BY DEF First
    <3>1. j \in 1 .. m /\ j # n + 1
      BY <1>3, <2>1
    <3> QED
      BY <1>1, <2>1, <3>1
  <2>4. First(way, n + 1) = First(way, n) \cup {i}
    <3>1. 1 .. n + 1 = (1 .. n) \cup {n + 1}
      OBVIOUS
    <3> QED
      BY <3>1 DEF First
  <2>5. Shape(P, First(way, n), First(way, n)) /\ Len(P) <= 2 * n /\ AllWords(P) = Joined(W, n)
    BY <1>3 DEF PhasesOf
  <2> HIDE DEF P, i
  <2>6. /\ Shape(Q, First(way, n) \cup {i}, First(way, n) \cup {i}) /\ Len(Q) <= Len(P) + 2
        /\ AllWords(Q) = AllWords(P) \o Wire(i)
    BY <2>2, <2>3, <2>5, ParameterAdded
  <2> HIDE DEF Q
  <2>7. Q \in Seq(DecodePhase) /\ Len(Q) \in Nat /\ Len(P) \in Nat
    BY <2>5, <2>6 DEF Shape
  <2>8. f[n + 1] = Q
    BY <2>1, <2>7 DEF P, Q, i
  <2>9. Joined(W, n + 1) = Joined(W, n) \o W[n + 1]
    <3>1. \A j \in 1 .. n + 1 : W[j] \in Seq(WireWord)
      BY <1>1, <1>3
    <3> HIDE DEF W
    <3> QED
      BY <3>1, JoinedNext
  <2>10. W[n + 1] = Wire(i)
    BY <1>1, <2>1 DEF i
  <2>11. AllWords(Q) = Joined(W, n + 1)
    BY <2>5, <2>6, <2>9, <2>10
  <2>12. Len(Q) <= 2 * (n + 1)
    BY <2>5, <2>6, <2>7
  <2>13. PhasesOf(way, Q, n + 1)
    BY <2>4, <2>6, <2>11, <2>12 DEF PhasesOf
  <2> QED
    BY <2>8, <2>13 DEF P, Q, i
<1>4. ASSUME NEW n \in Nat, n \in Good PROVE n + 1 \in Good
  <2> SUFFICES ASSUME n + 1 <= m PROVE PhasesOf(way, f[n + 1], n + 1)
    OBVIOUS
  <2>1. PhasesOf(way, f[n], n)
    BY <1>1, <1>4
  <2> QED
    BY <1>3, <2>1
<1>5. Nat \subseteq Good
  <2> HIDE DEF Good
  <2> QED
    BY <1>2, <1>4, Induction
<1>6. \A n \in 0 .. m : PhasesOf(way, f[n], n)
  <2> SUFFICES ASSUME NEW n \in 0 .. m PROVE PhasesOf(way, f[n], n)
    OBVIOUS
  <2>1. n \in Nat /\ n <= m
    BY <1>1
  <2>2. n \in Good
    BY <1>5, <2>1
  <2> QED
    BY <2>1, <2>2
<1>7. ASSUME NEW n \in 1 .. m PROVE f[n] = AddParameter(f[n - 1], O[n])
  <2> DEFINE k == n - 1
  <2>1. k \in Nat /\ k + 1 <= m /\ k \in 0 .. m /\ k + 1 = n
    BY <1>1
  <2> HIDE DEF k
  <2>2. f[k + 1] = AddParameter(f[k], O[k + 1])
    BY <1>3, <1>6, <2>1
  <2> QED
    BY <2>1, <2>2 DEF k
<1> QED
  BY <1>6, <1>7

\* The phases of a decoder have the words there are, in their order.
LEMMA PhasesSound ==
  ASSUME params \in Seq(Parameters), AllAccepted, NEW way
  PROVE  PhasesOf(way, Phases(way), Len(Of(way)))
<1> DEFINE O == Of(way)
           m == Len(O)
           T == Seq(DecodePhase)
           next(n, s) == IF n \in 1 .. m /\ AddParameter(s, O[n]) \in T
                         THEN AddParameter(s, O[n]) ELSE <<>>
           step == [n \in Int |-> [s \in T |-> next(n, s)]]
           upto(f) == f = [n \in 0 .. m |-> IF n = 0 THEN <<>> ELSE AddParameter(f[n - 1], O[n])]
           F == CHOOSE g : upto(g)
<1>1. m \in Nat /\ m \in Int /\ 0 \in Int /\ <<>> \in T
  BY OfAccepted
<1> HIDE DEF m, T
<1>2. step \in [Int -> [T -> T]]
  BY <1>1
<1>3. ASSUME NEW n \in 1 .. m, NEW s \in T, AddParameter(s, O[n]) \in T
      PROVE  step[n][s] = AddParameter(s, O[n])
  BY <1>1, <1>3
<1> HIDE DEF step
<1>4. PICK f \in [0 .. m -> T] : ByRecursion(f, 0, m, <<>>, step)
  BY <1>1, <1>2, RecursionExists, Zenon
<1>5. f[0] = <<>>
  BY <1>1, <1>4 DEF ByRecursion
<1>6. ASSUME NEW n \in 1 .. m, AddParameter(f[n - 1], O[n]) \in T
      PROVE  f[n] = AddParameter(f[n - 1], O[n])
  <2>1. n \in 0 .. m /\ n # 0 /\ n - 1 \in 0 .. m
    BY <1>1
  <2>2. f[n - 1] \in T /\ f[n] = step[n][f[n - 1]]
    BY <1>4, <2>1 DEF ByRecursion
  <2> QED
    BY <1>3, <1>6, <2>2
<1>7. \A n \in 1 .. m : f[n] = AddParameter(f[n - 1], O[n])
  BY <1>5, <1>6, PhasesGrow DEF m, T
<1>8. upto(f)
  <2>1. f = [n \in 0 .. m |-> f[n]]
    OBVIOUS
  <2>2. \A n \in 0 .. m : n # 0 => n \in 1 .. m
    BY <1>1
  <2>3. \A n \in 0 .. m : f[n] = IF n = 0 THEN <<>> ELSE AddParameter(f[n - 1], O[n])
    BY <1>5, <1>7, <2>2
  <2> QED
    BY <2>1, <2>3
<1>9. upto(F)
  <2> HIDE DEF upto
  <2> QED
    BY <1>8
<1>10. Phases(way) = F[m]
  BY Zenon DEF Phases, m
<1> HIDE DEF F
<1>11. F[0] = <<>> /\ \A n \in 1 .. m : F[n] = AddParameter(F[n - 1], O[n])
  <2>1. \A n \in 0 .. m : F[n] = IF n = 0 THEN <<>> ELSE AddParameter(F[n - 1], O[n])
    BY <1>9
  <2>2. 0 \in 0 .. m /\ \A n \in 1 .. m : n # 0 /\ n \in 0 .. m
    BY <1>1
  <2> QED
    BY <2>1, <2>2
<1>12. \A n \in 0 .. m : PhasesOf(way, F[n], n)
  BY <1>11, PhasesGrow DEF m
<1>13. m \in 0 .. m
  BY <1>1
<1> QED
  BY <1>10, <1>12, <1>13 DEF m

-----------------------------------------------------------------------------
(* Decoding. *)

\* What a decoder stores for a parameter.
Result(i) ==
  IF Plain(i) THEN <<Stored(i, ItemWords(i, 0))>>
  ELSE [k \in 1 .. count(i) |-> Stored(i, ItemWords(i, k))]

InBulk(P, a) == a \in DOMAIN P /\ P[a].form = "bulk"
Begun(P, a, b) == IF InBulk(P, a) THEN Joined(ItemsOf(P[a].params[1].i), b) ELSE <<>>

\* The decoder is at phase a, at item b of it: the words before that are gone,
\* and the parameters they were for have their counts and values.
Decoding(way, P, a, b, rep, sz, ob) ==
  /\ a \in 1 .. Len(P) + 1 /\ b \in Nat /\ rep \in Seq(WireWord)
  /\ DOMAIN sz = DOMAIN params /\ DOMAIN ob = DOMAIN params
  /\ WireOf(way) = (Joined(WordList(P), a - 1) \o Begun(P, a, b)) \o rep
  /\ InBulk(P, a) => b = 0 \/ b < count(P[a].params[1].i)
  /\ \A k \in 1 .. a - 1 : \A i : /\ Counts(P[k], i) => sz[i] = count(i)
                                  /\ Holds(P[k], i) => ob[i] = Result(i)
  /\ \A k \in a .. Len(P) : \A i : Holds(P[k], i) =>
       ob[i] = IF k = a /\ InBulk(P, a) THEN [n \in 1 .. b |-> Stored(i, ItemWords(i, n))] ELSE <<>>

\* The phases in the form in which they are used below.
LEMMA PhaseFacts ==
  ASSUME params \in Seq(Parameters), AllAccepted, NEW way
  PROVE  LET P == Phases(way)
         IN  /\ P \in Seq(DecodePhase) /\ Len(P) \in Nat /\ DOMAIN P = 1 .. Len(P)
             /\ \A k \in DOMAIN P : GoodFlat(P[k]) \/ GoodLong(P[k])
             /\ \A k \in DOMAIN P : P[k] \in DecodePhase /\ P[k].params \in Seq(PhaseEntry)
             /\ \A k \in DOMAIN P : GoodLong(P[k]) => k > 1 /\ Counts(P[k - 1], P[k].params[1].i)
             /\ \A k \in DOMAIN P : \A i : Holds(P[k], i) \/ Counts(P[k], i) => i \in DOMAIN params
             /\ \A k \in DOMAIN P : \A m, n \in DOMAIN P[k].params :
                  P[k].params[m].i = P[k].params[n].i => m = n
             /\ \A k, l \in DOMAIN P : \A i : Holds(P[k], i) /\ Holds(P[l], i) => k = l
             /\ \A j \in DOMAIN Of(way) : \E k \in DOMAIN P : Holds(P[k], Of(way)[j])
             /\ WireOf(way) = Joined(WordList(P), Len(P)) /\ WireOf(way) \in Seq(WireWord)
             /\ \A k \in 1 .. Len(P) : WordList(P)[k] = PhaseWords(P[k])
                                       /\ WordList(P)[k] \in Seq(WireWord)
             /\ Len(P) <= 2 * Len(params)
<1> DEFINE P == Phases(way)
           O == Of(way)
           S == First(way, Len(O))
<1>1. PhasesOf(way, P, Len(O))
  BY PhasesSound
<1>2. /\ Len(O) \in Nat /\ DOMAIN O = 1 .. Len(O) /\ Len(O) <= Len(params)
      /\ \A j \in DOMAIN O : O[j] \in DOMAIN params
      /\ WireOf(way) = Joined(WiresOf(way), Len(O))
  BY OfAccepted DEF Accepted
<1> HIDE DEF P
<1>3. Shape(P, S, S) /\ AllWords(P) = Joined(WiresOf(way), Len(O)) /\ Len(P) <= 2 * Len(O)
  BY <1>1 DEF PhasesOf
<1>4. S \subseteq DOMAIN params /\ \A j \in DOMAIN O : O[j] \in S
  BY <1>2 DEF First
<1> HIDE DEF S, O
<1>5. P \in Seq(DecodePhase) /\ Len(P) \in Nat /\ DOMAIN P = 1 .. Len(P)
  BY <1>3 DEF Shape
<1>6. \A k \in DOMAIN P : GoodFlat(P[k]) \/ GoodLong(P[k])
  BY <1>3 DEF Shape
<1>7. \A k \in DOMAIN P : P[k] \in DecodePhase /\ P[k].params \in Seq(PhaseEntry)
  <2> SUFFICES ASSUME NEW k \in DOMAIN P
               PROVE  P[k] \in DecodePhase /\ P[k].params \in Seq(PhaseEntry)
    OBVIOUS
  <2>1. P[k] \in DecodePhase
    BY <1>5
  <2> QED
    BY <2>1 DEF DecodePhase
<1>8. \A k \in DOMAIN P : \A i : Holds(P[k], i) \/ Counts(P[k], i) => i \in DOMAIN params
  <2>1. \A k \in DOMAIN P : \A n \in DOMAIN P[k].params : P[k].params[n].i \in DOMAIN params
    BY <1>3, <1>4 DEF Shape
  <2> QED
    BY <2>1, Zenon DEF Holds, Counts
<1>9. \A j \in DOMAIN O : \E k \in DOMAIN P : Holds(P[k], O[j])
  BY <1>3, <1>4 DEF Shape
<1>10. \A k \in 1 .. Len(P) : WordList(P)[k] = PhaseWords(P[k]) /\ WordList(P)[k] \in Seq(WireWord)
  <2> SUFFICES ASSUME NEW k \in DOMAIN P
               PROVE  WordList(P)[k] = PhaseWords(P[k]) /\ WordList(P)[k] \in Seq(WireWord)
    BY <1>5
  <2>1. WordList(P)[k] = PhaseWords(P[k])
    BY DEF WordList
  <2>2. PhaseWords(P[k]) \in Seq(WireWord)
    BY <1>6, <1>7, PhaseWordsType
  <2> QED
    BY <2>1, <2>2
<1>11. WireOf(way) = Joined(WordList(P), Len(P))
  BY <1>2, <1>3 DEF AllWords, O
<1>12. WireOf(way) \in Seq(WireWord)
  BY <1>5, <1>10, <1>11, JoinedType
<1>13. Len(P) <= 2 * Len(params)
  BY <1>2, <1>3, <1>5
<1>14. /\ \A k \in DOMAIN P : GoodLong(P[k]) => k > 1 /\ Counts(P[k - 1], P[k].params[1].i)
       /\ \A k \in DOMAIN P : \A m, n \in DOMAIN P[k].params :
            P[k].params[m].i = P[k].params[n].i => m = n
       /\ \A k, l \in DOMAIN P : \A i : Holds(P[k], i) /\ Holds(P[l], i) => k = l
  BY <1>3, Zenon DEF Shape
<1> QED
  BY <1>5, <1>6, <1>7, <1>8, <1>9, <1>10, <1>11, <1>12, <1>13, <1>14 DEF P, O

PhaseNext(way, a, s) ==
  \E r \in Seq(WireWord) : /\ s = PhaseWords(Phases(way)[a]) \o r
                           /\ WireOf(way) = Joined(WordList(Phases(way)), a) \o r
                           /\ PhaseWords(Phases(way)[a]) \in Seq(WireWord)

\* What is left of the wire begins with the words of the phase.
LEMMA Ahead ==
  ASSUME params \in Seq(Parameters), AllAccepted, NEW way, NEW a,
         a \in 1 .. Len(Phases(way)), NEW rep \in Seq(WireWord), NEW c \in Seq(WireWord),
         WireOf(way) = (Joined(WordList(Phases(way)), a - 1) \o c) \o rep
  PROVE  PhaseNext(way, a, c \o rep)
<1> DEFINE P == Phases(way)
           W == WordList(P)
           m == Len(P)
<1>1. /\ m \in Nat /\ \A k \in 1 .. m : W[k] = PhaseWords(P[k]) /\ W[k] \in Seq(WireWord)
      /\ WireOf(way) = Joined(W, m)
  BY PhaseFacts
<1>a. a \in 1 .. m
  OBVIOUS
<1>w. WireOf(way) = (Joined(W, a - 1) \o c) \o rep
  OBVIOUS
<1> HIDE DEF P, W, m
<1>2. a \in Nat /\ a - 1 \in Nat /\ (a - 1) + 1 = a /\ a <= m
  BY <1>1, <1>a
<1>3. /\ \A k \in 1 .. (a - 1) + 1 : W[k] \in Seq(WireWord)
  BY <1>1, <1>2
<1>4. Joined(W, a - 1) \in Seq(WireWord) /\ Joined(W, (a - 1) + 1) = Joined(W, a - 1) \o W[(a - 1) + 1]
  BY <1>2, <1>3, JoinedNext
<1>b. \A k \in 1 .. m : W[k] \in Seq(WireWord)
  BY <1>1
<1>5. PICK r \in Seq(WireWord) : Joined(W, m) = Joined(W, a) \o r
  <2>1. a \in Nat /\ m \in Nat /\ a <= m
    BY <1>1, <1>2
  <2> QED
    <3>1. BeginsWith(WireWord, Joined(W, m), Joined(W, a))
      BY <1>b, <2>1, JoinedFront
    <3> QED
      BY <3>1 DEF BeginsWith
<1> DEFINE f == Joined(W, a - 1)
           w == W[a]
<1>6. f \in Seq(WireWord) /\ w \in Seq(WireWord)
  BY <1>1, <1>4, <1>a
<1>7. WireOf(way) = (f \o w) \o r /\ WireOf(way) = (f \o c) \o rep
  BY <1>1, <1>2, <1>4, <1>5, <1>w
<1> HIDE DEF f, w
<1>8. (f \o w) \o r = f \o (w \o r) /\ (f \o c) \o rep = f \o (c \o rep)
  <2>1. Regroups(f, w, r) /\ Regroups(f, c, rep)
    BY <1>6, WordsRegroup, Zenon
  <2> QED
    BY <2>1 DEF Regroups
<1>9. w \o r \in Seq(WireWord) /\ c \o rep \in Seq(WireWord)
  BY <1>6, JoinLength
<1>10. c \o rep = w \o r
  BY <1>6, <1>7, <1>8, <1>9, CancelFront
<1>11. w = PhaseWords(P[a])
  BY <1>1, <1>a DEF w
<1> QED
  BY <1>1, <1>5, <1>6, <1>10, <1>11 DEF P, W, m, PhaseNext

\* The words of a string are its items, and there are as many.
LEMMA BlobWords ==
  ASSUME params \in Seq(Parameters), NEW i, Accepted(i), is_blob(type(i))
  PROVE  Items(i, ItemWords) = [k \in 1 .. count(i) |-> word(i, k, "w")]
<1> DEFINE W == ItemsOf(i)
           m == count(i)
           w(k) == word(i, k, "w")
           Good == {n \in Nat : n <= m => Joined(W, n) = [k \in 1 .. n |-> w(k)]}
<1>1. m \in Nat /\ i \in Nat /\ \A k \in Nat : w(k) \in WireWord
  BY Kinds, AWord
<1>2. Items(i, ItemWords) = Joined(W, m) /\ \A k \in 1 .. m : W[k] \in Seq(WireWord)
  BY ItemsJoin
<1>3. \A k \in 1 .. m : W[k] = <<w(k)>>
  BY <1>1, ItemWidth DEF ItemsOf
<1> HIDE DEF W, w, m
<1>4. 0 \in Good
  <2>1. [k \in 1 .. 0 |-> w(k)] = <<>>
    OBVIOUS
  <2> QED
    BY <2>1, JoinedNone
<1>5. ASSUME NEW n \in Nat, n \in Good PROVE n + 1 \in Good
  <2> SUFFICES ASSUME n + 1 <= m PROVE Joined(W, n + 1) = [k \in 1 .. n + 1 |-> w(k)]
    OBVIOUS
  <2>1. Joined(W, n) = [k \in 1 .. n |-> w(k)]
    BY <1>1, <1>5
  <2>2. \A k \in 1 .. n + 1 : W[k] \in Seq(WireWord)
    BY <1>1, <1>2
  <2>3. Joined(W, n + 1) = Joined(W, n) \o W[n + 1]
    BY <2>2, JoinedNext
  <2>4. W[n + 1] = <<w(n + 1)>>
    BY <1>1, <1>3
  <2> DEFINE s == [k \in 1 .. n |-> w(k)]
             t == [k \in 1 .. n + 1 |-> w(k)]
  <2>5. s \in Seq(WireWord) /\ Len(s) = n /\ t \in Seq(WireWord) /\ Len(t) = n + 1
        /\ w(n + 1) \in WireWord
    BY <1>1
  <2>6. s \o <<w(n + 1)>> = t
    <3>1. \A k \in 1 .. n : t[k] = s[k]
      OBVIOUS
    <3>2. t[n + 1] = w(n + 1)
      OBVIOUS
    <3> HIDE DEF s, t
    <3> DEFINE x == w(n + 1)
               u == s \o <<x>>
    <3>3. x \in WireWord
      BY <2>5
    <3> HIDE DEF x
    <3>4. u \in Seq(WireWord) /\ Len(u) = n + 1 /\ u[n + 1] = x /\ \A k \in 1 .. n : u[k] = s[k]
      BY <2>5, <3>3
    <3> HIDE DEF u
    <3>5. \A k \in 1 .. n + 1 : t[k] = u[k]
      BY <3>1, <3>2, <3>4 DEF x
    <3>6. t = u
      BY <2>5, <3>4, <3>5
    <3> QED
      BY <3>6 DEF u, x
  <2> QED
    BY <2>1, <2>3, <2>4, <2>6
<1>6. Nat \subseteq Good
  <2> HIDE DEF Good
  <2> QED
    BY <1>4, <1>5, Induction
<1>7. m \in Good
  BY <1>1, <1>6
<1> QED
  BY <1>1, <1>2, <1>7 DEF m, w

\* The words of phase a are taken and what they say is stored.
PhaseTaken(way, P, a, sz, ob, b2, rep2, sz2, ob2) ==
  /\ b2 \in Nat /\ rep2 \in Seq(WireWord)
  /\ P[a].form = "flat" => b2 = 0
  /\ WireOf(way) = Joined(WordList(P), a) \o rep2
  /\ DOMAIN sz2 = DOMAIN params /\ DOMAIN ob2 = DOMAIN params
  /\ \A i \in DOMAIN params : sz2[i] = IF Counts(P[a], i) THEN count(i) ELSE sz[i]
  /\ \A i \in DOMAIN params : ob2[i] = IF Holds(P[a], i) THEN Result(i) ELSE ob[i]

\* Then the next can begin.
LEMMA PhaseDone ==
  ASSUME params \in Seq(Parameters), AllAccepted, NEW way,
         NEW P, P = Phases(way), NEW a, NEW b, NEW rep, NEW sz, NEW ob,
         Decoding(way, P, a, b, rep, sz, ob), a # Len(P) + 1,
         NEW b2, NEW rep2, NEW sz2, NEW ob2,
         PhaseTaken(way, P, a, sz, ob, b2, rep2, sz2, ob2)
  PROVE  Decoding(way, P, a + 1, b2, rep2, sz2, ob2)
<1>0. /\ b2 \in Nat /\ rep2 \in Seq(WireWord)
      /\ P[a].form = "flat" => b2 = 0
      /\ WireOf(way) = Joined(WordList(P), a) \o rep2
      /\ DOMAIN sz2 = DOMAIN params /\ DOMAIN ob2 = DOMAIN params
      /\ \A i \in DOMAIN params : sz2[i] = IF Counts(P[a], i) THEN count(i) ELSE sz[i]
      /\ \A i \in DOMAIN params : ob2[i] = IF Holds(P[a], i) THEN Result(i) ELSE ob[i]
  BY Zenon DEF PhaseTaken
<1>1. /\ P \in Seq(DecodePhase) /\ Len(P) \in Nat /\ DOMAIN P = 1 .. Len(P)
      /\ \A k \in DOMAIN P : GoodFlat(P[k]) \/ GoodLong(P[k])
      /\ \A k \in DOMAIN P : GoodLong(P[k]) => k > 1 /\ Counts(P[k - 1], P[k].params[1].i)
      /\ \A k \in DOMAIN P : \A i : Holds(P[k], i) \/ Counts(P[k], i) => i \in DOMAIN params
      /\ \A k, l \in DOMAIN P : \A i : Holds(P[k], i) /\ Holds(P[l], i) => k = l
      /\ \A k \in 1 .. Len(P) : WordList(P)[k] \in Seq(WireWord)
  BY PhaseFacts
<1>2. /\ a \in 1 .. Len(P) + 1
      /\ \A k \in 1 .. a - 1 : \A i : /\ Counts(P[k], i) => sz[i] = count(i)
                                      /\ Holds(P[k], i) => ob[i] = Result(i)
      /\ \A k \in a .. Len(P) : \A i : Holds(P[k], i) =>
           ob[i] = IF k = a /\ InBulk(P, a) THEN [n \in 1 .. b |-> Stored(i, ItemWords(i, n))] ELSE <<>>
  BY DEF Decoding
<1>3. a \in DOMAIN P /\ a \in Nat /\ a + 1 \in 1 .. Len(P) + 1 /\ (a + 1) - 1 = a
  BY <1>1, <1>2
<1>4. InBulk(P, a + 1) => b2 = 0
  <2> SUFFICES ASSUME InBulk(P, a + 1) PROVE b2 = 0
    OBVIOUS
  <2>1. a + 1 \in DOMAIN P /\ P[a + 1].form # "flat"
    BY DEF InBulk
  <2>2. GoodLong(P[a + 1])
    BY <1>1, <2>1 DEF GoodFlat
  <2>3. Counts(P[a], P[a + 1].params[1].i)
    BY <1>1, <1>3, <2>1, <2>2
  <2> QED
    BY <1>0, <2>3 DEF Counts
<1>5. Begun(P, a + 1, b2) = <<>>
  <2>1. CASE InBulk(P, a + 1)
    BY <1>4, <2>1, JoinedNone DEF Begun
  <2>2. CASE ~InBulk(P, a + 1)
    BY <2>2 DEF Begun
  <2> QED
    BY <2>1, <2>2
<1>6. WireOf(way) = (Joined(WordList(P), (a + 1) - 1) \o Begun(P, a + 1, b2)) \o rep2
  <2> DEFINE f == Joined(WordList(P), a)
  <2>1. f \in Seq(WireWord)
    <3>1. \A k \in 1 .. a : WordList(P)[k] \in Seq(WireWord)
      BY <1>1, <1>3
    <3> QED
      BY <1>3, <3>1, JoinedType
  <2> HIDE DEF f
  <2>2. f \o <<>> = f
    BY <2>1
  <2> QED
    BY <1>0, <1>3, <1>5, <2>2 DEF f
<1>7. ASSUME NEW k \in 1 .. (a + 1) - 1, NEW i
      PROVE  /\ Counts(P[k], i) => sz2[i] = count(i)
             /\ Holds(P[k], i) => ob2[i] = Result(i)
  <2>1. k \in DOMAIN P /\ (k = a \/ k \in 1 .. a - 1)
    BY <1>1, <1>3
  <2>2. ASSUME Counts(P[k], i) PROVE sz2[i] = count(i)
    <3>1. i \in DOMAIN params
      BY <1>1, <2>1, <2>2
    <3>2. k = a \/ sz[i] = count(i)
      BY <1>2, <2>1, <2>2
    <3> QED
      BY <1>0, <2>2, <3>1, <3>2
  <2>3. ASSUME Holds(P[k], i) PROVE ob2[i] = Result(i)
    <3>1. i \in DOMAIN params
      BY <1>1, <2>1, <2>3
    <3>2. k = a \/ ob[i] = Result(i)
      BY <1>2, <2>1, <2>3
    <3> QED
      BY <1>0, <2>3, <3>1, <3>2
  <2> QED
    BY <2>2, <2>3
<1>8. ASSUME NEW k \in a + 1 .. Len(P), NEW i, Holds(P[k], i)
      PROVE  ob2[i] = IF k = a + 1 /\ InBulk(P, a + 1)
                      THEN [n \in 1 .. b2 |-> Stored(i, ItemWords(i, n))] ELSE <<>>
  <2>1. k \in DOMAIN P /\ k # a /\ k \in a .. Len(P)
    BY <1>1, <1>3
  <2>2. i \in DOMAIN params /\ ~Holds(P[a], i)
    BY <1>1, <1>3, <1>8, <2>1
  <2>3. ob2[i] = <<>>
    BY <1>0, <1>2, <1>8, <2>1, <2>2
  <2>4. b2 = 0 => [n \in 1 .. b2 |-> Stored(i, ItemWords(i, n))] = <<>>
    OBVIOUS
  <2> QED
    BY <1>4, <2>3, <2>4
<1>9. InBulk(P, a + 1) => b2 = 0 \/ b2 < count(P[a + 1].params[1].i)
  BY <1>4
<1> QED
  BY <1>0, <1>3, <1>6, <1>7, <1>8, <1>9 DEF Decoding

\* Where the words of a flat phase's parameters begin.
LEMMA EntryTaken ==
  ASSUME params \in Seq(Parameters), NEW p \in PhaseEntry, GoodEntry(p)
  PROVE  Taken(p) = Len(EntryWords(p)) /\ EntryWords(p) \in Seq(WireWord)
<1>1. EntryWords(p) \in Seq(WireWord)
  BY EntryWidth
<1>2. CASE p.special = ""
  <2>1. Accepted(p.i) /\ ~is_blob(type(p.i))
    BY <1>2 DEF GoodEntry, Plain
  <2>2. EntryWords(p) = ItemWords(p.i, 0) /\ Taken(p) = type(p.i).xdr_size \div 4
    BY <1>2, <2>1 DEF EntryWords, Taken
  <2> QED
    BY <1>1, <2>1, <2>2, ItemWidth
<1>3. CASE p.special # ""
  <2>1. EntryWords(p) = <<word(p.i, 0, "n")>> /\ Taken(p) = 1
    BY <1>3 DEF EntryWords, Taken
  <2> QED
    BY <1>1, <2>1
<1> QED
  BY <1>2, <1>3

BeginAt(ps, s) == \A n \in 1 .. Len(ps) + 1 : s[n] = Len(Joined(EntryList(ps), n - 1))

\* Each parameter of a flat phase begins where the one before it ends.
LEMMA Starts ==
  ASSUME params \in Seq(Parameters), NEW ps \in Seq(PhaseEntry),
         \A n \in DOMAIN ps : GoodEntry(ps[n])
  PROVE  LET start[n \in 1 .. Len(ps) + 1] == IF n = 1 THEN 0 ELSE start[n - 1] + Taken(ps[n - 1])
         IN  BeginAt(ps, start)
<1> DEFINE m == Len(ps)
           W == EntryList(ps)
           L(n) == Len(Joined(W, n - 1))
           is(s) == s = [n \in 1 .. m + 1 |-> IF n = 1 THEN 0 ELSE s[n - 1] + Taken(ps[n - 1])]
           F == CHOOSE s : is(s)
           f == [n \in 1 .. m + 1 |-> L(n)]
<1>1. m \in Nat /\ DOMAIN ps = 1 .. m /\ \A n \in 1 .. m : W[n] \in Seq(WireWord)
  BY EntryListType
<1>2. \A n \in 1 .. m : Taken(ps[n]) = Len(W[n])
  BY <1>1, EntryTaken DEF EntryList
<1> HIDE DEF m, W
<1>3. L(1) = 0
  BY JoinedNone
<1>4. ASSUME NEW n \in 1 .. m + 1, n # 1 PROVE L(n) = L(n - 1) + Taken(ps[n - 1])
  <2> DEFINE k == n - 2
  <2>1. k \in Nat /\ k + 1 = n - 1 /\ k + 1 \in 1 .. m /\ k = (n - 1) - 1
    BY <1>1, <1>4
  <2> HIDE DEF k
  <2>2. \A j \in 1 .. k + 1 : W[j] \in Seq(WireWord)
    BY <1>1, <2>1
  <2>3. Joined(W, k) \in Seq(WireWord) /\ Joined(W, k + 1) = Joined(W, k) \o W[k + 1]
    BY <2>1, <2>2, JoinedNext
  <2> DEFINE x == Joined(W, k)
             y == W[k + 1]
  <2>a. x \in Seq(WireWord) /\ y \in Seq(WireWord)
    BY <1>1, <2>1, <2>3
  <2> HIDE DEF x, y
  <2>b. Len(x \o y) = Len(x) + Len(y)
    BY <2>a
  <2>4. Len(Joined(W, k + 1)) = Len(Joined(W, k)) + Len(W[k + 1])
    BY <2>3, <2>b DEF x, y
  <2> QED
    BY <1>2, <2>1, <2>4
<1>5. is(f)
  <2>1. ASSUME NEW n \in 1 .. m + 1 PROVE f[n] = IF n = 1 THEN 0 ELSE f[n - 1] + Taken(ps[n - 1])
    <3>1. n # 1 => n - 1 \in 1 .. m + 1
      BY <1>1
    <3> HIDE DEF L
    <3> QED
      BY <1>3, <1>4, <3>1
  <2>2. f = [n \in 1 .. m + 1 |-> f[n]]
    OBVIOUS
  <2> HIDE DEF f
  <2> QED
    BY <2>1, <2>2
<1>6. is(F)
  <2> HIDE DEF is, f
  <2> QED
    BY <1>5
<1> HIDE DEF F
<1>7. \A n \in 1 .. m + 1 : F[n] = IF n = 1 THEN 0 ELSE F[n - 1] + Taken(ps[n - 1])
  BY <1>6
<1> HIDE DEF is, f, L
<1> DEFINE Good == {n \in Nat : n + 1 <= m + 1 => F[n + 1] = L(n + 1)}
<1>8. 0 \in Good
  <2>1. 0 + 1 = 1 /\ 1 \in 1 .. m + 1
    BY <1>1
  <2> QED
    BY <1>3, <1>7, <2>1
<1>9. ASSUME NEW n \in Nat, n \in Good PROVE n + 1 \in Good
  <2> DEFINE e == (n + 1) + 1
  <2> SUFFICES ASSUME e <= m + 1 PROVE F[e] = L(e)
    OBVIOUS
  <2>1. e \in 1 .. m + 1 /\ e # 1 /\ e - 1 = n + 1 /\ n + 1 <= m + 1
    BY <1>1
  <2> HIDE DEF e
  <2>2. F[n + 1] = L(n + 1)
    BY <1>9, <2>1
  <2> QED
    BY <1>4, <1>7, <2>1, <2>2
<1>10. Nat \subseteq Good
  <2> HIDE DEF Good
  <2> QED
    BY <1>8, <1>9, Induction
<1>11. ASSUME NEW n \in 1 .. m + 1 PROVE F[n] = L(n)
  <2> DEFINE k == n - 1
  <2>1. k \in Nat /\ k + 1 = n /\ k + 1 <= m + 1
    BY <1>1
  <2> HIDE DEF k
  <2>2. k \in Good
    BY <1>10, <2>1
  <2> QED
    BY <2>1, <2>2
<1> QED
  BY <1>11, Zenon DEF F, L, W, m, is, BeginAt

FlatReply(ps, s, rep, r) == BeginAt(ps, s) /\ rep = Joined(EntryList(ps), Len(ps)) \o r

\* What the decoder stores for a parameter in a flat phase.
LEMMA FlatWords ==
  ASSUME params \in Seq(Parameters), NEW ps \in Seq(PhaseEntry),
         \A n \in DOMAIN ps : GoodEntry(ps[n]), NEW r \in Seq(WireWord),
         NEW rep, NEW s, FlatReply(ps, s, rep, r)
  PROVE  /\ \A n \in DOMAIN ps : SubSeq(rep, s[n] + 1, s[n] + Taken(ps[n])) = EntryWords(ps[n])
         /\ SubSeq(rep, s[Len(ps) + 1] + 1, Len(rep)) = r
<1> DEFINE m == Len(ps)
           W == EntryList(ps)
<1>1. m \in Nat /\ DOMAIN ps = 1 .. m /\ (\A n \in 1 .. m : W[n] \in Seq(WireWord))
      /\ Joined(W, m) \in Seq(WireWord)
  BY EntryListType
<1>2. \A n \in 1 .. m : Taken(ps[n]) = Len(W[n]) /\ W[n] = EntryWords(ps[n])
  <2> SUFFICES ASSUME NEW n \in 1 .. m PROVE Taken(ps[n]) = Len(W[n]) /\ W[n] = EntryWords(ps[n])
    OBVIOUS
  <2>1. n \in DOMAIN ps /\ ps[n] \in PhaseEntry /\ GoodEntry(ps[n])
    BY <1>1, SMTT(60)
  <2>2. W[n] = EntryWords(ps[n])
    BY <2>1 DEF EntryList
  <2> QED
    BY <2>1, <2>2, EntryTaken
<1>3. rep = Joined(W, m) \o r /\ \A n \in 1 .. m + 1 : s[n] = Len(Joined(W, n - 1))
  BY Zenon DEF BeginAt, FlatReply
<1> HIDE DEF m, W
<1>4. ASSUME NEW n \in 1 .. m PROVE SubSeq(rep, s[n] + 1, s[n] + Taken(ps[n])) = EntryWords(ps[n])
  <2> DEFINE k == n - 1
             x == Joined(W, k)
             y == W[n]
  <2>0. m \in Nat
    BY <1>1
  <2>1. k \in Nat /\ k + 1 = n /\ n \in Nat /\ n <= m /\ n \in 1 .. m + 1
    BY <2>0
  <2>2. \A j \in 1 .. k + 1 : W[j] \in Seq(WireWord)
    BY <1>1, <2>1
  <2>3. x \in Seq(WireWord) /\ Joined(W, k + 1) = x \o W[k + 1]
    BY <2>1, <2>2, JoinedNext
  <2>4. BeginsWith(WireWord, Joined(W, m), Joined(W, n))
    BY <1>1, <2>1, JoinedFront
  <2>5. PICK q \in Seq(WireWord) : Joined(W, m) = Joined(W, n) \o q
    BY <2>4 DEF BeginsWith
  <2>6. y \in Seq(WireWord)
    BY <1>1
  <2>7. s[n] = Len(x) /\ Taken(ps[n]) = Len(y) /\ y = EntryWords(ps[n])
    BY <1>2, <1>3, <2>1
  <2>8. rep = ((x \o y) \o q) \o r
    BY <1>3, <2>1, <2>3, <2>5
  <2> HIDE DEF x, y, k
  <2>9. ((x \o y) \o q) \o r = (x \o y) \o (q \o r) /\ q \o r \in Seq(WireWord)
    <3>2. x \o y \in Seq(WireWord) /\ q \o r \in Seq(WireWord)
      BY <2>3, <2>6, JoinLength
    <3> QED
      <4>1. Regroups(x \o y, q, r)
        BY <3>2, WordsRegroup, Zenon
      <4> QED
        BY <3>2, <4>1 DEF Regroups
  <2> DEFINE z == q \o r
  <2>10. z \in Seq(WireWord) /\ rep = (x \o y) \o z
    BY <2>8, <2>9
  <2> HIDE DEF z
  <2>11. SubSeq((x \o y) \o z, Len(x) + 1, Len(x) + Len(y)) = y
    BY <2>3, <2>6, <2>10, TakeMiddle
  <2> QED
    BY <2>7, <2>10, <2>11
<1>5. SubSeq(rep, s[m + 1] + 1, Len(rep)) = r
  <2> DEFINE x == Joined(W, m)
  <2>1. s[m + 1] = Len(x)
    <3>1. m + 1 \in 1 .. m + 1 /\ (m + 1) - 1 = m
      BY <1>1
    <3> QED
      BY <1>3, <3>1
  <2>2. x \in Seq(WireWord) /\ rep = x \o r
    BY <1>1, <1>3
  <2> HIDE DEF x
  <2>3. SubSeq(x \o r, Len(x) + 1, Len(x \o r)) = r
    BY <2>2, TakeBack
  <2> QED
    BY <2>1, <2>2, <2>3
<1> QED
  BY <1>1, <1>4, <1>5 DEF m

\* The decoder is sound at this point.
DecodingNow ==
  Decoding(decoder.way, Phases(decoder.way), at, bulk_index, reply, sizes, obj)
DecodingNext ==
  Decoding(decoder.way, Phases(decoder.way), at', bulk_index', reply', sizes', obj')

\* A flat phase takes the words of all its parameters at once.
LEMMA FlatStep ==
  ASSUME params \in Seq(Parameters), AllAccepted, DecodingNow, DecodeFlat
  PROVE  DecodingNext
<1> DEFINE way == decoder.way
           P == Phases(way)
           ps == P[at].params
           m == Len(ps)
           is(s) == s = [n \in 1 .. m + 1 |-> IF n = 1 THEN 0 ELSE s[n - 1] + Taken(ps[n - 1])]
           start == CHOOSE s : is(s)
           ws(n) == SubSeq(reply, start[n] + 1, start[n] + Taken(ps[n]))
           counted(i) == \E n \in DOMAIN ps : ps[n].i = i /\ ps[n].special # ""
           held(i) == \E n \in DOMAIN ps : ps[n].i = i /\ ps[n].special = ""
           the(i) == CHOOSE n \in DOMAIN ps : ps[n].i = i
<1>1. at <= Len(P) /\ P[at].form = "flat"
  BY Zenon DEF DecodeFlat, Running, phase
<1>2. PICK stray \in Strays :
      /\ sizes' = [i \in DOMAIN sizes |->
           IF counted(i) THEN Worth(ws(the(i))[1], stray) ELSE sizes[i]]
      /\ obj' = [i \in DOMAIN obj |-> IF held(i) THEN <<Stored(i, ws(the(i)))>> ELSE obj[i]]
      /\ reply' = SubSeq(reply, start[m + 1] + 1, Len(reply))
      /\ at' = at + 1 /\ bulk_index' = 0
  BY Zenon DEF DecodeFlat, phase
<1>3. /\ P \in Seq(DecodePhase) /\ Len(P) \in Nat /\ DOMAIN P = 1 .. Len(P)
      /\ \A k \in DOMAIN P : GoodFlat(P[k]) \/ GoodLong(P[k])
      /\ \A k \in DOMAIN P : P[k] \in DecodePhase /\ P[k].params \in Seq(PhaseEntry)
      /\ \A k \in DOMAIN P : \A j, n \in DOMAIN P[k].params :
           P[k].params[j].i = P[k].params[n].i => j = n
  BY PhaseFacts
<1>4. /\ at \in 1 .. Len(P) + 1 /\ reply \in Seq(WireWord)
      /\ DOMAIN sizes = DOMAIN params /\ DOMAIN obj = DOMAIN params
      /\ WireOf(way) = (Joined(WordList(P), at - 1) \o Begun(P, at, bulk_index)) \o reply
  BY DEF DecodingNow, Decoding
<1>5. at \in DOMAIN P /\ at \in 1 .. Len(P) /\ at # Len(P) + 1
  BY <1>1, <1>3, <1>4
<1>6. /\ ps \in Seq(PhaseEntry) /\ \A n \in DOMAIN ps : GoodEntry(ps[n])
      /\ \A j, n \in DOMAIN ps : ps[j].i = ps[n].i => j = n
      /\ PhaseWords(P[at]) = Joined(EntryList(ps), m)
  <2>1. GoodFlat(P[at])
    BY <1>1, <1>3, <1>5 DEF GoodLong
  <2> QED
    BY <1>1, <1>3, <1>5, <2>1 DEF GoodFlat, PhaseWords
<1>7. Begun(P, at, bulk_index) = <<>>
  BY <1>1 DEF Begun, InBulk
<1>8. PICK r \in Seq(WireWord) : /\ <<>> \o reply = PhaseWords(P[at]) \o r
                                 /\ WireOf(way) = Joined(WordList(P), at) \o r
  <2> DEFINE c == Begun(P, at, bulk_index)
  <2>1. c \in Seq(WireWord)
    BY <1>7
  <2>2. WireOf(way) = (Joined(WordList(P), at - 1) \o c) \o reply
    BY <1>4
  <2> HIDE DEF c
  <2>3. PhaseNext(way, at, c \o reply)
    BY <1>4, <1>5, <2>1, <2>2, Ahead
  <2> QED
    BY <1>7, <2>3, Zenon DEF PhaseNext, c
<1>9. reply = Joined(EntryList(ps), m) \o r
  <2>1. <<>> \o reply = reply
    BY <1>4
  <2> QED
    BY <1>6, <1>8, <2>1
<1>10. BeginAt(ps, start)
  <2>1. ps \in Seq(PhaseEntry) /\ \A n \in DOMAIN ps : GoodEntry(ps[n])
    BY <1>6
  <2> HIDE DEF ps
  <2> QED
    BY <2>1, Starts
<1> HIDE DEF start, ps
<1>11. /\ \A n \in DOMAIN ps : SubSeq(reply, start[n] + 1, start[n] + Taken(ps[n])) = EntryWords(ps[n])
       /\ SubSeq(reply, start[m + 1] + 1, Len(reply)) = r
  <2>1. FlatReply(ps, start, reply, r)
    BY <1>9, <1>10 DEF FlatReply
  <2> QED
    BY <1>6, <2>1, FlatWords
<1>12. ASSUME NEW i, NEW n \in DOMAIN ps, ps[n].i = i PROVE the(i) = n
  BY <1>6, <1>12
<1> HIDE DEF the
<1>13. ASSUME NEW i \in DOMAIN params, counted(i) PROVE sizes'[i] = count(i)
  <2>1. PICK n \in DOMAIN ps : ps[n].i = i /\ ps[n].special # ""
    BY <1>13
  <2>2. ws(the(i)) = <<word(i, 0, "n")>>
    BY <1>11, <1>12, <2>1 DEF EntryWords
  <2>3. Worth(<<word(i, 0, "n")>>[1], stray) = count(i)
    BY DEF Worth, word
  <2> HIDE DEF ws
  <2> QED
    BY <1>2, <1>4, <1>13, <2>2, <2>3
<1>14. ASSUME NEW i \in DOMAIN params, held(i) PROVE obj'[i] = Result(i)
  <2>1. PICK n \in DOMAIN ps : ps[n].i = i /\ ps[n].special = ""
    BY <1>14
  <2>2. ws(the(i)) = ItemWords(i, 0) /\ Plain(i)
    BY <1>6, <1>11, <1>12, <2>1 DEF EntryWords, GoodEntry
  <2> HIDE DEF ws
  <2>3. obj'[i] = <<Stored(i, ws(the(i)))>>
    BY <1>2, <1>4, <1>14
  <2> QED
    BY <2>2, <2>3, Zenon DEF Result
<1>15. \A i : (counted(i) <=> Counts(P[at], i)) /\ (held(i) <=> Holds(P[at], i))
  BY <1>1 DEF Counts, Holds, ps
<1> HIDE DEF counted, held, ws
<1>16. /\ DOMAIN sizes' = DOMAIN params /\ DOMAIN obj' = DOMAIN params
       /\ \A i \in DOMAIN params : sizes'[i] = IF Counts(P[at], i) THEN count(i) ELSE sizes[i]
       /\ \A i \in DOMAIN params : obj'[i] = IF Holds(P[at], i) THEN Result(i) ELSE obj[i]
  BY <1>2, <1>4, <1>13, <1>14, <1>15
<1>17. reply' = r /\ bulk_index' = 0 /\ 0 \in Nat /\ at' = at + 1
  BY <1>2, <1>11
<1>18. Decoding(way, P, at + 1, bulk_index', reply', sizes', obj')
  <2>1. Decoding(way, P, at, bulk_index, reply, sizes, obj)
    BY DEF DecodingNow
  <2>2. PhaseTaken(way, P, at, sizes, obj, bulk_index', reply', sizes', obj')
    BY <1>8, <1>16, <1>17 DEF PhaseTaken
  <2> HIDE DEF P
  <2> QED
    BY <1>5, <2>1, <2>2, PhaseDone DEF P
<1> QED
  BY <1>17, <1>18 DEF DecodingNext

\* The parameter of a phase of its own: its count is known, and nothing of it is
\* stored yet but the items that were read.
Current == Phases(decoder.way)[at]
LongAt(i) ==
  /\ i \in DOMAIN params /\ Accepted(i) /\ ~Plain(i) /\ count(i) \in Nat /\ sizes[i] = count(i)
  /\ Current.params[1].i = i /\ Current.params[1].special = ""
  /\ Current.size = type(i).xdr_size
  /\ Current.form = IF is_bulk(type(i)) THEN "bulk" ELSE "blob"
  /\ Current.form = "blob" => is_blob(type(i))
  /\ \A j : (Holds(Current, j) <=> j = i) /\ ~Counts(Current, j)
  /\ PhaseWords(Current) = Items(i, ItemWords)
  /\ obj[i] = IF Current.form = "bulk"
              THEN [n \in 1 .. bulk_index |-> Stored(i, ItemWords(i, n))] ELSE <<>>

\* A phase of its own is about one parameter, whose count has been read.
LEMMA LongPhase ==
  ASSUME params \in Seq(Parameters), AllAccepted, DecodingNow,
         at <= Len(Phases(decoder.way)), Current.form # "flat"
  PROVE  /\ LongAt(Current.params[1].i)
         /\ at \in DOMAIN Phases(decoder.way) /\ at \in 1 .. Len(Phases(decoder.way))
         /\ at # Len(Phases(decoder.way)) + 1
<1> DEFINE P == Phases(decoder.way)
           i == P[at].params[1].i
<1>1. /\ P \in Seq(DecodePhase) /\ Len(P) \in Nat /\ DOMAIN P = 1 .. Len(P)
      /\ \A k \in DOMAIN P : GoodFlat(P[k]) \/ GoodLong(P[k])
      /\ \A k \in DOMAIN P : GoodLong(P[k]) => k > 1 /\ Counts(P[k - 1], P[k].params[1].i)
      /\ \A k \in DOMAIN P : P[k].params \in Seq(PhaseEntry)
      /\ \A k \in DOMAIN P : \A j : Holds(P[k], j) \/ Counts(P[k], j) => j \in DOMAIN params
  BY PhaseFacts
<1>2. /\ at \in 1 .. Len(P) + 1
      /\ \A k \in 1 .. at - 1 : \A j : /\ Counts(P[k], j) => sizes[j] = count(j)
                                       /\ Holds(P[k], j) => obj[j] = Result(j)
      /\ \A k \in at .. Len(P) : \A j : Holds(P[k], j) =>
           obj[j] = IF k = at /\ InBulk(P, at)
                    THEN [n \in 1 .. bulk_index |-> Stored(j, ItemWords(j, n))] ELSE <<>>
  BY DEF DecodingNow, Decoding
<1>c. Current = P[at] /\ at <= Len(P) /\ P[at].form # "flat"
  BY DEF Current
<1>3. at \in DOMAIN P /\ at \in 1 .. Len(P) /\ at # Len(P) + 1 /\ at \in at .. Len(P)
  BY <1>1, <1>2, <1>c
<1> HIDE DEF P
<1>4. GoodLong(P[at])
  BY <1>1, <1>3, <1>c DEF GoodFlat
<1>5. /\ Len(P[at].params) = 1 /\ P[at].params[1].special = ""
      /\ Accepted(i) /\ ~Plain(i)
      /\ P[at].form = (IF is_bulk(type(i)) THEN "bulk" ELSE "blob")
      /\ P[at].size = type(i).xdr_size
  BY <1>4 DEF GoodLong
<1>6. DOMAIN P[at].params = 1 .. 1
  <2> DEFINE q == P[at].params
  <2>1. q \in Seq(PhaseEntry) /\ Len(q) = 1
    BY <1>1, <1>3, <1>5
  <2> HIDE DEF q
  <2>2. DOMAIN q = 1 .. 1
    BY <2>1
  <2> QED
    BY <2>2 DEF q
<1>7. \A j : Holds(P[at], j) <=> j = i
  <2>1. 1 \in DOMAIN P[at].params /\ \A n \in DOMAIN P[at].params : n = 1
    BY <1>6
  <2> QED
    BY <1>5, <2>1 DEF Holds
<1>8. \A j : ~Counts(P[at], j)
  BY <1>c DEF Counts
<1>9. at > 1 /\ Counts(P[at - 1], i)
  BY <1>1, <1>3, <1>4
<1>10. at - 1 \in 1 .. at - 1 /\ at - 1 \in DOMAIN P
  BY <1>1, <1>3, <1>9
<1>11. sizes[i] = count(i) /\ i \in DOMAIN params
  BY <1>1, <1>2, <1>9, <1>10
<1>12. count(i) \in Nat /\ (P[at].form = "blob" => is_blob(type(i)))
  BY <1>5, Kinds DEF Plain
<1>13. PhaseWords(P[at]) = Items(i, ItemWords)
  BY <1>c DEF PhaseWords
<1>14. obj[i] = IF P[at].form = "bulk"
                THEN [n \in 1 .. bulk_index |-> Stored(i, ItemWords(i, n))] ELSE <<>>
  BY <1>2, <1>3, <1>7 DEF InBulk
<1> QED
  BY <1>3, <1>5, <1>7, <1>8, <1>11, <1>12, <1>13, <1>14, <1>c, Zenon DEF LongAt, P

\* A phase of its own is about one of the parameters that are decoded.
LEMMA LongOfWay ==
  ASSUME params \in Seq(Parameters), AllAccepted, DecodingNow,
         at <= Len(Phases(decoder.way)), Current.form # "flat"
  PROVE  \E j \in DOMAIN Of(decoder.way) : Of(decoder.way)[j] = Current.params[1].i
<1> DEFINE P == Phases(decoder.way)
           O == Of(decoder.way)
           i == Current.params[1].i
<1>1. PhasesOf(decoder.way, P, Len(O))
  BY PhasesSound
<1>2. at \in DOMAIN P /\ Holds(P[at], i)
  BY LongPhase DEF LongAt, Current
<1>3. DOMAIN O = 1 .. Len(O)
  BY OfAccepted
<1> HIDE DEF P, i
<1>4. PICK n \in DOMAIN P[at].params : P[at].params[n].i = i
  BY <1>2 DEF Holds
<1>5. i \in First(decoder.way, Len(O))
  BY <1>1, <1>2, <1>4, Zenon DEF PhasesOf, Shape
<1> QED
  BY <1>3, <1>5 DEF First, i

\* What is empty is skipped; and nothing else, if there are no opaque data that
\* the decoder would lose its place in.
LEMMA SkipStep ==
  ASSUME params \in Seq(Parameters), AllAccepted, DecodingNow, ~SkipsOpaque,
         NEW form \in {"blob", "bulk"}, SkipPhase(form)
  PROVE  DecodingNext
<1> DEFINE way == decoder.way
           P == Phases(way)
           i == Current.params[1].i
<1>a. /\ at <= Len(P) /\ Current.form = form /\ (sizes[i] = 0 \/ Skips(i))
      /\ at' = at + 1 /\ UNCHANGED <<stage, reply, sizes, bulk_index>>
      /\ obj' = IF Skips(i) THEN [obj EXCEPT ![i] = [k \in 1 .. sizes[i] |-> <<>>]] ELSE obj
  BY Zenon DEF SkipPhase, Running, phase, Current
<1>2. LongAt(i) /\ at \in DOMAIN P /\ at \in 1 .. Len(P) /\ at # Len(P) + 1
  BY <1>a, LongPhase
<1>b. sizes[i] = 0
  <2>1. CASE Skips(i)
    <3>1. PICK j \in DOMAIN Of(way) : Of(way)[j] = i
      BY <1>a, LongOfWay
    <3>2. ~(count(i) > 0)
      BY <2>1, <3>1 DEF SkipsOpaque, Skips
    <3>3. count(i) \in Nat /\ sizes[i] = count(i)
      BY <1>2 DEF LongAt
    <3> HIDE DEF i
    <3> QED
      BY <3>2, <3>3
  <2> QED
    BY <1>a, <2>1
<1>c. DOMAIN obj' = DOMAIN obj /\ \A j \in DOMAIN obj : obj'[j] = obj[j]
  <2>1. CASE Skips(i)
    <3>1. is_blob(type(i)) /\ Accepted(i) /\ i \in DOMAIN params
      BY <1>2, <2>1 DEF Skips, is_blob, LongAt
    <3>2. ~is_bulk(type(i))
      BY <3>1, Kinds
    <3>3. obj[i] = <<>>
      BY <1>2, <3>2 DEF LongAt
    <3>4. [k \in 1 .. 0 |-> <<>>] = <<>>
      OBVIOUS
    <3> HIDE DEF i
    <3>5. obj' = [obj EXCEPT ![i] = <<>>]
      BY <1>a, <1>b, <2>1, <3>4
    <3> QED
      BY <3>3, <3>5
  <2> QED
    BY <1>a, <2>1
<1>1. /\ at <= Len(P) /\ Current.form = form /\ sizes[i] = 0
      /\ at' = at + 1 /\ UNCHANGED <<stage, reply, sizes, bulk_index>>
  BY <1>a, <1>b
<1>3. /\ bulk_index \in Nat /\ reply \in Seq(WireWord)
      /\ DOMAIN sizes = DOMAIN params /\ DOMAIN obj = DOMAIN params
      /\ WireOf(way) = (Joined(WordList(P), at - 1) \o Begun(P, at, bulk_index)) \o reply
      /\ InBulk(P, at) => bulk_index = 0 \/ bulk_index < count(P[at].params[1].i)
  BY DEF DecodingNow, Decoding
<1>4. Current = P[at] /\ count(i) = 0 /\ Current.form # "flat"
  BY <1>1, <1>2 DEF LongAt, Current
<1>5. InBulk(P, at) <=> form = "bulk"
  BY <1>1, <1>2, <1>4 DEF InBulk
<1>6. InBulk(P, at) => bulk_index = 0
  BY <1>3, <1>4
<1>7. Begun(P, at, bulk_index) = <<>>
  BY <1>6, JoinedNone DEF Begun
<1>8. PhaseWords(Current) = <<>>
  <2>1. PhaseWords(Current) = Joined(ItemsOf(i), count(i))
    BY <1>2, ItemsJoin DEF LongAt
  <2> QED
    BY <1>4, <2>1, JoinedNone
<1>9. WireOf(way) = Joined(WordList(P), at) \o reply
  <2> DEFINE c == Begun(P, at, bulk_index)
  <2>1. c \in Seq(WireWord)
    BY <1>7
  <2>2. WireOf(way) = (Joined(WordList(P), at - 1) \o c) \o reply
    BY <1>3
  <2> HIDE DEF c
  <2>3. PhaseNext(way, at, c \o reply)
    BY <1>2, <1>3, <2>1, <2>2, Ahead
  <2>4. PICK r \in Seq(WireWord) : c \o reply = <<>> \o r /\ WireOf(way) = Joined(WordList(P), at) \o r
    BY <1>4, <1>8, <2>3, Zenon DEF PhaseNext
  <2>5. <<>> \o r = r /\ <<>> \o reply = reply
    BY <1>3
  <2> QED
    BY <1>7, <2>4, <2>5 DEF c
<1>10. obj[i] = Result(i)
  <2>1. obj[i] = <<>>
    <3>1. [n \in 1 .. 0 |-> Stored(i, ItemWords(i, n))] = <<>>
      OBVIOUS
    <3> QED
      BY <1>1, <1>2, <1>5, <1>6, <3>1 DEF LongAt
  <2>2. [k \in 1 .. 0 |-> Stored(i, ItemWords(i, k))] = <<>>
    OBVIOUS
  <2> QED
    BY <1>2, <1>4, <2>1, <2>2 DEF Result, LongAt
<1>11. PhaseTaken(way, P, at, sizes, obj, bulk_index', reply', sizes', obj')
  <2>1. \A j \in DOMAIN params : sizes[j] = IF Counts(P[at], j) THEN count(j) ELSE sizes[j]
    BY <1>2, <1>4 DEF LongAt
  <2>2. \A j \in DOMAIN params : obj'[j] = IF Holds(P[at], j) THEN Result(j) ELSE obj[j]
    <3>1. \A j : Holds(P[at], j) <=> j = i
      BY <1>2, <1>4 DEF LongAt
    <3>2. \A j \in DOMAIN params : obj'[j] = obj[j]
      BY <1>3, <1>c
    <3> HIDE DEF i, P
    <3> QED
      BY <1>10, <3>1, <3>2
  <2> HIDE DEF i, P
  <2> QED
    BY <1>1, <1>3, <1>c, <1>4, <1>9, <2>1, <2>2 DEF PhaseTaken
<1>12. Decoding(way, P, at, bulk_index, reply, sizes, obj)
  BY DEF DecodingNow
<1> HIDE DEF P
<1>13. Decoding(way, P, at + 1, bulk_index', reply', sizes', obj')
  BY <1>2, <1>11, <1>12, PhaseDone DEF P
<1> QED
  BY <1>1, <1>13 DEF DecodingNext, P

\* What was read of a phase of its own, and what comes next, are its words.
LongNext(r) ==
  /\ Begun(Phases(decoder.way), at, bulk_index) \o reply = PhaseWords(Current) \o r
  /\ WireOf(decoder.way) = Joined(WordList(Phases(decoder.way)), at) \o r

\* The words of a phase of its own are those that were read and those ahead.
LEMMA LongAhead ==
  ASSUME params \in Seq(Parameters), AllAccepted, DecodingNow,
         at <= Len(Phases(decoder.way)), Current.form # "flat"
  PROVE  /\ Begun(Phases(decoder.way), at, bulk_index) \in Seq(WireWord)
         /\ \E r \in Seq(WireWord) : LongNext(r)
<1> DEFINE way == decoder.way
           P == Phases(way)
           i == Current.params[1].i
           c == Begun(P, at, bulk_index)
<1>1. LongAt(i) /\ at \in DOMAIN P /\ at \in 1 .. Len(P)
  BY LongPhase
<1>2. /\ bulk_index \in Nat /\ reply \in Seq(WireWord)
      /\ WireOf(way) = (Joined(WordList(P), at - 1) \o c) \o reply
      /\ InBulk(P, at) => bulk_index = 0 \/ bulk_index < count(P[at].params[1].i)
  BY DEF DecodingNow, Decoding
<1>3. c \in Seq(WireWord)
  <2>1. CASE InBulk(P, at)
    <3>2. Accepted(i) /\ count(i) \in Nat
      BY <1>1 DEF LongAt
    <3>0. c = Joined(ItemsOf(i), bulk_index)
      BY <2>1 DEF Begun, Current
    <3>a. bulk_index = 0 \/ bulk_index < count(i)
      BY <1>2, <2>1 DEF Current
    <3>1. c = Joined(ItemsOf(i), bulk_index) /\ bulk_index <= count(i)
      BY <1>2, <3>0, <3>2, <3>a
    <3> HIDE DEF i, c
    <3>3. \A k \in 1 .. bulk_index : ItemsOf(i)[k] \in Seq(WireWord)
      BY <1>2, <3>1, <3>2, ItemsJoin
    <3> QED
      BY <1>2, <3>1, <3>3, JoinedType
  <2>2. CASE ~InBulk(P, at)
    BY <2>2 DEF Begun
  <2> QED
    BY <2>1, <2>2
<1> HIDE DEF c
<1>4. PhaseNext(way, at, c \o reply)
  BY <1>1, <1>2, <1>3, Ahead
<1> QED
  BY <1>3, <1>4, Zenon DEF PhaseNext, LongNext, Current, c

\* The words of a string.
LEMMA BlobAhead ==
  ASSUME params \in Seq(Parameters), AllAccepted, DecodingNow,
         at <= Len(Phases(decoder.way)), Current.form = "blob",
         NEW r \in Seq(WireWord), LongNext(r), NEW i, i = Current.params[1].i
  PROVE  LET w == [k \in 1 .. count(i) |-> word(i, k, "w")]
         IN  reply = w \o r /\ w \in Seq(WireWord) /\ Len(w) = count(i)
<1> DEFINE w == [k \in 1 .. count(i) |-> word(i, k, "w")]
<1>1. LongAt(i)
  BY LongPhase
<1>2. Accepted(i) /\ is_blob(type(i)) /\ PhaseWords(Current) = Items(i, ItemWords) /\ count(i) \in Nat
  BY <1>1 DEF LongAt
<1>3. PhaseWords(Current) = w /\ i \in Nat
  BY <1>2, BlobWords, Kinds
<1>4. w \in Seq(WireWord) /\ Len(w) = count(i)
  <2>1. \A k \in 1 .. count(i) : word(i, k, "w") \in WireWord
    BY <1>2, <1>3, AWord
  <2> QED
    BY <1>2, <2>1
<1>5. reply \in Seq(WireWord)
  BY DEF DecodingNow, Decoding
<1>6. Begun(Phases(decoder.way), at, bulk_index) = <<>>
  BY DEF Begun, InBulk, Current
<1> HIDE DEF w
<1>7. <<>> \o reply = w \o r
  BY <1>3, <1>6 DEF LongNext
<1>8. <<>> \o reply = reply
  BY <1>5
<1> QED
  BY <1>4, <1>7, <1>8 DEF w

\* A string is taken as a whole.
LEMMA BlobStep ==
  ASSUME params \in Seq(Parameters), AllAccepted, DecodingNow, DecodeBlob
  PROVE  DecodingNext
<1> DEFINE way == decoder.way
           P == Phases(way)
           i == Current.params[1].i
           n == IF sizes[i] <= Len(reply) THEN sizes[i] ELSE Len(reply)
<1>1. /\ at <= Len(P) /\ Current.form = "blob"
      /\ obj' = [obj EXCEPT ![i] = @ \o [k \in 1 .. n |-> <<reply[k]>>]]
      /\ reply' = SubSeq(reply, n + 1, Len(reply))
      /\ at' = at + 1 /\ UNCHANGED <<sizes, bulk_index>>
  BY Zenon DEF DecodeBlob, Running, phase, Current
<1>2. LongAt(i) /\ at \in DOMAIN P /\ at \in 1 .. Len(P) /\ at # Len(P) + 1
  BY <1>1, LongPhase
<1>3. /\ bulk_index \in Nat /\ reply \in Seq(WireWord)
      /\ DOMAIN sizes = DOMAIN params /\ DOMAIN obj = DOMAIN params
  BY DEF DecodingNow, Decoding
<1>4. PICK r \in Seq(WireWord) : LongNext(r)
  BY <1>1, LongAhead
<1> DEFINE w == [k \in 1 .. count(i) |-> word(i, k, "w")]
<1>5. reply = w \o r /\ w \in Seq(WireWord) /\ Len(w) = count(i)
  BY <1>1, <1>4, BlobAhead
<1>6. /\ i \in DOMAIN params /\ Accepted(i) /\ ~Plain(i) /\ count(i) \in Nat
      /\ sizes[i] = count(i) /\ is_blob(type(i)) /\ obj[i] = <<>>
  BY <1>1, <1>2 DEF LongAt
<1>7. n = count(i)
  BY <1>3, <1>5, <1>6
<1>8. reply' = r
  <2> HIDE DEF w, n
  <2>1. SubSeq(w \o r, n + 1, Len(w \o r)) = r
    BY <1>5, <1>7, TakeBack
  <2> QED
    BY <1>1, <1>5, <2>1
<1>9. obj'[i] = Result(i)
  <2>1. obj'[i] = <<>> \o [k \in 1 .. n |-> <<reply[k]>>]
    BY <1>1, <1>3, <1>6
  <2>2. ASSUME NEW k \in 1 .. n PROVE <<reply[k]>> = Stored(i, ItemWords(i, k))
    <3>1. k \in 1 .. Len(w) /\ k \in Nat
      BY <1>5, <1>6, <1>7
    <3>2. w[k] = word(i, k, "w")
      BY <1>7
    <3> HIDE DEF w
    <3>3. reply[k] = w[k]
      BY <1>5, <3>1
    <3>4. ItemWords(i, k) = <<word(i, k, "w")>>
      BY <1>6, <3>1, ItemWidth
    <3>5. type(i).basic # "int64"
      BY <1>6 DEF is_blob, is_opaque
    <3>6. Stored(i, ItemWords(i, k)) = ItemWords(i, k)
      BY <3>5 DEF Stored, Read
    <3> QED
      BY <3>2, <3>3, <3>4, <3>6
  <2>3. [k \in 1 .. n |-> <<reply[k]>>] = Result(i)
    <3>1. Result(i) = [k \in 1 .. n |-> Stored(i, ItemWords(i, k))]
      BY <1>6, <1>7 DEF Result
    <3> HIDE DEF n, i
    <3> QED
      BY <2>2, <3>1
  <2>4. [k \in 1 .. n |-> <<reply[k]>>] \in Seq({<<reply[k]>> : k \in 1 .. n})
    <3> DEFINE f == [k \in 1 .. n |-> <<reply[k]>>]
               V == {<<reply[k]>> : k \in 1 .. n}
    <3>1. n \in Nat
      BY <1>6, <1>7
    <3> HIDE DEF n
    <3>2. f \in [1 .. n -> V]
      BY Zenon
    <3> HIDE DEF f, V
    <3>3. f \in Seq(V)
      BY <3>1, <3>2, FunctionIsSeq, Zenon
    <3> QED
      BY <3>3 DEF f, V
  <2> DEFINE s == [k \in 1 .. n |-> <<reply[k]>>]
             S == {<<reply[k]>> : k \in 1 .. n}
  <2>5. s \in Seq(S)
    BY <2>4
  <2>6. <<>> \o s = s
    <3> HIDE DEF s, S
    <3> QED
      BY <2>5
  <2> QED
    BY <2>1, <2>3, <2>6
<1>10. PhaseTaken(way, P, at, sizes, obj, bulk_index', reply', sizes', obj')
  <2>0. Current = P[at] /\ \A j : (Holds(P[at], j) <=> j = i) /\ ~Counts(P[at], j)
    BY <1>2 DEF LongAt, Current
  <2>1. \A j \in DOMAIN params : sizes'[j] = IF Counts(P[at], j) THEN count(j) ELSE sizes[j]
    BY <1>1, <2>0
  <2>2. \A j \in DOMAIN params : obj'[j] = IF Holds(P[at], j) THEN Result(j) ELSE obj[j]
    <3> SUFFICES ASSUME NEW j \in DOMAIN params
                 PROVE  obj'[j] = IF Holds(P[at], j) THEN Result(j) ELSE obj[j]
      OBVIOUS
    <3>1. j # i => obj'[j] = obj[j]
      BY <1>1, <1>3
    <3> HIDE DEF i, n, P
    <3> QED
      BY <1>9, <2>0, <3>1
  <2>3. DOMAIN obj' = DOMAIN params
    BY <1>1, <1>3
  <2>4. WireOf(way) = Joined(WordList(P), at) \o r
    BY <1>4 DEF LongNext
  <2> HIDE DEF i, n, P, w
  <2> QED
    BY <1>1, <1>3, <1>8, <2>0, <2>1, <2>2, <2>3, <2>4 DEF PhaseTaken
<1>11. Decoding(way, P, at, bulk_index, reply, sizes, obj)
  BY DEF DecodingNow
<1> HIDE DEF P
<1>12. Decoding(way, P, at + 1, bulk_index', reply', sizes', obj')
  BY <1>2, <1>10, <1>11, PhaseDone DEF P
<1> QED
  BY <1>1, <1>12 DEF DecodingNext, P

\* The first n + 1 values of f are the first n and one more.
LEMMA OneLonger ==
  ASSUME NEW f, NEW n \in Nat
  PROVE  Append([k \in 1 .. n |-> f[k]], f[n + 1]) = [k \in 1 .. n + 1 |-> f[k]]
<1> DEFINE S == {f[k] : k \in 1 .. n + 1}
           u == [k \in 1 .. n |-> f[k]]
           t == [k \in 1 .. n + 1 |-> f[k]]
           y == Append(u, f[n + 1])
<1>1. u \in Seq(S) /\ Len(u) = n /\ f[n + 1] \in S
  OBVIOUS
<1>2. t \in Seq(S) /\ Len(t) = n + 1 /\ t[n + 1] = f[n + 1] /\ \A k \in 1 .. n : t[k] = u[k]
  OBVIOUS
<1> HIDE DEF u, t, S
<1>3. y \in Seq(S) /\ Len(y) = n + 1 /\ y[n + 1] = f[n + 1] /\ \A k \in 1 .. n : y[k] = u[k]
  BY <1>1
<1> HIDE DEF y
<1>4. \A k \in 1 .. n + 1 : y[k] = t[k]
  BY <1>2, <1>3
<1>5. y = t
  BY <1>2, <1>3, <1>4
<1> QED
  BY <1>5 DEF u, t, y

\* The next item of an array.
ItemNext(i, z) ==
  LET c == Joined(ItemsOf(i), bulk_index)
      w == ItemWords(i, bulk_index + 1)
  IN  /\ reply = w \o z /\ c \in Seq(WireWord) /\ w \in Seq(WireWord)
      /\ Begun(Phases(decoder.way), at, bulk_index) = c
      /\ bulk_index < count(i) /\ Joined(ItemsOf(i), bulk_index + 1) = c \o w

\* The words ahead begin with the next item.
LEMMA ItemAhead ==
  ASSUME params \in Seq(Parameters), AllAccepted, DecodingNow,
         at <= Len(Phases(decoder.way)), Current.form = "bulk",
         NEW i, i = Current.params[1].i, sizes[i] > 0,
         NEW r \in Seq(WireWord), LongNext(r)
  PROVE  \E z \in Seq(WireWord) : ItemNext(i, z)
<1> DEFINE way == decoder.way
           P == Phases(way)
           b == bulk_index
           m == count(i)
           W == ItemsOf(i)
           c == Joined(W, b)
           w == W[b + 1]
<1>1. LongAt(i) /\ at \in DOMAIN P
  BY LongPhase
<1>2. /\ bulk_index \in Nat /\ reply \in Seq(WireWord)
      /\ InBulk(P, at) => bulk_index = 0 \/ bulk_index < count(P[at].params[1].i)
  BY DEF DecodingNow, Decoding
<1>3. Accepted(i) /\ m \in Nat /\ sizes[i] = m /\ PhaseWords(Current) = Items(i, ItemWords)
  BY <1>1 DEF LongAt
<1>4. InBulk(P, at) /\ Begun(P, at, bulk_index) = c
  BY <1>1 DEF InBulk, Begun, Current
<1>5. b < m
  <2>1. bulk_index = 0 \/ bulk_index < count(i)
    BY <1>2, <1>4 DEF Current
  <2> QED
    BY <1>2, <1>3, <2>1
<1>6. PhaseWords(Current) = Joined(W, m) /\ \A k \in 1 .. m : W[k] \in Seq(WireWord)
  BY <1>3, ItemsJoin
<1>7. w = ItemWords(i, b + 1)
  <2>1. b + 1 \in 1 .. m
    BY <1>2, <1>3, <1>5
  <2> QED
    BY <2>1 DEF ItemsOf
<1>8. LongNext(r)
  OBVIOUS
<1>9. c \o reply = Joined(W, m) \o r
  BY <1>4, <1>6, <1>8 DEF LongNext
<1>b. b \in Nat /\ b + 1 \in Nat /\ b + 1 <= m /\ b + 1 \in 1 .. m
  BY <1>2, <1>3, <1>5
<1> HIDE DEF W, m, b
<1>10. c \in Seq(WireWord) /\ Joined(W, b + 1) = c \o w
  <2>1. \A k \in 1 .. b + 1 : W[k] \in Seq(WireWord)
    BY <1>3, <1>6, <1>b
  <2> QED
    BY <1>b, <2>1, JoinedNext
<1>11. PICK q \in Seq(WireWord) : Joined(W, m) = Joined(W, b + 1) \o q
  <2>1. BeginsWith(WireWord, Joined(W, m), Joined(W, b + 1))
    BY <1>3, <1>6, <1>b, JoinedFront
  <2> QED
    BY <2>1 DEF BeginsWith
<1>12. w \in Seq(WireWord)
  BY <1>6, <1>b
<1> HIDE DEF c, w
<1>13. c \o reply = ((c \o w) \o q) \o r
  BY <1>9, <1>10, <1>11
<1> DEFINE z == q \o r
<1>14. z \in Seq(WireWord)
  BY <1>11, JoinLength
<1>15. ((c \o w) \o q) \o r = c \o (w \o z) /\ w \o z \in Seq(WireWord)
  <2>2. c \o w \in Seq(WireWord) /\ w \o z \in Seq(WireWord)
    BY <1>10, <1>12, <1>14, JoinLength
  <2>3. ((c \o w) \o q) \o r = (c \o w) \o z
    <3>1. Regroups(c \o w, q, r)
      BY <1>11, <2>2, WordsRegroup, Zenon
    <3> QED
      BY <3>1 DEF Regroups
  <2>4. (c \o w) \o z = c \o (w \o z)
    <3>1. Regroups(c, w, z)
      BY <1>10, <1>12, <1>14, WordsRegroup, Zenon
    <3> QED
      BY <3>1 DEF Regroups
  <2> QED
    BY <2>2, <2>3, <2>4
<1>16. reply = w \o z
  <2> HIDE DEF z
  <2>1. c \o reply = c \o (w \o z)
    BY <1>13, <1>15
  <2> QED
    BY <1>2, <1>10, <1>15, <2>1, CancelFront
<1>17. ItemNext(i, z)
  <2> HIDE DEF z
  <2>1. w = ItemWords(i, bulk_index + 1)
    BY <1>7 DEF b
  <2> QED
    BY <1>4, <1>5, <1>10, <1>12, <1>16, <2>1 DEF ItemNext, b, c, W, m
<1> QED
  BY <1>14, <1>17

\* An array is taken an item at a time.
LEMMA ItemStep ==
  ASSUME params \in Seq(Parameters), AllAccepted, DecodingNow, DecodeItem
  PROVE  DecodingNext
<1> DEFINE way == decoder.way
           P == Phases(way)
           p == Current.params[1]
           i == p.i
           b == bulk_index
           w == ItemWords(i, b + 1)
           c == Joined(ItemsOf(i), b)
<1>1. /\ at <= Len(P) /\ Current.form = "bulk" /\ sizes[i] > 0
      /\ obj' = [obj EXCEPT ![i] = Append(@, Stored(i, SubSeq(reply, 1, Taken(p))))]
      /\ reply' = SubSeq(reply, Taken(p) + 1, Len(reply))
      /\ bulk_index' = bulk_index + 1
      /\ at' = (IF bulk_index + 1 < sizes[i] THEN at ELSE at + 1) /\ UNCHANGED sizes
  BY Zenon DEF DecodeItem, Running, phase, Current, MoreItems
<1>2. LongAt(i) /\ at \in DOMAIN P /\ at \in 1 .. Len(P) /\ at # Len(P) + 1
  BY <1>1, LongPhase
<1>3. /\ bulk_index \in Nat /\ reply \in Seq(WireWord)
      /\ DOMAIN sizes = DOMAIN params /\ DOMAIN obj = DOMAIN params
      /\ WireOf(way) = (Joined(WordList(P), at - 1) \o Begun(P, at, bulk_index)) \o reply
      /\ \A k \in 1 .. at - 1 : \A j : /\ Counts(P[k], j) => sizes[j] = count(j)
                                       /\ Holds(P[k], j) => obj[j] = Result(j)
      /\ \A k \in at .. Len(P) : \A j : Holds(P[k], j) =>
           obj[j] = IF k = at /\ InBulk(P, at)
                    THEN [n \in 1 .. bulk_index |-> Stored(j, ItemWords(j, n))] ELSE <<>>
  BY DEF DecodingNow, Decoding
<1>f. /\ Len(P) \in Nat /\ DOMAIN P = 1 .. Len(P)
      /\ \A k \in DOMAIN P : \A j : Holds(P[k], j) \/ Counts(P[k], j) => j \in DOMAIN params
      /\ \A k, l \in DOMAIN P : \A j : Holds(P[k], j) /\ Holds(P[l], j) => k = l
      /\ \A k \in 1 .. Len(P) : WordList(P)[k] \in Seq(WireWord)
  BY PhaseFacts
<1>4. PICK r \in Seq(WireWord) : LongNext(r)
  BY <1>1, LongAhead
<1>5. PICK z \in Seq(WireWord) : ItemNext(i, z)
  <2> HIDE DEF i
  <2> QED
    BY <1>1, <1>4, ItemAhead DEF i
<1>6. /\ reply = w \o z /\ c \in Seq(WireWord) /\ w \in Seq(WireWord)
      /\ Begun(P, at, b) = c /\ b < count(i) /\ Joined(ItemsOf(i), b + 1) = c \o w
  BY <1>5 DEF ItemNext
<1>7. /\ i \in DOMAIN params /\ Accepted(i) /\ ~Plain(i) /\ count(i) \in Nat
      /\ sizes[i] = count(i) /\ p.special = "" /\ is_bulk(type(i))
      /\ obj[i] = [n \in 1 .. b |-> Stored(i, ItemWords(i, n))]
  BY <1>1, <1>2 DEF LongAt
<1>8. Taken(p) = Len(w)
  <2>0. b + 1 \in Nat
    BY <1>3
  <2>a. Accepted(i) /\ is_bulk(type(i))
    BY <1>7
  <2>1. ~is_blob(type(i)) /\ b + 1 \in Nat
    BY <2>0, <2>a, Kinds
  <2> QED
    BY <1>7, <2>1, ItemWidth DEF Taken
<1>9. SubSeq(reply, 1, Taken(p)) = w /\ reply' = z
  <2> DEFINE t == Taken(p)
  <2>1. t = Len(w) /\ reply' = SubSeq(reply, t + 1, Len(reply))
    BY <1>1, <1>8
  <2> HIDE DEF t, w
  <2>2. SubSeq(w \o z, 1, t) = w /\ SubSeq(w \o z, t + 1, Len(w \o z)) = z
    BY <1>6, <2>1, TakeBack
  <2> QED
    BY <1>6, <2>1, <2>2 DEF t
<1>10. obj'[i] = [k \in 1 .. b + 1 |-> Stored(i, ItemWords(i, k))]
  <2> DEFINE f == [k \in Nat |-> Stored(i, ItemWords(i, k))]
  <2>1. b \in Nat /\ b + 1 \in Nat /\ \A k \in 1 .. b + 1 : k \in Nat
    BY <1>3
  <2>2. obj'[i] = Append(obj[i], Stored(i, w))
    BY <1>1, <1>3, <1>7, <1>9
  <2>3. Stored(i, w) = f[b + 1]
    BY <2>1
  <2>4. obj[i] = [k \in 1 .. b |-> f[k]]
    <3>1. [k \in 1 .. b |-> f[k]] = [k \in 1 .. b |-> Stored(i, ItemWords(i, k))]
      BY <2>1
    <3> QED
      BY <1>7, <3>1, Zenon
  <2>5. [k \in 1 .. b + 1 |-> f[k]] = [k \in 1 .. b + 1 |-> Stored(i, ItemWords(i, k))]
    BY <2>1
  <2> HIDE DEF f, i, w
  <2>6. Append([k \in 1 .. b |-> f[k]], f[b + 1]) = [k \in 1 .. b + 1 |-> f[k]]
    BY <2>1, OneLonger
  <2> QED
    BY <2>2, <2>3, <2>4, <2>5, <2>6
<1>11. /\ DOMAIN obj' = DOMAIN params
       /\ \A j : j \in DOMAIN params /\ j # i => obj'[j] = obj[j]
  BY <1>1, <1>3
<1>12. Current = P[at] /\ \A j : (Holds(P[at], j) <=> j = i) /\ ~Counts(P[at], j)
  BY <1>2 DEF LongAt, Current
<1>13. CASE b + 1 < count(i)
  <2>1. at' = at /\ b + 1 \in Nat
    <3>1. b \in Nat /\ sizes[i] = count(i)
      BY <1>3, <1>7
    <3>2. at' = IF b + 1 < sizes[i] THEN at ELSE at + 1
      BY <1>1
    <3> HIDE DEF i, b
    <3> QED
      BY <1>13, <3>1, <3>2
  <2>2. InBulk(P, at)
    BY <1>1, <1>2, <1>12 DEF InBulk
  <2>3. Begun(P, at, b + 1) = c \o w
    BY <1>6, <1>12, <2>2 DEF Begun
  <2> DEFINE f == Joined(WordList(P), at - 1)
  <2>4. f \in Seq(WireWord)
    <3>2. at - 1 \in Nat /\ \A k \in 1 .. at - 1 : k \in 1 .. Len(P)
      BY <1>2, <1>f
    <3>3. \A k \in 1 .. at - 1 : WordList(P)[k] \in Seq(WireWord)
      BY <1>f, <3>2
    <3> QED
      BY <3>2, <3>3, JoinedType
  <2>5. WireOf(way) = (f \o (c \o w)) \o z
    <3>1. WireOf(way) = (f \o c) \o (w \o z)
      BY <1>3, <1>6
    <3> HIDE DEF f, c, w
    <3>3. f \o c \in Seq(WireWord) /\ c \o w \in Seq(WireWord)
      BY <1>6, <2>4, JoinLength
    <3>4. (f \o c) \o (w \o z) = ((f \o c) \o w) \o z
      <4> DEFINE d == f \o c
      <4>1. d \in Seq(WireWord) /\ w \in Seq(WireWord) /\ z \in Seq(WireWord)
        BY <1>6, <3>3
      <4> HIDE DEF d
      <4>2. (d \o w) \o z = d \o (w \o z)
        <5>1. Regroups(d, w, z)
          BY <4>1, WordsRegroup, Zenon
        <5> QED
          BY <5>1 DEF Regroups
      <4> QED
        BY <4>2 DEF d
    <3>5. (f \o c) \o w = f \o (c \o w)
      <4>1. Regroups(f, c, w)
        BY <1>6, <2>4, WordsRegroup, Zenon
      <4> QED
        BY <4>1 DEF Regroups
    <3> QED
      BY <3>1, <3>4, <3>5
  <2>6. ASSUME NEW k \in 1 .. at - 1, NEW j
        PROVE  /\ Counts(P[k], j) => sizes'[j] = count(j)
               /\ Holds(P[k], j) => obj'[j] = Result(j)
    <3>1. k \in DOMAIN P /\ k # at
      BY <1>2, <1>f
    <3>2. Counts(P[k], j) => sizes'[j] = count(j)
      BY <1>1, <1>3
    <3>3. ASSUME Holds(P[k], j) PROVE obj'[j] = Result(j)
      <4>1. j \in DOMAIN params /\ j # i
        BY <1>2, <1>f, <1>12, <3>1, <3>3
      <4> QED
        BY <1>3, <1>11, <3>3, <4>1
    <3> QED
      BY <3>2, <3>3
  <2>7. ASSUME NEW k \in at .. Len(P), NEW j, Holds(P[k], j)
        PROVE  obj'[j] = IF k = at /\ InBulk(P, at)
                         THEN [n \in 1 .. b + 1 |-> Stored(j, ItemWords(j, n))] ELSE <<>>
    <3>1. k \in DOMAIN P
      BY <1>2, <1>f
    <3>2. CASE k = at
      <4>1. j = i
        BY <1>12, <2>7, <3>2
      <4> QED
        BY <1>10, <2>2, <3>2, <4>1
    <3>3. CASE k # at
      <4>1. j \in DOMAIN params /\ j # i
        BY <1>2, <1>f, <1>12, <2>7, <3>1, <3>3
      <4>2. obj[j] = <<>>
        BY <1>3, <2>7, <3>3
      <4> QED
        BY <1>11, <3>3, <4>1, <4>2
    <3> QED
      BY <3>2, <3>3
  <2>8. WireOf(way) = (Joined(WordList(P), at - 1) \o Begun(P, at, b + 1)) \o z
    BY <2>3, <2>5
  <2>9. InBulk(P, at) => b + 1 < count(P[at].params[1].i)
    BY <1>12, <1>13
  <2>10. at \in 1 .. Len(P) + 1
    BY <1>2, <1>f
  <2> HIDE DEF P, i
  <2>11. Decoding(way, P, at, b + 1, z, sizes', obj')
    BY <1>1, <1>3, <1>11, <2>1, <2>6, <2>7, <2>8, <2>9, <2>10 DEF Decoding
  <2> QED
    BY <1>1, <1>9, <2>1, <2>11 DEF DecodingNext, P
<1>14. CASE ~(b + 1 < count(i))
  <2>1. b + 1 = count(i) /\ at' = at + 1 /\ b + 1 \in Nat
    <3>1. b \in Nat /\ count(i) \in Nat /\ b < count(i) /\ sizes[i] = count(i)
      BY <1>3, <1>6, <1>7
    <3>2. at' = IF b + 1 < sizes[i] THEN at ELSE at + 1
      BY <1>1
    <3> HIDE DEF i, b
    <3> QED
      BY <1>14, <3>1, <3>2
  <2>2. obj'[i] = Result(i)
    BY <1>7, <1>10, <2>1 DEF Result
  <2>3. z = r
    <3>1. c \o reply = PhaseWords(Current) \o r
      BY <1>4, <1>6 DEF LongNext
    <3>2. PhaseWords(Current) = c \o w
      <4>1. PhaseWords(Current) = Joined(ItemsOf(i), count(i))
        BY <1>2, <1>7, ItemsJoin DEF LongAt
      <4> QED
        BY <1>6, <2>1, <4>1
    <3> DEFINE d == c \o w
    <3>3. d \in Seq(WireWord)
      BY <1>6, JoinLength
    <3>4. c \o reply = d \o r
      BY <3>1, <3>2
    <3>5. c \o (w \o z) = d \o z
      <4>1. c \in Seq(WireWord) /\ w \in Seq(WireWord) /\ z \in Seq(WireWord)
        BY <1>5, <1>6
      <4> HIDE DEF c, w
      <4>2. Regroups(c, w, z)
        BY <4>1, WordsRegroup, Zenon
      <4> QED
        BY <4>2 DEF Regroups, d
    <3>6. d \o z = d \o r
      BY <1>6, <3>4, <3>5
    <3> HIDE DEF d, c, w
    <3> QED
      BY <3>3, <3>6, CancelFront
  <2>4. WireOf(way) = Joined(WordList(P), at) \o z
    BY <1>4, <2>3 DEF LongNext
  <2>5. \A j \in DOMAIN params : sizes'[j] = IF Counts(P[at], j) THEN count(j) ELSE sizes[j]
    BY <1>1, <1>12
  <2>6. \A j \in DOMAIN params : obj'[j] = IF Holds(P[at], j) THEN Result(j) ELSE obj[j]
    BY <1>11, <1>12, <2>2
  <2> HIDE DEF P, i
  <2>7. PhaseTaken(way, P, at, sizes, obj, b + 1, z, sizes', obj')
    BY <1>1, <1>3, <1>11, <1>12, <2>1, <2>4, <2>5, <2>6 DEF PhaseTaken
  <2>8. Decoding(way, P, at, bulk_index, reply, sizes, obj)
    BY DEF DecodingNow, P
  <2>9. Decoding(way, P, at + 1, b + 1, z, sizes', obj')
    BY <1>2, <2>7, <2>8, PhaseDone DEF P
  <2> QED
    BY <1>1, <1>9, <2>1, <2>9 DEF DecodingNext, P
<1> QED
  BY <1>13, <1>14

\* No decoder waits for words that will not come.
LEMMA NeverHungry ==
  ASSUME params \in Seq(Parameters), AllAccepted, DecodingNow,
         NEW form \in {"flat", "blob", "bulk"}, Starve(form)
  PROVE  FALSE
<1> DEFINE way == decoder.way
           P == Phases(way)
           i == Current.params[1].i
<1>1. /\ at <= Len(P) /\ Current.form = form /\ 4 * Len(reply) < Current.size
      /\ form # "flat" => sizes[i] > 0
  BY DEF Starve, Running, Hungry, phase, Current
<1>2. /\ at \in 1 .. Len(P) + 1 /\ reply \in Seq(WireWord)
      /\ WireOf(way) = (Joined(WordList(P), at - 1) \o Begun(P, at, bulk_index)) \o reply
  BY DEF DecodingNow, Decoding
<1>3. /\ Len(P) \in Nat /\ DOMAIN P = 1 .. Len(P)
      /\ \A k \in DOMAIN P : GoodFlat(P[k]) \/ GoodLong(P[k])
  BY PhaseFacts
<1>4. at \in DOMAIN P /\ at \in 1 .. Len(P)
  BY <1>1, <1>2, <1>3
<1>5. CASE form = "flat"
  <2>1. Current.form = "flat" /\ Current = P[at]
    BY <1>1, <1>5 DEF Current
  <2>2. Current.size = 4 * Len(PhaseWords(Current))
    BY <1>3, <1>4, <2>1 DEF GoodFlat, GoodLong
  <2> DEFINE c == Begun(P, at, bulk_index)
  <2>3. c = <<>> /\ c \in Seq(WireWord)
    BY <2>1 DEF Begun, InBulk
  <2>4. WireOf(way) = (Joined(WordList(P), at - 1) \o c) \o reply
    BY <1>2
  <2> HIDE DEF c
  <2>5. PhaseNext(way, at, c \o reply)
    BY <1>2, <1>4, <2>3, <2>4, Ahead
  <2>6. PICK r \in Seq(WireWord) : c \o reply = PhaseWords(Current) \o r
                                   /\ PhaseWords(Current) \in Seq(WireWord)
    BY <2>1, <2>5, Zenon DEF PhaseNext
  <2> DEFINE w == PhaseWords(Current)
  <2>7. <<>> \o reply = reply
    BY <1>2
  <2>8. reply = w \o r /\ w \in Seq(WireWord)
    BY <2>3, <2>6, <2>7
  <2> HIDE DEF w
  <2>9. Len(reply) = Len(w) + Len(r) /\ Len(w) \in Nat /\ Len(r) \in Nat
    BY <2>8, JoinLength
  <2>10. 4 * Len(reply) < 4 * Len(w)
    BY <1>1, <2>2 DEF w
  <2> QED
    BY <2>9, <2>10
<1>6. CASE form # "flat"
  <2>1. LongAt(i)
    BY <1>1, <1>6, LongPhase
  <2>2. /\ Accepted(i) /\ sizes[i] = count(i) /\ count(i) \in Nat /\ Current.size = type(i).xdr_size
        /\ Current.form = "blob" => is_blob(type(i))
    BY <2>1 DEF LongAt
  <2>3. PICK r \in Seq(WireWord) : LongNext(r)
    BY <1>1, <1>6, LongAhead
  <2>4. CASE Current.form = "blob"
    <3> DEFINE w == [k \in 1 .. count(i) |-> word(i, k, "w")]
    <3>1. reply = w \o r /\ w \in Seq(WireWord) /\ Len(w) = count(i)
      BY <1>1, <2>3, <2>4, BlobAhead
    <3> HIDE DEF w
    <3>2. Len(reply) = Len(w) + Len(r) /\ Len(r) \in Nat
      <4>1. r \in Seq(WireWord) /\ w \in Seq(WireWord)
        BY <2>3, <3>1
      <4>2. Len(w \o r) = Len(w) + Len(r) /\ Len(r) \in Nat
        BY <4>1
      <4> QED
        BY <3>1, <4>2
    <3>3. Current.size = 4
      BY <2>2, <2>4, Kinds
    <3>4. 4 * Len(reply) < 4 /\ count(i) > 0
      BY <1>1, <1>6, <2>2, <3>3
    <3> HIDE DEF i
    <3> QED
      BY <2>2, <3>1, <3>2, <3>4
  <2>5. CASE Current.form = "bulk"
    <3> DEFINE w == ItemWords(i, bulk_index + 1)
    <3>0. sizes[i] > 0
      BY <1>1, <1>6
    <3>1. PICK z \in Seq(WireWord) : ItemNext(i, z)
      <4> HIDE DEF i
      <4> QED
        BY <1>1, <2>3, <2>5, <3>0, ItemAhead DEF i
    <3>2. reply = w \o z /\ w \in Seq(WireWord)
      BY <3>1 DEF ItemNext
    <3>3. bulk_index + 1 \in Nat
      BY DEF DecodingNow, Decoding
    <3>4. 4 * Len(w) = type(i).xdr_size
      BY <2>2, <3>3, ItemWidth
    <3>5. 4 * Len(reply) < 4 * Len(w)
      BY <1>1, <2>2, <3>4
    <3> HIDE DEF w
    <3>6. Len(reply) = Len(w) + Len(z) /\ Len(w) \in Nat /\ Len(z) \in Nat
      BY <3>1, <3>2, JoinLength
    <3> QED
      BY <3>5, <3>6
  <2> QED
    BY <1>1, <1>6, <2>4, <2>5
<1> QED
  BY <1>5, <1>6

\* What the steps of a decoder leave alone.
LEMMA SameDecoder ==
  ASSUME UNCHANGED <<params, decoder>>, DecodingNext
  PROVE  DecodingNow'
<1>1. \A i : type(i)' = type(i) /\ count(i)' = count(i)
  BY DEF type, count
<1>2. \A i, k : ItemWords(i, k)' = ItemWords(i, k)
  BY DEF ItemWords, type
<1>3. \A i : ItemsOf(i)' = ItemsOf(i)
  BY DEF ItemsOf, ItemWords, type, count
<1>4. \A ph : PhaseWords(ph)' = PhaseWords(ph)
  BY DEF PhaseWords, EntryList, EntryWords, Items, ItemWords, type, count
<1>5. \A Q : WordList(Q)' = WordList(Q)
  BY DEF WordList, PhaseWords, EntryList, EntryWords, Items, ItemWords, type, count
<1>6. \A way : Of(way)' = Of(way)
  BY DEF Of, Is
<1>7. \A way : WireOf(way)' = WireOf(way)
  BY DEF WireOf, Of, Is, Wire, Items, ItemWords, type, count
<1>8. \A way : Phases(way)' = Phases(way)
  BY DEF Phases, AddParameter, Of, Is, type
<1>9. \A i, ws : Stored(i, ws)' = Stored(i, ws)
  BY DEF Stored, Read, type
<1>10. \A i : Result(i)' = Result(i)
  BY DEF Result, Plain, Stored, Read, ItemWords, type, count
<1>11. \A Q, a, b : Begun(Q, a, b)' = Begun(Q, a, b)
  BY DEF Begun, ItemsOf, ItemWords, type, count
<1>12. decoder' = decoder /\ params' = params
  OBVIOUS
<1> DEFINE way == decoder.way
           P == Phases(way)
<1>13. way' = way /\ P' = P
  BY <1>8, <1>12
<1>14. (/\ at \in 1 .. Len(P) + 1 /\ bulk_index \in Nat /\ reply \in Seq(WireWord)
        /\ DOMAIN sizes = DOMAIN params /\ DOMAIN obj = DOMAIN params)'
  BY <1>12, <1>13 DEF DecodingNext, Decoding
<1>15. (WireOf(way) = (Joined(WordList(P), at - 1) \o Begun(P, at, bulk_index)) \o reply)'
  BY <1>5, <1>7, <1>11, <1>13 DEF DecodingNext, Decoding
<1>16. (InBulk(P, at) => bulk_index = 0 \/ bulk_index < count(P[at].params[1].i))'
  BY <1>1, <1>13 DEF DecodingNext, Decoding
<1>17. (\A k \in 1 .. at - 1 : \A i : /\ Counts(P[k], i) => sizes[i] = count(i)
                                      /\ Holds(P[k], i) => obj[i] = Result(i))'
  BY <1>1, <1>10, <1>13 DEF DecodingNext, Decoding
<1>18. (\A k \in at .. Len(P) : \A i : Holds(P[k], i) =>
          obj[i] = IF k = at /\ InBulk(P, at)
                   THEN [n \in 1 .. bulk_index |-> Stored(i, ItemWords(i, n))] ELSE <<>>)'
  <2> DEFINE Part(i, m) == [n \in 1 .. m |-> Stored(i, ItemWords(i, n))]
             Parts == \A k \in at .. Len(P) : \A i : Holds(P[k], i) =>
                        obj[i] = IF k = at /\ InBulk(P, at) THEN Part(i, bulk_index) ELSE <<>>
  <2>1. \A i, m : Part(i, m)' = Part(i, m)
    BY <1>2, <1>9
  <2>2. \A k \in at' .. Len(P) : \A i : Holds(P[k], i) =>
          obj'[i] = IF k = at' /\ InBulk(P, at') THEN Part(i, bulk_index') ELSE <<>>
    BY Zenon DEF DecodingNext, Decoding
  <2> HIDE DEF Part
  <2>3. Parts'
    BY <1>13, <2>1, <2>2
  <2> QED
    BY <2>3 DEF Part
<1> QED
  BY <1>14, <1>15, <1>16, <1>17, <1>18 DEF DecodingNow, Decoding

\* What a decoder reads is what it was sent: a reply, or a request in XDR.  And it
\* keeps its place in it.
Faithful == (decoder.way = "response" \/ ~Garbles) /\ ~SkipsOpaque

\* Nothing is stored before the decoder begins, and then it is sound at every
\* point: it never waits in vain, and at the end all phases are over.
DecodingInv ==
  /\ EncInv
  /\ stage \notin {"decode", "done", "hungry"} =>
       /\ bulk_index = 0
       /\ sizes = [i \in 1 .. Len(params) |-> 0] /\ obj = [i \in 1 .. Len(params) |-> <<>>]
  /\ stage \in {"decode", "done", "hungry"} /\ Faithful =>
       /\ stage # "hungry" /\ DecodingNow
       /\ stage = "done" => at = Len(Phases(decoder.way)) + 1

\* Nothing is stored at first.
THEOREM DecodingInvInit == CallInit => DecodingInv
<1> SUFFICES ASSUME CallInit PROVE DecodingInv
  OBVIOUS
<1>1. EncInv
  BY EncInvInit
<1>2. /\ stage = "declare" /\ bulk_index = 0 /\ params = <<>> /\ sizes = <<>> /\ obj = <<>>
  BY DEF CallInit
<1>3. <<>> = [i \in 1 .. Len(<<>>) |-> 0] /\ <<>> = [i \in 1 .. Len(<<>>) |-> <<>>]
  OBVIOUS
<1> QED
  BY <1>1, <1>2, <1>3 DEF DecodingInv

\* Where a decoder begins.
LEMMA Beginning ==
  ASSUME params \in Seq(Parameters), AllAccepted, NEW way,
         sizes = [i \in 1 .. Len(params) |-> 0], obj = [i \in 1 .. Len(params) |-> <<>>]
  PROVE  Decoding(way, Phases(way), 1, 0, WireOf(way), sizes, obj)
<1> DEFINE P == Phases(way)
<1>1. /\ Len(P) \in Nat /\ DOMAIN P = 1 .. Len(P)
      /\ \A k \in DOMAIN P : GoodFlat(P[k]) \/ GoodLong(P[k])
      /\ \A k \in DOMAIN P : GoodLong(P[k]) => k > 1 /\ Counts(P[k - 1], P[k].params[1].i)
      /\ \A k \in DOMAIN P : \A i : Holds(P[k], i) \/ Counts(P[k], i) => i \in DOMAIN params
      /\ WireOf(way) \in Seq(WireWord)
  BY PhaseFacts
<1>2. DOMAIN sizes = DOMAIN params /\ DOMAIN obj = DOMAIN params
  OBVIOUS
<1> HIDE DEF P
<1>3. ~InBulk(P, 1)
  <2> SUFFICES ASSUME 1 \in DOMAIN P, P[1].form = "bulk" PROVE FALSE
    BY DEF InBulk
  <2>1. GoodLong(P[1])
    BY <1>1 DEF GoodFlat
  <2> QED
    BY <1>1, <2>1
<1>4. Begun(P, 1, 0) = <<>> /\ Joined(WordList(P), 1 - 1) = <<>>
  <2>1. 1 - 1 = 0
    OBVIOUS
  <2> QED
    BY <1>3, <2>1, JoinedNone DEF Begun
<1>5. WireOf(way) = (Joined(WordList(P), 1 - 1) \o Begun(P, 1, 0)) \o WireOf(way)
  <2> DEFINE w == WireOf(way)
  <2>1. w \in Seq(WireWord)
    BY <1>1
  <2> HIDE DEF w
  <2>2. (<<>> \o <<>>) \o w = w
    BY <2>1
  <2> QED
    BY <1>4, <2>2 DEF w
<1>6. \A k \in 1 .. Len(P) : \A i : Holds(P[k], i) => obj[i] = <<>>
  BY <1>1, <1>2
<1>7. 1 \in 1 .. Len(P) + 1
  BY <1>1
<1>8. \A k \in 1 .. 1 - 1 : FALSE
  OBVIOUS
<1> QED
  BY <1>1, <1>2, <1>3, <1>5, <1>6, <1>7, <1>8 DEF Decoding, P

\* Every step of a decoder that reads what it was sent leaves it sound.
THEOREM DecodingInvStep == DecodingInv /\ [CallNext]_callVars => DecodingInv'
<1> SUFFICES ASSUME DecodingInv, [CallNext]_callVars PROVE DecodingInv'
  OBVIOUS
<1>0. EncInv /\ EncInv'
  BY EncInvStep DEF DecodingInv
<1>a. UNCHANGED <<params, caller, decoder>> => (Faithful' <=> Faithful)
  <2> SUFFICES ASSUME UNCHANGED <<params, caller, decoder>> PROVE Faithful' <=> Faithful
    OBVIOUS
  <2>1. Garbles' <=> Garbles
    BY SameRequest
  <2>2. SkipsOpaque' <=> SkipsOpaque
    BY DEF SkipsOpaque, Of, Is, type, count
  <2> QED
    BY <2>1, <2>2 DEF Faithful
<1>b. params \in Seq(Parameters)
  BY <1>0 DEF EncInv
<1>1. ASSUME NEW p \in Parameters, Parameter(p) PROVE DecodingInv'
  <2>1. /\ stage = "declare" /\ stage' = "declare" /\ bulk_index' = bulk_index
        /\ params' = Append(params, p) /\ sizes' = Append(sizes, 0) /\ obj' = Append(obj, <<>>)
    BY <1>1 DEF Parameter
  <2>2. /\ bulk_index = 0 /\ sizes = [i \in 1 .. Len(params) |-> 0]
        /\ obj = [i \in 1 .. Len(params) |-> <<>>]
    BY <2>1 DEF DecodingInv
  <2> DEFINE m == Len(params)
             zero == [i \in Nat |-> 0]
             none == [i \in Nat |-> <<>>]
  <2>3. m \in Nat /\ Len(params') = m + 1
    BY <1>b, <2>1
  <2>4. /\ sizes = [i \in 1 .. m |-> zero[i]] /\ zero[m + 1] = 0
        /\ obj = [i \in 1 .. m |-> none[i]] /\ none[m + 1] = <<>>
        /\ [i \in 1 .. m + 1 |-> zero[i]] = [i \in 1 .. m + 1 |-> 0]
        /\ [i \in 1 .. m + 1 |-> none[i]] = [i \in 1 .. m + 1 |-> <<>>]
    BY <2>2, <2>3
  <2> HIDE DEF m, zero, none
  <2>5. /\ Append([i \in 1 .. m |-> zero[i]], zero[m + 1]) = [i \in 1 .. m + 1 |-> zero[i]]
        /\ Append([i \in 1 .. m |-> none[i]], none[m + 1]) = [i \in 1 .. m + 1 |-> none[i]]
    BY <2>3, OneLonger
  <2>6. /\ sizes' = [i \in 1 .. Len(params') |-> 0]
        /\ obj' = [i \in 1 .. Len(params') |-> <<>>]
    BY <2>1, <2>3, <2>4, <2>5
  <2> QED
    BY <1>0, <2>1, <2>2, <2>6 DEF DecodingInv
<1>2. CASE Emit
  <2>1. /\ stage = "declare" /\ stage' \in {"refused", "EINVAL", "encode"}
        /\ UNCHANGED <<params, sizes, obj, bulk_index>>
    BY <1>2 DEF Emit
  <2> QED
    BY <1>0, <2>1 DEF DecodingInv
<1>3. CASE EncodeParameter
  <2>1. /\ stage = "encode" /\ stage' \in {"EINVAL", "encode"}
        /\ UNCHANGED <<params, sizes, obj, bulk_index>>
    BY <1>3 DEF EncodeParameter
  <2> QED
    BY <1>0, <2>1 DEF DecodingInv
<1>4. CASE Send
  <2>1. /\ stage = "encode" /\ stage' = "decode" /\ at' = 1
        /\ at = Len(Of("request")) + 1
        /\ reply' = (IF decoder.way = "request" THEN sent ELSE WireOf("response"))
        /\ UNCHANGED <<params, caller, decoder, sent, sizes, bulk_index, obj>>
    BY <1>4 DEF Send
  <2>2. /\ bulk_index = 0 /\ sizes = [i \in 1 .. Len(params) |-> 0] /\ AllAccepted
        /\ obj = [i \in 1 .. Len(params) |-> <<>>]
    BY <1>0, <2>1 DEF DecodingInv, EncInv
  <2>3. ASSUME Faithful PROVE DecodingNow'
    <3>1. reply' = WireOf(decoder.way)
      <4>1. CASE decoder.way = "request"
        <5>1. sent = Joined(WiresOf("request"), at - 1)
          BY <1>0, <2>1, <2>3, <4>1 DEF EncInv, Faithful
        <5>2. WireOf("request") = Joined(WiresOf("request"), Len(Of("request")))
              /\ Len(Of("request")) \in Nat
          BY <1>b, <2>2, OfAccepted
        <5>3. at - 1 = Len(Of("request"))
          BY <2>1, <5>2
        <5> QED
          BY <2>1, <4>1, <5>1, <5>2, <5>3
      <4>2. CASE decoder.way = "response"
        BY <2>1, <4>2
      <4>3. decoder.way \in {"request", "response"}
        BY <1>0 DEF EncInv, Decoders
      <4> QED
        BY <4>1, <4>2, <4>3
    <3>2. Decoding(decoder.way, Phases(decoder.way), 1, 0, WireOf(decoder.way), sizes, obj)
      BY <1>b, <2>2, Beginning
    <3>3. DecodingNext
      BY <2>1, <2>2, <3>1, <3>2 DEF DecodingNext
    <3> QED
      BY <2>1, <3>3, SameDecoder
  <2> QED
    BY <1>0, <1>a, <2>1, <2>3 DEF DecodingInv
<1>5. CASE DecodeStep
  <2>1. /\ stage = "decode" /\ stage' \in {"decode", "done", "hungry"}
        /\ UNCHANGED <<params, caller, decoder, sent>>
    BY <1>5, DecodeLeaves
  <2> SUFFICES ASSUME Faithful
               PROVE  /\ stage' # "hungry" /\ DecodingNow'
                      /\ stage' = "done" => at' = Len(Phases(decoder.way)') + 1
    BY <1>0, <1>a, <2>1 DEF DecodingInv
  <2>2. AllAccepted /\ DecodingNow
    BY <1>0, <2>1 DEF DecodingInv, EncInv
  <2>3. ASSUME NEW form \in {"flat", "blob", "bulk"}, Starve(form) PROVE FALSE
    BY <1>b, <2>2, <2>3, NeverHungry
  <2>4. ASSUME DecodingNext PROVE DecodingNow'
    BY <2>1, <2>4, SameDecoder
  <2>5. CASE DecodeFlat
    <3>1. stage' = "decode"
      BY <2>1, <2>5 DEF DecodeFlat
    <3>2. DecodingNext
      BY <1>b, <2>2, <2>5, FlatStep
    <3> QED
      BY <2>4, <3>1, <3>2
  <2>6. ASSUME NEW form \in {"blob", "bulk"}, SkipPhase(form)
        PROVE  stage' = "decode" /\ DecodingNow'
    <3>1. stage' = "decode"
      BY <2>1, <2>6 DEF SkipPhase
    <3>2. DecodingNext
      BY <1>b, <2>2, <2>6, SkipStep DEF Faithful
    <3> QED
      BY <2>4, <3>1, <3>2
  <2>7. CASE DecodeBlob
    <3>1. stage' = "decode"
      BY <2>1, <2>7 DEF DecodeBlob
    <3>2. DecodingNext
      BY <1>b, <2>2, <2>7, BlobStep
    <3> QED
      BY <2>4, <3>1, <3>2
  <2>8. CASE DecodeItem
    <3>1. stage' = "decode"
      BY <2>1, <2>8 DEF DecodeItem
    <3>2. DecodingNext
      BY <1>b, <2>2, <2>8, ItemStep
    <3> QED
      BY <2>4, <3>1, <3>2
  <2>9. CASE Decoded
    <3>1. /\ at = Len(Phases(decoder.way)) + 1 /\ stage' = "done"
          /\ UNCHANGED <<params, decoder, at, reply, sizes, bulk_index, obj>>
      BY <2>9 DEF Decoded
    <3>2. DecodingNext
      BY <2>2, <3>1 DEF DecodingNow, DecodingNext
    <3>3. \A way : Phases(way)' = Phases(way)
      <4>1. params' = params
        BY <3>1
      <4> QED
        BY <4>1 DEF Phases, AddParameter, Of, Is, type
    <3> QED
      BY <2>4, <3>1, <3>2, <3>3
  <2> QED
    BY <1>5, <2>1, <2>3, <2>5, <2>6, <2>7, <2>8, <2>9 DEF DecodeStep
<1>6. CASE UNCHANGED callVars
  <2>1. DecodingNow => DecodingNow'
    <3>1. DecodingNow => DecodingNext
      BY <1>6 DEF DecodingNow, DecodingNext, callVars
    <3> QED
      BY <1>6, <3>1, SameDecoder DEF callVars
  <2>2. \A way : Phases(way)' = Phases(way)
    BY <1>6 DEF Phases, AddParameter, Of, Is, type, callVars
  <2> QED
    BY <1>0, <1>6, <1>a, <2>1, <2>2 DEF DecodingInv, callVars
<1> QED
  BY <1>1, <1>2, <1>3, <1>4, <1>5, <1>6 DEF CallNext, DecodeStep, CallFinished

\* So it is sound at every point, for all parameters and values.
THEOREM CallsDecode == CallSpec => []DecodingInv
  BY DecodingInvInit, DecodingInvStep, PTL DEF CallSpec

\* At the end all the words are taken and all the parameters stored.
LEMMA AllDecoded ==
  ASSUME params \in Seq(Parameters), AllAccepted, DecodingNow,
         at = Len(Phases(decoder.way)) + 1
  PROVE  /\ reply = <<>>
         /\ \A j \in DOMAIN Of(decoder.way) : obj[Of(decoder.way)[j]] = Result(Of(decoder.way)[j])
<1> DEFINE way == decoder.way
           P == Phases(way)
           m == Len(P)
<1>1. /\ m \in Nat /\ DOMAIN P = 1 .. m
      /\ \A j \in DOMAIN Of(way) : \E k \in DOMAIN P : Holds(P[k], Of(way)[j])
      /\ WireOf(way) = Joined(WordList(P), m) /\ WireOf(way) \in Seq(WireWord)
  BY PhaseFacts
<1>2. /\ reply \in Seq(WireWord)
      /\ WireOf(way) = (Joined(WordList(P), at - 1) \o Begun(P, at, bulk_index)) \o reply
      /\ \A k \in 1 .. at - 1 : \A i : Holds(P[k], i) => obj[i] = Result(i)
  BY DEF DecodingNow, Decoding
<1>e. at = m + 1
  OBVIOUS
<1> HIDE DEF P, m
<1>3. at - 1 = m /\ at \notin DOMAIN P
  BY <1>1, <1>e
<1>4. Begun(P, at, bulk_index) = <<>>
  BY <1>3 DEF Begun, InBulk
<1> DEFINE w == WireOf(way)
<1>5. w = (w \o <<>>) \o reply /\ w \in Seq(WireWord)
  BY <1>1, <1>2, <1>3, <1>4
<1> HIDE DEF w
<1>6. reply = <<>>
  <2>1. w \o <<>> = w /\ <<>> \in Seq(WireWord)
    BY <1>5
  <2>2. w \o <<>> = w \o reply
    BY <1>5, <2>1
  <2> QED
    BY <1>2, <1>5, <2>1, <2>2, CancelFront
<1>7. ASSUME NEW j \in DOMAIN Of(way) PROVE obj[Of(way)[j]] = Result(Of(way)[j])
  <2>1. PICK k \in DOMAIN P : Holds(P[k], Of(way)[j])
    BY <1>1
  <2> QED
    BY <1>1, <1>2, <1>3, <2>1
<1> QED
  BY <1>6, <1>7

\* The phases of a decoder fit the words there are, whatever the parameters.
THEOREM AlwaysFits == CallSpec => []PhasesFitWords
<1>1. DecodingInv => PhasesFitWords
  <2> SUFFICES ASSUME DecodingInv, Faithful
               PROVE  stage # "hungry" /\ (stage = "done" => reply = <<>>)
    BY DEF PhasesFitWords, Faithful
  <2>1. stage # "hungry"
    BY DEF DecodingInv
  <2>2. ASSUME stage = "done" PROVE reply = <<>>
    <3>1. /\ params \in Seq(Parameters) /\ AllAccepted /\ DecodingNow
          /\ at = Len(Phases(decoder.way)) + 1
      BY <2>2 DEF DecodingInv, EncInv
    <3> QED
      BY <3>1, AllDecoded
  <2> QED
    BY <2>1, <2>2
<1> QED
  BY <1>1, CallsDecode, PTL

\* What is stored for a parameter is its value, or the words of a 64-bit integer
\* are in the wrong halves.
LEMMA ResultIsValue ==
  ASSUME params \in Seq(Parameters), NEW i, Accepted(i)
  PROVE  Result(i) = Value(i) <=> ~(decoder.side = "py" /\ is_single_int64(type(i)))
<1> DEFINE whole(ws) == Read(i, ws, Whole)
<1>1. \A ws : CInt64(ws) = Whole(ws)
  BY DEF CInt64
<1>2. \A ws : Stored(i, ws) = IF type(i).basic # "int64" THEN ws
                              ELSE IF decoder.side = "py" /\ is_single(type(i)) THEN PyInt64(ws)
                              ELSE Whole(ws)
  BY <1>1, Zenon DEF Stored, Read
<1>3. Value(i) = IF Plain(i)
                 THEN <<IF type(i).basic = "int64" THEN Whole(ItemWords(i, 0)) ELSE ItemWords(i, 0)>>
                 ELSE [k \in 1 .. count(i) |-> IF type(i).basic = "int64" THEN Whole(ItemWords(i, k))
                                               ELSE ItemWords(i, k)]
  BY Zenon DEF Value, Read, Plain
<1>4. is_single_int64(type(i)) <=> is_single(type(i)) /\ type(i).basic = "int64"
  BY DEF is_single_int64
<1>5. CASE decoder.side = "py" /\ is_single_int64(type(i))
  <2> DEFINE h == word(i, 0, "hi")
             l == word(i, 0, "lo")
  <2>1. Plain(i) /\ ItemWords(i, 0) = <<h, l>>
    BY <1>4, <1>5 DEF Plain, is_blob, is_opaque, ItemWords, is_int, is_struct
  <2>2. Result(i) = <<Halves({h, l}, {})>>
    BY <1>2, <1>4, <1>5, <2>1 DEF Result, PyInt64
  <2>3. Value(i) = <<Halves({h}, {l})>>
    <3>1. Whole(<<h, l>>) = Halves({h}, {l})
      <4> HIDE DEF h, l
      <4> QED
        BY DEF Whole
    <3>2. Value(i) = <<Whole(ItemWords(i, 0))>>
      BY <1>3, <1>4, <1>5, <2>1, Zenon
    <3> QED
      BY <2>1, <3>1, <3>2
  <2>4. Halves({h, l}, {}) # Halves({h}, {l})
    <3> HIDE DEF h, l
    <3>1. {l} # {}
      OBVIOUS
    <3> QED
      BY <3>1 DEF Halves
  <2> DEFINE a == Halves({h, l}, {})
             b == Halves({h}, {l})
  <2>5. a # b /\ Result(i) = <<a>> /\ Value(i) = <<b>>
    BY <2>2, <2>3, <2>4
  <2> HIDE DEF a, b
  <2>6. <<a>>[1] = a /\ <<b>>[1] = b
    OBVIOUS
  <2>7. Result(i) # Value(i)
    BY <2>5, <2>6
  <2> QED
    BY <1>5, <2>7
<1>6. CASE ~(decoder.side = "py" /\ is_single_int64(type(i)))
  <2>1. \A ws : Stored(i, ws) = IF type(i).basic = "int64" THEN Whole(ws) ELSE ws
    BY <1>2, <1>4, <1>6
  <2>2. Result(i) = Value(i)
    <3>1. CASE Plain(i)
      BY <1>3, <2>1, <3>1 DEF Result
    <3>2. CASE ~Plain(i)
      <4>1. Result(i) = [k \in 1 .. count(i) |-> Stored(i, ItemWords(i, k))]
        BY <3>2 DEF Result
      <4>2. Value(i) = [k \in 1 .. count(i) |-> IF type(i).basic = "int64" THEN Whole(ItemWords(i, k))
                                               ELSE ItemWords(i, k)]
        BY <1>3, <3>2
      <4> QED
        BY <2>1, <4>1, <4>2
    <3> QED
      BY <3>1, <3>2
  <2> QED
    BY <1>6, <2>2
<1> QED
  BY <1>5, <1>6

\* What is decoded is what was encoded, whatever the parameters and their
\* values.
THEOREM AlwaysAsSent == CallSpec => []DecodedAsSent
<1>1. DecodingInv => DecodedAsSent
  <2> SUFFICES ASSUME DecodingInv, stage = "done", Faithful, NEW j \in DOMAIN Of(decoder.way)
               PROVE  LET i == Of(decoder.way)[j]
                      IN  obj[i] = Value(i) <=> ~(decoder.side = "py" /\ is_single_int64(type(i)))
    BY Zenon DEF DecodedAsSent, Faithful
  <2> DEFINE i == Of(decoder.way)[j]
  <2>1. /\ params \in Seq(Parameters) /\ AllAccepted /\ DecodingNow
        /\ at = Len(Phases(decoder.way)) + 1
    BY DEF DecodingInv, EncInv
  <2>2. obj[i] = Result(i)
    BY <2>1, AllDecoded
  <2>3. Accepted(i)
    BY <2>1, OfAccepted
  <2> HIDE DEF i
  <2>4. Result(i) = Value(i) <=> ~(decoder.side = "py" /\ is_single_int64(type(i)))
    BY <2>1, <2>3, ResultIsValue
  <2> QED
    BY <2>2, <2>4 DEF i
<1> QED
  BY <1>1, CallsDecode, PTL
=============================================================================
