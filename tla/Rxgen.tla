------------------------------- MODULE Rxgen -------------------------------
(***************************************************************************)
(* The interface compiler: rxgen.py reads interface files definition by    *)
(* definition into one context (class xdr_context) and then emits, in      *)
(* order, the structures, the call functions and the Python module.  An    *)
(* error of the interface is printed and compilation goes on; only an      *)
(* exception stops it.                                                     *)
(*                                                                         *)
(* A step is one production of the grammar with its semantic action, or    *)
(* one turn of an emitting loop.  Numbers are given by their spelling, a   *)
(* word of the abort table is taken modulo Word (2^32 in the program).     *)
(*                                                                         *)
(* The spellings are decimal ones, with at most nine digits in the size of *)
(* an array, which have the same value everywhere.  int(), which takes the *)
(* codes and the sizes, raises ValueError over a hexadecimal number and    *)
(* over the L that is appended to a longer size, and an octal is a decimal *)
(* to it but not to the C compiler.  The interface files have such numbers *)
(* as constants only that are neither codes nor sizes.                     *)
(***************************************************************************)
EXTENDS RxgenTypes, FiniteSets, SequencesExt

CONSTANTS
  Alphabets,       \* bound: sets of definitions the files are made of
  MaxDefinitions,  \* bound: definitions in all files together
  MaxFiles,        \* bound: files on the command line
  Number,          \* the value of each numeric literal
  Word             \* numbers that a word can tell apart

VARIABLES
  alphabet,        \* the definitions that may come
  files,           \* files still to parse, the current one included
  parsed,          \* definitions parsed so far
  pc,              \* "parse", the emitting loops, "written" or "raised"
  types, typedefs, structs, all_structs, constants,
  packages, pkg, abort_codes, abort_ids, abort_count, funcs,
  error_occurred,  \* a syntax error was met
  complained,      \* history: an error has been printed
  encoder,         \* words that each emitted rxgen_encode_*() writes
  emitted,         \* all_structs and funcs emitted so far
  table            \* kafs_abort_map as the generated module fills it

names == <<types, typedefs, structs, all_structs, constants>>
aborts == <<abort_codes, abort_ids, abort_count>>
context == <<names, packages, pkg, aborts, funcs>>
reading == <<alphabet, files, parsed, error_occurred>>
output == <<encoder, emitted, table>>
vars == <<reading, pc, context, complained, output>>

None == "None"
NoException == <<>>
NoPackage == 0        \* packages are numbers, in the order of their names

\* What the grammar says of a definition: constants and codes have a numeric
\* literal as their value, and lists are lists.
Grammatical(d) ==
  /\ d.kind = "package" => d.name \in Nat \ {NoPackage}
  /\ d.kind = "const" => d.value \in DOMAIN Number
  /\ d.kind \in {"codes", "enum"} =>
       /\ d.list \in Seq(Range(d.list))
       /\ \A i \in DOMAIN d.list : d.list[i].value \in DOMAIN Number
  /\ d.kind = "struct" => d.members \in Seq(Range(d.members))

ASSUME RxgenAssumption ==
  /\ MaxDefinitions \in Nat /\ MaxFiles \in Nat \ {0}
  /\ Word \in Nat \ {0}
  /\ \A l \in DOMAIN Number : Number[l] \in Int
  /\ \A a \in Alphabets : \A d \in a : Grammatical(d)

-----------------------------------------------------------------------------
(* Look-ups.  Naming what does not exist is fatal for a type, not for a    *)
(* number.                                                                 *)

bound(name) == name \in DOMAIN types \cup DOMAIN typedefs
get_type(name) == IF name \in DOMAIN types THEN types[name] ELSE typedefs[name]

get_constant(name) == IF name \in DOMAIN constants THEN constants[name] ELSE 0
value(v) == IF v \in DOMAIN Number THEN Number[v] ELSE get_constant(v)
undefined(v) == v # None /\ v \notin DOMAIN Number \cup DOMAIN constants

\* A declaration: [name, spec, form, size], size being None or a value.
Declared(d) == Declare(get_type(d.spec), d.form, value(d.size), d.size # None)
Complains(d) == undefined(d.size) \/
                DeclareComplains(get_type(d.spec), d.form, d.size # None)
Member(d) == [name |-> d.name, typespec |-> Declared(d)]

TypeOK ==
  /\ alphabet \in Alphabets
  /\ files \in 0 .. MaxFiles /\ parsed \in 0 .. MaxDefinitions
  /\ pc \in {"parse", "structs", "funcs", "module", "written", "raised"}
  /\ pkg \in packages \cup {NoPackage}
  /\ {all_structs[i].name : i \in DOMAIN all_structs} = DOMAIN structs
  /\ DOMAIN structs \subseteq DOMAIN types
  /\ \A n \in DOMAIN types : types[n].xdr_size \in Nat
  /\ \A c \in DOMAIN constants : constants[c] \in Int
  /\ DOMAIN abort_codes = packages
  /\ DOMAIN abort_ids \subseteq 0 .. Word - 1
  /\ abort_count \in Nat
  /\ emitted.structs \in 0 .. Len(all_structs) /\ emitted.funcs \in 0 .. Len(funcs)
  /\ error_occurred \in BOOLEAN /\ complained \in BOOLEAN

Init ==
  /\ alphabet \in Alphabets /\ files = MaxFiles /\ parsed = 0 /\ pc = "parse"
  /\ types = basic_types /\ typedefs = <<>> /\ structs = <<>> /\ all_structs = <<>>
  /\ constants = [RXRPC_SECURITY_PLAIN |-> 0]
  /\ packages = {} /\ pkg = NoPackage /\ abort_codes = <<>>
  /\ abort_ids = <<>> /\ abort_count = 0 /\ funcs = <<>>
  /\ error_occurred = FALSE /\ complained = FALSE
  /\ encoder = <<>> /\ emitted = [structs |-> 0, funcs |-> 0] /\ table = <<>>

-----------------------------------------------------------------------------
(* Parsing. *)

\* A dict with what it lacks of another; and one that takes a key unless it has it.
Filled(dict, other) ==
  [k \in DOMAIN dict \cup DOMAIN other |-> IF k \in DOMAIN dict THEN dict[k] ELSE other[k]]
Taking(dict, key, v) ==
  [k \in DOMAIN dict \cup {key} |-> IF k \in DOMAIN dict THEN dict[k] ELSE v]

Next_(d) ==
  /\ pc = "parse" /\ parsed < MaxDefinitions
  /\ d \in alphabet /\ parsed' = parsed + 1
  /\ UNCHANGED <<alphabet, output>>

Goes(complaint) ==
  /\ complained' = (complained \/ complaint)
  /\ UNCHANGED <<pc, files, error_occurred>>

Raise ==
  /\ pc' = "raised"
  /\ UNCHANGED <<files, error_occurred, context, complained>>

Package(d) ==
  /\ Next_(d) /\ d.kind = "package"
  /\ Goes(d.name \in packages)
  /\ IF d.name \in packages
     THEN UNCHANGED <<packages, pkg, abort_codes>>
     ELSE /\ packages' = packages \cup {d.name}
          /\ pkg' = d.name
          /\ abort_codes' = Taking(abort_codes, d.name, <<>>)
  /\ UNCHANGED <<names, abort_ids, abort_count, funcs>>

\* add_constant() for each of a list of [name, value]: the first one stays.
Added(list) ==
  LET First(n) == CHOOSE i \in DOMAIN list :
                    list[i].name = n /\ \A j \in 1 .. i - 1 : list[j].name # n
  IN  Filled(constants, [n \in {list[i].name : i \in DOMAIN list} |->
                           Number[list[First(n)].value]])
Clashes(list) ==
  \E i \in DOMAIN list : list[i].name \in
    DOMAIN constants \cup {list[j].name : j \in 1 .. i - 1}

ConstantDef(d) ==
  /\ Next_(d) /\ d.kind = "const"
  /\ Goes(Clashes(<<d>>))
  /\ constants' = Added(<<d>>)
  /\ UNCHANGED <<types, typedefs, structs, all_structs, packages, pkg, aborts, funcs>>

\* The unsigned number that an abort carries on the wire.
U32(n) == IF n < 0 THEN n + Word ELSE n

\* A list of error codes: constants that are also entered as abort codes of the
\* package.  A code defined twice is entered twice, as the constant it first was.
ErrorCodes(d) ==
  LET cs == Added(d.list)
      entry == [i \in DOMAIN d.list |-> d.list[i].name]
      Latest(u) == CHOOSE i \in DOMAIN entry :
                   /\ U32(cs[entry[i]]) = u
                   /\ \A j \in DOMAIN entry : U32(cs[entry[j]]) = u => j <= i
      ids == [u \in {U32(cs[entry[i]]) : i \in DOMAIN entry} |-> entry[Latest(u)]]
  IN  /\ Next_(d) /\ d.kind = "codes"
      /\ IF pkg = NoPackage THEN Raise
         ELSE /\ Goes(Clashes(d.list))
              /\ constants' = cs
              /\ abort_count' = abort_count + Len(d.list)
              /\ abort_codes' = [abort_codes EXCEPT ![pkg] = @ \o entry]
              /\ abort_ids' = Filled(ids, abort_ids)
              /\ UNCHANGED <<types, typedefs, structs, all_structs,
                             packages, pkg, funcs>>

\* add_type(): the first definition of a name stays.
AddType(name, ty) == types' = Taking(types, name, ty)

EnumDef(d) ==
  /\ Next_(d) /\ d.kind = "enum"
  /\ Goes(Clashes(d.list) \/ d.name \in DOMAIN types)
  /\ constants' = Added(d.list)
  /\ AddType(d.name, get_type("int32_t"))
  /\ UNCHANGED <<typedefs, structs, all_structs, packages, pkg, aborts, funcs>>

\* add_type_alias(): neither another alias nor a structure may be hidden.
AddTypeAliasAnew(name, ty) == typedefs' = (name :> ty) @@ typedefs
AddTypeAlias(name, ty) ==
  typedefs' = IF name \in DOMAIN typedefs \cup DOMAIN structs
              THEN typedefs ELSE Taking(typedefs, name, ty)

TypeDef(d) ==
  /\ Next_(d) /\ d.kind = "typedef"
  /\ IF ~bound(d.spec) THEN Raise
     ELSE /\ Goes(Complains(d) \/ d.name \in DOMAIN typedefs \cup DOMAIN structs)
          /\ AddTypeAlias(d.name, Declared(d))
          /\ UNCHANGED <<types, structs, all_structs, constants,
                         packages, pkg, aborts, funcs>>

\* A structure is as large as its members are.
StructOfCounts(d) ==
  LET ms == [i \in DOMAIN d.members |-> Member(d.members[i])]
  IN  xdr_type(d.name, "struct", 4 * Len(ms), ms)
SizeOf(ms) == FoldSeq(LAMBDA m, n : n + m.typespec.xdr_size, 0, ms)
StructOf(d) ==
  LET ms == [i \in DOMAIN d.members |-> Member(d.members[i])]
  IN  xdr_type(d.name, "struct", SizeOf(ms), ms)

\* Structures are emitted in the order in which they were read.
EmittedLatestFirst(s) == all_structs' = <<s>> \o all_structs
Emitted(s) == all_structs' = Append(all_structs, s)

\* The structure is entered even if an enum has its name, which then keeps it.
StructDef(d) ==
  /\ Next_(d) /\ d.kind = "struct"
  /\ IF \E i \in DOMAIN d.members : ~bound(d.members[i].spec) THEN Raise
     ELSE /\ Goes(\/ \E i \in DOMAIN d.members : Complains(d.members[i])
                  \/ d.name \in DOMAIN structs \cup DOMAIN types)
          /\ IF d.name \in DOMAIN structs
             THEN UNCHANGED <<types, structs, all_structs>>
             ELSE /\ structs' = Taking(structs, d.name, StructOf(d))
                  /\ Emitted(StructOf(d))
                  /\ AddType(d.name, StructOf(d))
          /\ UNCHANGED <<typedefs, constants, packages, pkg, aborts, funcs>>

\* A procedure is named after the current package.
ProcSpec(d) ==
  LET proc == [name |-> <<pkg, d.name>>,
               params |-> [i \in DOMAIN d.params |->
                             [direction |-> d.params[i].direction,
                              typespec |-> Declared(d.params[i])]]]
      exists == \E i \in DOMAIN funcs : funcs[i].name = proc.name
  IN  /\ Next_(d) /\ d.kind = "proc"
      /\ IF pkg = NoPackage \/ \E i \in DOMAIN d.params : ~bound(d.params[i].spec)
         THEN Raise
         ELSE /\ Goes(exists \/ \E i \in DOMAIN d.params : Complains(d.params[i]))
              /\ funcs' = IF exists THEN funcs ELSE Append(funcs, proc)
              /\ UNCHANGED <<names, packages, pkg, aborts>>

\* The parser cannot recover: the rest of the file is discarded, and main's loop
\* over the files left.
SyntaxError(d) ==
  /\ Next_(d) /\ d.kind = "error"
  /\ error_occurred' = TRUE /\ complained' = TRUE
  /\ pc' = "structs" /\ files' = 0
  /\ UNCHANGED context

EndOfFile ==
  /\ pc = "parse"
  /\ files' = files - 1
  /\ pc' = IF files = 1 THEN "structs" ELSE "parse"
  /\ UNCHANGED <<alphabet, parsed, error_occurred, context, complained, output>>

-----------------------------------------------------------------------------
(* Emitting. *)

Emits == UNCHANGED <<reading, context>>

\* The words that a member's turn of rxgen_encode_<struct>() writes.
MemberWords(ty) ==
  LET one == IF ty.basic = "struct" THEN encoder[ty.name] ELSE 1
  IN  IF Uncoded(ty) THEN 0 ELSE IF is_array(ty) THEN ty.dim * one ELSE one
StructWords(ms) == FoldSeq(LAMBDA m, n : n + MemberWords(m.typespec), 0, ms)

EmitStruct ==
  LET s == all_structs[emitted.structs + 1]
      ms == s.members
  IN  /\ pc = "structs" /\ emitted.structs < Len(all_structs)
      /\ complained' = (complained \/ \E i \in DOMAIN ms : Uncoded(ms[i].typespec))
      /\ IF \E i \in DOMAIN ms : UnwrappableMember(ms[i].typespec)
         THEN pc' = "raised" /\ UNCHANGED output
         ELSE /\ encoder' = Taking(encoder, s.name, StructWords(ms))
              /\ emitted' = [emitted EXCEPT !.structs = @ + 1]
              /\ UNCHANGED <<pc, table>>
      /\ Emits

StructsEmitted ==
  /\ pc = "structs" /\ emitted.structs = Len(all_structs)
  /\ pc' = "funcs"
  /\ Emits /\ UNCHANGED <<complained, output>>

EmitFunction ==
  LET ps == funcs[emitted.funcs + 1].params
  IN  /\ pc = "funcs" /\ emitted.funcs < Len(funcs)
      /\ IF \E i \in DOMAIN ps :
              RefusedParameter(ps[i].typespec, ps[i].direction # "OUT")
         THEN pc' = "raised" /\ UNCHANGED emitted
         ELSE emitted' = [emitted EXCEPT !.funcs = @ + 1] /\ UNCHANGED pc
      /\ Emits /\ UNCHANGED <<complained, encoder, table>>

FunctionsEmitted ==
  /\ pc = "funcs" /\ emitted.funcs = Len(funcs)
  /\ pc' = "module"
  /\ Emits /\ UNCHANGED <<complained, output>>

\* The abort table: sorted by code, padded with zeros up to abort_count.
Sorted(ids, key(_)) ==
  [i \in 1 .. Cardinality(ids) |->
     CHOOSE u \in ids : Cardinality({v \in ids : key(v) <= key(u)}) = i]
AbortEntriesSigned == Sorted(DOMAIN abort_ids, LAMBDA u : constants[abort_ids[u]])
AbortEntries == Sorted(DOMAIN abort_ids, LAMBDA u : u)

\* A code of another name has taken the place of one of the same number: the
\* earlier has no index.  Each package makes an exception for each of its codes;
\* packages are taken in their order, so that the last one stays.
EmitModule ==
  LET codes == {x \in packages \X DOMAIN constants :
                  x[2] \in Range(abort_codes[x[1]])}
      owner(c) == CHOOSE p \in packages : /\ <<p, c>> \in codes
                                          /\ \A x \in codes : x[2] = c => x[1] <= p
  IN  /\ pc = "module"
      /\ IF \E x \in codes : x[2] \notin Range(abort_ids)
         THEN pc' = "raised" /\ UNCHANGED table
         ELSE /\ pc' = "written"
              /\ table' = [i \in 1 .. abort_count |->
                    IF i \in DOMAIN AbortEntries
                    THEN LET c == abort_ids[AbortEntries[i]]
                         IN  [id |-> U32(constants[c]), obj |-> <<owner(c), c>>]
                    ELSE [id |-> 0, obj |-> NoException]]
      /\ Emits /\ UNCHANGED <<complained, encoder, emitted>>

Finished == pc \in {"written", "raised"} /\ UNCHANGED vars

Next ==
  \/ \E d \in alphabet :
       \/ Package(d) \/ ConstantDef(d) \/ ErrorCodes(d) \/ EnumDef(d)
       \/ TypeDef(d) \/ StructDef(d) \/ ProcSpec(d) \/ SyntaxError(d)
  \/ EndOfFile
  \/ EmitStruct \/ StructsEmitted
  \/ EmitFunction \/ FunctionsEmitted \/ EmitModule
  \/ Finished

Spec == Init /\ [][Next]_vars

-----------------------------------------------------------------------------
(* Properties. *)

\* py_rxgen_received_abort(): bsearch() for a code in the table.
Search(code) ==
  LET n == Len(table)
      s[r \in (0 .. n) \X (0 .. n)] ==
        LET l == r[1]
            u == r[2]
            m == (l + u) \div 2
        IN  IF l >= u THEN [id |-> code, obj |-> NoException]
            ELSE IF code > table[m + 1].id THEN s[<<m + 1, u>>]
            ELSE IF code < table[m + 1].id THEN s[<<l, m>>]
            ELSE table[m + 1]
  IN  s[<<0, n>>]

\* If nothing was complained of, an abort with any code of the interface raises
\* the exception of that name and package: the binary search at run time depends
\* on the order, on the signs, and on the counts the compiler has kept.
AbortsFound ==
  pc = "written" /\ ~complained =>
    \A p \in packages : \A i \in DOMAIN abort_codes[p] :
      LET c == abort_codes[p][i]
      IN  Search(U32(constants[c])).obj = <<p, c>>

\* What is emitted for a structure or a function refers to structures that have
\* been emitted before it, and to what they were when it was read: definitions
\* that are refused do not change them.
EmittedBeforeUsed ==
  LET Before(n, ty) ==
        is_struct(ty) => \E j \in 1 .. n : /\ all_structs[j].name = ty.name
                                           /\ all_structs[j].members = ty.members
  IN  /\ \A i \in DOMAIN all_structs : \A k \in DOMAIN all_structs[i].members :
           Before(i - 1, all_structs[i].members[k].typespec)
      /\ \A i \in 1 .. emitted.funcs : \A k \in DOMAIN funcs[i].params :
           Before(emitted.structs, funcs[i].params[k].typespec)

\* If nothing was complained of, the size that the decoders wait for before they
\* decode a structure is what its encoder writes, nested structures and arrays
\* included.
SizesAgree ==
  ~complained => \A i \in 1 .. emitted.structs :
    all_structs[i].xdr_size = 4 * encoder[all_structs[i].name]

\* A name that means a type goes on meaning it, whatever is defined later, with
\* one exception: an enum or a structure silently hides an alias of its name.
NameKeepsMeaning ==
  [][\A n \in DOMAIN types \cup DOMAIN typedefs :
       \/ get_type(n)' = get_type(n)
       \/ n \notin DOMAIN types /\ n \in DOMAIN types']_vars

=============================================================================
