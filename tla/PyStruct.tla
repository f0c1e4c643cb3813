------------------------------ MODULE PyStruct ------------------------------
(***************************************************************************)
(* The Python objects the compiler wraps around the structures of an       *)
(* interface (emit_py_types.py, py_rxgen.c).  An object holds the raw      *)
(* structure and, for each array and nested structure that Python code has *)
(* asked for or assigned, the Python object that stands for it.  These are *)
(* folded back into the raw structure when the object is marshalled; until *)
(* then the two differ, and the Python code may share and change what is   *)
(* in the cache as it likes.                                               *)
(*                                                                         *)
(* The model is of one object of a type with a member of each kind that is *)
(* cached: an array of integers `ids', a structure `inner' and an array of *)
(* structures `inners', the inner type having one array of integers.       *)
(* Integers and strings are read and written in the raw structure.         *)
(***************************************************************************)
EXTENDS Integers, Sequences, FiniteSets

CONSTANTS
  N,            \* elements of an array of integers
  M,            \* elements of the array of structures
  Width,        \* an element holds 0 .. Width - 1
  Values,       \* bound: integers the Python code uses
  MaxObjects,   \* bound: objects created
  MaxItems,     \* bound: length of a list
  MaxChanges    \* bound: assignments and changes made by the Python code

ASSUME PyStructAssumption ==
  /\ {N, M, Width} \subseteq Nat \ {0} /\ Values \subseteq Nat
  /\ {MaxObjects, MaxItems, MaxChanges} \subseteq Nat

VARIABLES
  heap,      \* the other objects, in order of creation; 0 is NULL
  raw,       \* self->x
  cache,     \* self->c
  changes,   \* how many changes the Python code has made
  did,       \* what happened last
  sent       \* the structure as last encoded

objectVars == <<heap, raw, cache, changes, did, sent>>

\* -1 stands for all that PyLong_AsUnsignedLong() refuses.
Ints == Values \cup {-1}
Members == {"ids", "inner", "inners"}
Elements == [1 .. N -> 0 .. Width - 1]
Structs == [ids : Elements, inner : Elements, inners : [1 .. M -> Elements]]
Zeros == [i \in 1 .. N |-> 0]

\* Lists hold integers or references to objects, 0 being one of another type.
List(kind, items) == [kind |-> kind, items |-> items, raw |-> Zeros, cache |-> 0]
Inner(data) == [kind |-> "inner", items |-> <<>>, raw |-> data, cache |-> 0]
IsList(h, r) == h[r].kind \in {"ints", "structs"}

ObjectTypeOK ==
  /\ raw \in Structs /\ sent \in Structs
  /\ Len(heap) <= MaxObjects
  /\ \A r \in DOMAIN heap :
       /\ heap[r].kind \in {"ints", "structs", "inner"}
       /\ heap[r].raw \in Elements
       /\ heap[r].cache # 0 => heap[r].cache \in DOMAIN heap /\ IsList(heap, heap[r].cache)
       /\ heap[r].kind = "structs" => \A i \in DOMAIN heap[r].items : heap[r].items[i] \in 0 .. Len(heap)
  /\ \A m \in Members : cache[m] # 0 =>
       cache[m] \in DOMAIN heap /\ IsList(heap, cache[m]) = (m # "inner")
  /\ changes \in 0 .. MaxChanges
  /\ did \in {"made", "looked", "changed", "refused", "sent"}

-----------------------------------------------------------------------------
(* What the Python code sees, had it looked: -1 is whatever is no integer  *)
(* an element can be made of.                                              *)

Seen(h, l) == IF h[l].kind = "ints" THEN h[l].items ELSE [i \in DOMAIN h[l].items |-> -1]
InnerSeen(h, r) == IF h[r].cache = 0 THEN h[r].raw ELSE Seen(h, h[r].cache)
ItemSeen(h, l, i) ==
  IF h[l].kind = "structs" /\ h[l].items[i] # 0 /\ h[h[l].items[i]].kind = "inner"
  THEN InnerSeen(h, h[l].items[i]) ELSE <<-1>>
Shown ==
  [ids |-> IF cache.ids = 0 THEN raw.ids ELSE Seen(heap, cache.ids),
   inner |-> IF cache.inner = 0 THEN raw.inner ELSE InnerSeen(heap, cache.inner),
   inners |-> IF cache.inners = 0 THEN raw.inners
              ELSE [i \in DOMAIN heap[cache.inners].items |-> ItemSeen(heap, cache.inners, i)]]

\* What XDR can carry of it: no more elements than there are, no negative ones,
\* the low bits of the others, and zeros for what is not there.
Fits(s) == Len(s) <= N /\ \A i \in DOMAIN s : s[i] >= 0
Padded(s) == [i \in 1 .. N |-> IF i <= Len(s) THEN s[i] % Width ELSE 0]

-----------------------------------------------------------------------------
(* Folding: what premarshalling does.  A failure leaves what was stored.   *)

\* Mutant: full arrays are refused.
FoldIntsShort(array, s) ==
  IF Len(s) >= N THEN [ok |-> FALSE, raw |-> array] ELSE [ok |-> Fits(s), raw |-> Padded(s)]
FoldInts(array, s) ==
  LET refused == {i \in DOMAIN s : s[i] < 0}
      stored(i) == i <= Len(s) /\ \A k \in refused : i < k
  IN  IF Len(s) > N THEN [ok |-> FALSE, raw |-> array]
      ELSE [ok |-> refused = {},
            raw |-> [i \in 1 .. N |->
                       IF stored(i) THEN s[i] % Width
                       ELSE IF refused = {} THEN 0 ELSE array[i]]]

\* py_premarshal_<inner>: the type check, then the members.
FoldInner(h, r) ==
  IF r = 0 \/ h[r].kind # "inner" THEN [ok |-> FALSE, raw |-> Zeros]
  ELSE IF h[r].cache = 0 THEN [ok |-> TRUE, raw |-> h[r].raw]
  ELSE FoldInts(h[r].raw, Seen(h, h[r].cache))

Folded(h, rs) ==
  [r \in DOMAIN h |->
     IF r \in rs /\ h[r].kind = "inner" THEN [h[r] EXCEPT !.raw = FoldInner(h, r).raw] ELSE h[r]]

\* Mutant: the raw structure is copied without being brought up to date.
PremarshalStructStale(st) ==
  LET r == st.cache.inner
  IN  IF r = 0 THEN st
      ELSE [st EXCEPT !.ok = FoldInner(st.heap, r).ok, !.raw.inner = st.heap[r].raw]
PremarshalStruct(st) ==
  LET r == st.cache.inner
  IN  IF r = 0 THEN st
      ELSE LET f == FoldInner(st.heap, r)
           IN  [st EXCEPT !.heap = Folded(@, {r}), !.ok = f.ok,
                          !.raw.inner = IF f.ok THEN f.raw ELSE @]

\* Mutant: an array that failed to fold is let go of.
PremarshalIntsDrop(st) ==
  IF st.cache.ids = 0 THEN st
  ELSE LET f == FoldInts(st.raw.ids, Seen(st.heap, st.cache.ids))
       IN  [st EXCEPT !.ok = f.ok, !.raw.ids = f.raw, !.cache.ids = IF f.ok THEN @ ELSE 0]
PremarshalInts(st) ==
  IF st.cache.ids = 0 THEN st
  ELSE LET f == FoldInts(st.raw.ids, Seen(st.heap, st.cache.ids))
       IN  [st EXCEPT !.ok = f.ok, !.raw.ids = f.raw]

\* Unlike the others this one does not look whether there is a cache.
PremarshalStructs(st) ==
  IF st.cache.inners = 0 THEN [st EXCEPT !.ok = FALSE]
  ELSE LET items == st.heap[st.cache.inners].items
           ref(i) == IF st.heap[st.cache.inners].kind = "structs" THEN items[i] ELSE 0
           bad == {i \in DOMAIN items : ~FoldInner(st.heap, ref(i)).ok}
           reached(i) == i <= Len(items) /\ \A k \in bad : i <= k
       IN  IF Len(items) > M THEN [st EXCEPT !.ok = FALSE]
           ELSE [st EXCEPT
                   !.ok = bad = {},
                   !.heap = Folded(@, {ref(i) : i \in {j \in DOMAIN items : reached(j)}}),
                   !.raw.inners = [i \in 1 .. M |->
                      IF reached(i) /\ i \notin bad THEN FoldInner(st.heap, ref(i)).raw
                      ELSE IF bad = {} THEN Zeros ELSE @[i]]]

-----------------------------------------------------------------------------
(* kafs.<T>() clears the raw structure, py_decode_<T> fills it; nothing is  *)
(* cached.                                                                 *)
All(n) == LET e == [i \in 1 .. N |-> n]
          IN  [ids |-> e, inner |-> e, inners |-> [i \in 1 .. M |-> e]]
ObjectInit ==
  /\ raw \in {All(0), All(Width - 1)}
  /\ cache = [m \in Members |-> 0]
  /\ heap = <<>> /\ changes = 0 /\ did = "made" /\ sent = raw

Changed == changes < MaxChanges /\ changes' = changes + 1 /\ did' = "changed"
Room(n) == Len(heap) + n <= MaxObjects

\* The Python code makes a list or an inner structure of its own.
Make ==
  /\ Changed /\ Room(1)
  /\ \/ \E n \in 0 .. MaxItems : \E s \in [1 .. n -> Ints] : heap' = Append(heap, List("ints", s))
     \/ \E n \in 0 .. MaxItems : \E s \in [1 .. n -> 0 .. Len(heap)] :
          heap' = Append(heap, List("structs", s))
     \/ heap' = Append(heap, Inner(Zeros))
  /\ UNCHANGED <<raw, cache, sent>>

\* o.ids, o.inner.ids: py_rxgen_get_int32() and its like.
GetInts ==
  /\ Room(1) /\ cache.ids = 0
  /\ heap' = Append(heap, List("ints", raw.ids))
  /\ cache' = [cache EXCEPT !.ids = Len(heap')]
  /\ did' = "looked" /\ UNCHANGED <<raw, changes, sent>>

GetInnerInts ==
  /\ Room(1)
  /\ \E r \in DOMAIN heap :
       /\ heap[r].kind = "inner" /\ heap[r].cache = 0
       /\ heap' = Append([heap EXCEPT ![r].cache = Len(heap) + 1], List("ints", heap[r].raw))
  /\ did' = "looked" /\ UNCHANGED <<raw, cache, changes, sent>>

\* py_rxgen_get_struct
GetStruct ==
  /\ Room(1) /\ cache.inner = 0
  /\ heap' = Append(heap, Inner(raw.inner))
  /\ cache' = [cache EXCEPT !.inner = Len(heap')]
  /\ did' = "looked" /\ UNCHANGED <<raw, changes, sent>>
\* py_rxgen_get_structs: each element is made from data + num * size, which is
\* what follows the array in memory.
GetStructs ==
  /\ Room(M + 1) /\ cache.inners = 0
  /\ \E beyond \in Elements :
       heap' = heap \o [i \in 1 .. M |-> Inner(beyond)]
                    \o <<List("structs", [i \in 1 .. M |-> Len(heap) + i])>>
  /\ cache' = [cache EXCEPT !.inners = Len(heap')]
  /\ did' = "looked" /\ UNCHANGED <<raw, changes, sent>>

\* py_rxgen_set_struct, py_rxgen_set_array: the object itself is kept, and of a
\* sequence only the length is looked at.
Assign(m, r) ==
  /\ IF m = "inner" THEN heap[r].kind = "inner"
     ELSE IsList(heap, r) /\ Len(heap[r].items) <= (IF m = "ids" THEN N ELSE M)
  /\ cache' = [cache EXCEPT ![m] = r]
  /\ UNCHANGED heap
AssignInner(r, l) ==
  /\ heap[r].kind = "inner" /\ IsList(heap, l) /\ Len(heap[l].items) <= N
  /\ heap' = [heap EXCEPT ![r].cache = l]
  /\ UNCHANGED cache
Set ==
  /\ Changed
  /\ \E r \in DOMAIN heap : \/ \E m \in Members : Assign(m, r)
                            \/ \E l \in DOMAIN heap : AssignInner(r, l)
  /\ UNCHANGED <<raw, sent>>

\* Any list may be changed by whoever has it: l[i] = v, l.append(v).
ChangeList ==
  /\ Changed
  /\ \E l \in DOMAIN heap :
       \E v \in (IF heap[l].kind = "ints" THEN Ints ELSE 0 .. Len(heap)) :
         /\ IsList(heap, l)
         /\ \/ \E i \in DOMAIN heap[l].items : heap' = [heap EXCEPT ![l].items[i] = v]
            \/ /\ Len(heap[l].items) < MaxItems
               /\ heap' = [heap EXCEPT ![l].items = Append(@, v)]
  /\ UNCHANGED <<raw, cache, sent>>

\* py_premarshal_<T>: single structures first, then the arrays, stopping at the
\* first that fails; then the raw structure is encoded.
Then(st, Fold(_)) == IF st.ok THEN Fold(st) ELSE st
Marshal ==
  LET self == [ok |-> TRUE, heap |-> heap, raw |-> raw, cache |-> cache]
      st == Then(Then(PremarshalStruct(self), PremarshalInts), PremarshalStructs)
  IN  /\ heap' = st.heap /\ raw' = st.raw /\ cache' = st.cache
      /\ did' = IF st.ok THEN "sent" ELSE "refused"
      /\ sent' = IF st.ok THEN st.raw ELSE sent
      /\ UNCHANGED changes

ObjectNext ==
  \/ Make \/ Set \/ ChangeList
  \/ GetInts \/ GetInnerInts \/ GetStruct \/ GetStructs
  \/ Marshal

ObjectSpec == ObjectInit /\ [][ObjectNext]_objectVars

-----------------------------------------------------------------------------
(* Whatever was handed out, shared, reassigned and changed before, and after  *)
(* however many marshallings that failed half-way, what is sent is what the   *)
(* attributes show at that moment, cut to its width and padded with zeros.    *)
SendsWhatIsShown ==
  did = "sent" =>
    sent = [ids |-> Padded(Shown.ids), inner |-> Padded(Shown.inner),
            inners |-> [i \in 1 .. M |->
                          IF i <= Len(Shown.inners) THEN Padded(Shown.inners[i]) ELSE Zeros]]

(* An object is refused only for what it shows - too many elements, or one    *)
(* that is no integer or structure - or because nobody has looked at its      *)
(* array of structures yet.                                                   *)
RefusedForCause ==
  did = "refused" =>
    \/ ~Fits(Shown.ids) \/ ~Fits(Shown.inner)
    \/ cache.inners = 0
    \/ Len(Shown.inners) > M \/ \E i \in DOMAIN Shown.inners : ~Fits(Shown.inners[i])

(* Looking at an attribute changes what none of them shows, arrays of         *)
(* structures excepted; and marshalling, even when it fails half-way, changes *)
(* what none of them shows.                                                   *)
Apart(m) == m = "inners" /\ cache.inners = 0 /\ cache'.inners # 0
LookingChangesNothing ==
  [][did' \in {"looked", "refused"} =>
       \A m \in Members : Apart(m) \/ Shown'[m] = Shown[m]]_objectVars
=============================================================================
