------------------------------ MODULE PyProofs ------------------------------
(***************************************************************************)
(* What holds of the Python side of a call for every width and length of   *)
(* an array, any number of objects, lists and changes, every file, every   *)
(* log and every way of cutting a reply into messages: of the objects that *)
(* stand for structures (PyStruct), and of the handlers of split-mode      *)
(* calls (SplitCall).                                                      *)
(*                                                                         *)
(* Objects.  The bounds are not used: Sound, the inductive invariant, is   *)
(* of heaps of any size, and holds half-way through a marshalling too.     *)
(* What is folded back changes only what nobody sees, because something    *)
(* cached hides it (Alike, Keeps): so each step of a marshalling shows     *)
(* what was shown before it, and an object folds into what it shows        *)
(* (StructFolds, IntsFold, StructsFold).                                   *)
(*                                                                         *)
(* Split-mode calls.  No byte is lost on its way from the socket to the    *)
(* output, so that what has arrived is always what has been written, what  *)
(* is in the handler's buffer and what is still to be read (Conserved);    *)
(* and the decoder gets to its last phase only when nothing is left to be  *)
(* read and nothing is to come (Control).                                  *)
(***************************************************************************)
EXTENDS PyStruct, SplitCall, TLAPS

-----------------------------------------------------------------------------
(* Structures as Python objects: the inductive invariant. *)

\* What a list or an object of the inner type may be.
Objects == [kind : {"ints", "structs", "inner"}, items : Seq(Int),
            raw : Elements, cache : Nat]

\* A cached array is a list, and an array of structures refers to what there is.
Linked(h) ==
  \A r \in DOMAIN h :
    /\ h[r].cache # 0 => h[r].cache \in DOMAIN h /\ IsList(h, h[r].cache)
    /\ h[r].kind = "structs" =>
         \A i \in DOMAIN h[r].items : h[r].items[i] \in 0 .. Len(h)
Heaps == {h \in Seq(Objects) : Linked(h)}

\* What the object itself has cached is of the right kind.
Roots(h, c) ==
  \A m \in Members : c[m] # 0 =>
    c[m] \in DOMAIN h /\ (IsList(h, c[m]) <=> m # "inner")

\* The inductive invariant: it is ObjectTypeOK, of all heaps, and holds half-way through
\* a marshalling too.
Sound ==
  /\ raw \in Structs /\ heap \in Heaps
  /\ cache \in [Members -> Nat] /\ Roots(heap, cache)

-----------------------------------------------------------------------------
(* Sequences. *)

\* The length and the members of a sequence.
LEMMA SeqFacts ==
  ASSUME NEW S, NEW s \in Seq(S)
  PROVE  /\ Len(s) \in Nat /\ DOMAIN s = 1 .. Len(s) /\ s = [i \in 1 .. Len(s) |-> s[i]]
         /\ \A i \in 1 .. Len(s) : s[i] \in S
  OBVIOUS

\* A function on 1 .. n is a sequence of length n.
LEMMA SeqOf ==
  ASSUME NEW S, NEW n \in Nat, NEW f \in [1 .. n -> S]
  PROVE  f \in Seq(S) /\ Len(f) = n
  OBVIOUS

-----------------------------------------------------------------------------
(* Folding a list into an array of integers. *)

\* An element that is narrow enough is kept as it is.
LEMMA ModuloSmall ==
  ASSUME NEW x \in 0 .. Width - 1
  PROVE  x % Width = x
<1>1. Width \in Nat \ {0}
  BY PyStructAssumption
<1>2. \A q \in Int, k \in 0 .. Width - 1 : ((q * Width) + k) % Width = k
  BY <1>1
<1>3. ((0 * Width) + x) % Width = x
  BY <1>2
<1>4. (0 * Width) + x = x
  BY <1>1
<1> QED
  BY <1>3, <1>4

\* The integers of an array are what it is padded to.
LEMMA PaddedIsElements ==
  ASSUME NEW s \in Seq(Int)
  PROVE  Padded(s) \in Elements
<1>1. ASSUME NEW i \in 1 .. N, i <= Len(s) PROVE s[i] % Width \in 0 .. Width - 1
  BY <1>1, PyStructAssumption
<1>2. 0 \in 0 .. Width - 1
  BY PyStructAssumption
<1> QED
  BY <1>1, <1>2 DEF Padded, Elements

\* An array is shown as it is.
LEMMA ElementsFit ==
  ASSUME NEW a \in Elements
  PROVE  a \in Seq(Int) /\ Fits(a) /\ Padded(a) = a
<1>1. N \in Nat /\ Width \in Nat \ {0}
  BY PyStructAssumption
<1>2. a \in [1 .. N -> Int] /\ \A i \in 1 .. N : a[i] \in 0 .. Width - 1
  BY <1>1 DEF Elements
<1>3. a \in Seq(Int) /\ Len(a) = N /\ DOMAIN a = 1 .. N
  BY <1>1, <1>2, SeqOf
<1>4. Fits(a)
  BY <1>1, <1>2, <1>3 DEF Fits
<1>5. ASSUME NEW i \in 1 .. N PROVE i <= Len(a) /\ a[i] % Width = a[i]
  <2>1. a[i] \in 0 .. Width - 1
    BY <1>2
  <2> QED
    BY <2>1, <1>1, <1>3, ModuloSmall
<1>6. Padded(a) = [i \in 1 .. N |-> a[i]]
  BY <1>5 DEF Padded
<1>7. a = [i \in 1 .. N |-> a[i]]
  BY <1>2
<1> QED
  BY <1>3, <1>4, <1>6, <1>7

\* An array of integers is taken if it fits, and is then what it is padded to.
LEMMA FoldIntsIs ==
  ASSUME NEW a \in Elements, NEW s \in Seq(Int)
  PROVE  /\ FoldInts(a, s).ok \in BOOLEAN /\ FoldInts(a, s).raw \in Elements
         /\ FoldInts(a, s).ok <=> Fits(s)
         /\ Fits(s) => FoldInts(a, s).raw = Padded(s)
<1> DEFINE refused == {i \in DOMAIN s : s[i] < 0}
           stored(i) == i <= Len(s) /\ \A k \in refused : i < k
           filled == [i \in 1 .. N |-> IF stored(i) THEN s[i] % Width
                                       ELSE IF refused = {} THEN 0 ELSE a[i]]
<1>1. N \in Nat /\ Width \in Nat \ {0} /\ Len(s) \in Nat /\ DOMAIN s = 1 .. Len(s)
  BY PyStructAssumption
<1>2. CASE Len(s) > N
  <2>1. FoldInts(a, s) = [ok |-> FALSE, raw |-> a]
    BY <1>2 DEF FoldInts
  <2> QED
    BY <2>1, <1>1, <1>2 DEF Fits
<1>3. CASE Len(s) <= N
  <2>1. FoldInts(a, s) = [ok |-> refused = {}, raw |-> filled]
    <3>1. ~(Len(s) > N)
      BY <1>1, <1>3
    <3> QED
      BY <3>1, Zenon DEF FoldInts
  <2>2. refused = {} <=> Fits(s)
    BY <1>1, <1>3 DEF Fits
  <2>3. filled \in Elements
    <3>1. ASSUME NEW i \in 1 .. N, i <= Len(s) PROVE s[i] % Width \in 0 .. Width - 1
      BY <3>1, <1>1
    <3>2. \A i \in 1 .. N : a[i] \in 0 .. Width - 1 /\ 0 \in 0 .. Width - 1
      BY <1>1 DEF Elements
    <3> QED
      BY <3>1, <3>2 DEF Elements
  <2>4. refused = {} => filled = Padded(s)
    BY DEF Padded
  <2>5. FoldInts(a, s).ok = (refused = {}) /\ FoldInts(a, s).raw = filled
    BY <2>1
  <2> HIDE DEF refused, filled
  <2> QED
    BY <2>2, <2>3, <2>4, <2>5
<1> QED
  BY <1>1, <1>2, <1>3

-----------------------------------------------------------------------------
(* The heap. *)

\* What a heap is made of.
LEMMA HeapFacts ==
  ASSUME NEW h \in Heaps
  PROVE  /\ Len(h) \in Nat /\ DOMAIN h = 1 .. Len(h)
         /\ \A r \in DOMAIN h :
              /\ h[r] \in Objects /\ h[r].kind \in {"ints", "structs", "inner"}
              /\ h[r].items \in Seq(Int) /\ h[r].raw \in Elements /\ h[r].cache \in Nat
         /\ Linked(h)
<1>1. h \in Seq(Objects) /\ Linked(h)
  BY DEF Heaps
<1>2. Len(h) \in Nat /\ DOMAIN h = 1 .. Len(h) /\ \A r \in 1 .. Len(h) : h[r] \in Objects
  BY <1>1, SeqFacts, Zenon
<1> QED
  BY <1>1, <1>2 DEF Objects

\* What a list shows has as many elements as there are items.
LEMMA SeenIs ==
  ASSUME NEW h \in Heaps, NEW l \in DOMAIN h
  PROVE  Seen(h, l) \in Seq(Int) /\ Len(Seen(h, l)) = Len(h[l].items)
<1>1. h[l].items \in Seq(Int)
  BY HeapFacts
<1>2. Len(h[l].items) \in Nat /\ DOMAIN h[l].items = 1 .. Len(h[l].items)
  BY <1>1, SeqFacts
<1>3. CASE h[l].kind = "ints"
  BY <1>1, <1>3 DEF Seen
<1>4. CASE h[l].kind # "ints"
  <2>1. [i \in 1 .. Len(h[l].items) |-> -1] \in [1 .. Len(h[l].items) -> Int]
    OBVIOUS
  <2>2. Seen(h, l) = [i \in 1 .. Len(h[l].items) |-> -1]
    BY <1>2, <1>4 DEF Seen
  <2> QED
    BY <1>2, <2>1, <2>2, SeqOf
<1> QED
  BY <1>3, <1>4

\* What an object of the inner type shows: its list, or else its own elements.
LEMMA InnerSeenIs ==
  ASSUME NEW h \in Heaps, NEW r \in DOMAIN h
  PROVE  InnerSeen(h, r) \in Seq(Int)
<1>1. h[r].raw \in Elements /\ (h[r].cache # 0 => h[r].cache \in DOMAIN h)
  BY HeapFacts DEF Linked
<1> QED
  BY <1>1, SeenIs, ElementsFit DEF InnerSeen

\* An object folds if it is of the inner type and what it shows fits, and it then
\* holds what it shows.
LEMMA FoldInnerIs ==
  ASSUME NEW h \in Heaps, NEW r \in 0 .. Len(h)
  PROVE  /\ FoldInner(h, r).ok \in BOOLEAN /\ FoldInner(h, r).raw \in Elements
         /\ r = 0 \/ h[r].kind # "inner" => ~FoldInner(h, r).ok
         /\ r # 0 /\ h[r].kind = "inner" =>
              /\ FoldInner(h, r).ok <=> Fits(InnerSeen(h, r))
              /\ FoldInner(h, r).ok => FoldInner(h, r).raw = Padded(InnerSeen(h, r))
<1>1. CASE r = 0 \/ h[r].kind # "inner"
  <2>1. FoldInner(h, r) = [ok |-> FALSE, raw |-> Zeros]
    BY <1>1 DEF FoldInner
  <2>2. Zeros \in Elements
    BY PyStructAssumption DEF Zeros, Elements
  <2> QED
    BY <1>1, <2>1, <2>2
<1>2. CASE r # 0 /\ h[r].kind = "inner"
  <2>1. r \in DOMAIN h
    BY <1>2, HeapFacts
  <2>2. h[r].raw \in Elements /\ (h[r].cache # 0 => h[r].cache \in DOMAIN h)
    BY <2>1, HeapFacts DEF Linked
  <2>3. CASE h[r].cache = 0
    <3>1. FoldInner(h, r) = [ok |-> TRUE, raw |-> h[r].raw]
      BY <1>2, <2>3 DEF FoldInner
    <3>2. InnerSeen(h, r) = h[r].raw
      BY <2>3 DEF InnerSeen
    <3> QED
      BY <1>2, <2>2, <3>1, <3>2, ElementsFit
  <2>4. CASE h[r].cache # 0
    <3>1. FoldInner(h, r) = FoldInts(h[r].raw, Seen(h, h[r].cache))
      BY <1>2, <2>4 DEF FoldInner
    <3>2. InnerSeen(h, r) = Seen(h, h[r].cache)
      BY <2>4 DEF InnerSeen
    <3> QED
      BY <1>2, <2>2, <2>4, <3>1, <3>2, FoldIntsIs, SeenIs
  <2> QED
    BY <2>3, <2>4
<1> QED
  BY <1>1, <1>2

\* Two heaps that differ only in what objects hold that show a list instead.
Alike(h, g) ==
  /\ Len(g) = Len(h)
  /\ \A r \in DOMAIN h : /\ g[r].kind = h[r].kind /\ g[r].items = h[r].items
                         /\ g[r].cache = h[r].cache
                         /\ h[r].cache = 0 => g[r].raw = h[r].raw

\* They show the same, and fold alike.
LEMMA AlikeShow ==
  ASSUME NEW h \in Heaps, NEW g \in Heaps, Alike(h, g)
  PROVE  /\ DOMAIN g = DOMAIN h
         /\ \A l \in DOMAIN h : Seen(g, l) = Seen(h, l) /\ (IsList(g, l) <=> IsList(h, l))
         /\ \A r \in DOMAIN h : InnerSeen(g, r) = InnerSeen(h, r)
<1>1. DOMAIN g = DOMAIN h
  BY HeapFacts DEF Alike
<1>2. ASSUME NEW l \in DOMAIN h
      PROVE  Seen(g, l) = Seen(h, l) /\ (IsList(g, l) <=> IsList(h, l))
  BY <1>2, Zenon DEF Alike, Seen, IsList
<1>3. ASSUME NEW r \in DOMAIN h PROVE InnerSeen(g, r) = InnerSeen(h, r)
  <2>1. h[r].cache # 0 => h[r].cache \in DOMAIN h
    BY HeapFacts DEF Linked
  <2> QED
    BY <1>2, <2>1 DEF Alike, InnerSeen
<1> QED
  BY <1>1, <1>2, <1>3

\* Likeness goes on.
LEMMA AlikeOn ==
  ASSUME NEW h \in Heaps, NEW g \in Heaps, NEW f \in Heaps, Alike(h, g), Alike(g, f)
  PROVE  Alike(h, f)
<1>1. DOMAIN g = DOMAIN h
  BY HeapFacts DEF Alike
<1> QED
  BY <1>1 DEF Alike

\* Folding objects makes a heap like the one before.
LEMMA FoldedAlike ==
  ASSUME NEW h \in Heaps, NEW rs
  PROVE  Folded(h, rs) \in Heaps /\ Alike(h, Folded(h, rs))
<1> DEFINE g == Folded(h, rs)
           f(r) == IF r \in rs /\ h[r].kind = "inner"
                   THEN [h[r] EXCEPT !.raw = FoldInner(h, r).raw] ELSE h[r]
<1>1. DOMAIN h = 1 .. Len(h) /\ Len(h) \in Nat
  BY HeapFacts
<1>2. ASSUME NEW r \in 1 .. Len(h)
      PROVE  /\ f(r) \in Objects /\ f(r).kind = h[r].kind /\ f(r).items = h[r].items
             /\ f(r).cache = h[r].cache /\ (h[r].cache = 0 => f(r).raw = h[r].raw)
  <2>1. h[r] \in Objects
    BY <1>1, HeapFacts
  <2>2. FoldInner(h, r).raw \in Elements
    BY <1>1, FoldInnerIs
  <2>3. h[r].kind = "inner" /\ h[r].cache = 0 => FoldInner(h, r).raw = h[r].raw
    BY <1>1 DEF FoldInner
  <2> QED
    BY <2>1, <2>2, <2>3 DEF Objects
<1>3. g = [r \in 1 .. Len(h) |-> f(r)]
  BY <1>1 DEF Folded
<1> HIDE DEF f, g
<1>4. g \in [1 .. Len(h) -> Objects] /\ \A r \in 1 .. Len(h) : g[r] = f(r)
  BY <1>2, <1>3
<1>5. g \in Seq(Objects) /\ Len(g) = Len(h) /\ DOMAIN g = 1 .. Len(h)
  BY <1>1, <1>4, SeqOf
<1>6. Alike(h, g)
  BY <1>1, <1>2, <1>4, <1>5 DEF Alike
<1>7. Linked(g)
  <2>1. Linked(h)
    BY HeapFacts
  <2> QED
    BY <1>1, <1>5, <1>6, <2>1 DEF Linked, Alike, IsList
<1> QED
  BY <1>5, <1>6, <1>7 DEF Heaps, g

-----------------------------------------------------------------------------
(* What the object shows, on its way through a marshalling. *)

\* Shown of any heap, raw structure and cache.
ShownIds(s) == IF s.cache.ids = 0 THEN s.raw.ids ELSE Seen(s.heap, s.cache.ids)
ShownInner(s) == IF s.cache.inner = 0 THEN s.raw.inner ELSE InnerSeen(s.heap, s.cache.inner)
ShownInners(s) ==
  IF s.cache.inners = 0 THEN s.raw.inners
  ELSE [i \in DOMAIN s.heap[s.cache.inners].items |-> ItemSeen(s.heap, s.cache.inners, i)]

States == [ok : BOOLEAN, heap : Heaps, raw : Structs, cache : [Members -> Nat]]
SoundState(s) == s \in States /\ Roots(s.heap, s.cache)

\* A step of marshalling may change what is not shown.
Keeps(s, t) ==
  /\ t.cache = s.cache /\ Alike(s.heap, t.heap)
  /\ \A m \in Members : s.cache[m] = 0 => t.raw[m] = s.raw[m]

\* What a sound state is made of.
LEMMA StateFacts ==
  ASSUME NEW s, SoundState(s)
  PROVE  /\ s.ok \in BOOLEAN /\ s.heap \in Heaps /\ s.raw \in Structs
         /\ s.cache \in [Members -> Nat]
         /\ s.raw.ids \in Elements /\ s.raw.inner \in Elements
         /\ s.raw.inners \in [1 .. M -> Elements]
         /\ s.cache.ids # 0 => s.cache.ids \in DOMAIN s.heap /\ IsList(s.heap, s.cache.ids)
         /\ s.cache.inner # 0 =>
              s.cache.inner \in DOMAIN s.heap /\ s.heap[s.cache.inner].kind = "inner"
         /\ s.cache.inners # 0 =>
              s.cache.inners \in DOMAIN s.heap /\ IsList(s.heap, s.cache.inners)
<1>1. s \in States /\ Roots(s.heap, s.cache)
  BY DEF SoundState
<1>2. s.heap \in Heaps /\ s.raw \in Structs /\ s.cache \in [Members -> Nat] /\ s.ok \in BOOLEAN
  BY <1>1 DEF States
<1>3. \A m \in Members : s.cache[m] # 0 =>
        s.cache[m] \in DOMAIN s.heap /\ (IsList(s.heap, s.cache[m]) <=> m # "inner")
  BY <1>1 DEF Roots
<1>4. {"ids", "inner", "inners"} = Members
  BY DEF Members
<1>5. s.cache["inner"] # 0 =>
        s.cache["inner"] \in DOMAIN s.heap /\ s.heap[s.cache["inner"]].kind = "inner"
  <2>1. ASSUME s.cache["inner"] # 0 PROVE s.cache["inner"] \in DOMAIN s.heap
                                          /\ ~IsList(s.heap, s.cache["inner"])
    BY <1>3, <1>4, <2>1
  <2> QED
    BY <2>1, <1>2, HeapFacts DEF IsList
<1>6. s.raw.ids \in Elements /\ s.raw.inner \in Elements /\ s.raw.inners \in [1 .. M -> Elements]
  BY <1>2 DEF Structs
<1> QED
  BY <1>2, <1>3, <1>4, <1>5, <1>6

\* What an item of an array shows is what the object shows that it folds from.
LEMMA ItemSeenIs ==
  ASSUME NEW h \in Heaps, NEW l \in DOMAIN h, IsList(h, l), NEW i \in DOMAIN h[l].items
  PROVE  LET ref == IF h[l].kind = "structs" THEN h[l].items[i] ELSE 0
         IN  /\ ref \in 0 .. Len(h)
             /\ FoldInner(h, ref).raw \in Elements
             /\ FoldInner(h, ref).ok <=> Fits(ItemSeen(h, l, i))
             /\ FoldInner(h, ref).ok => FoldInner(h, ref).raw = Padded(ItemSeen(h, l, i))
<1> DEFINE ref == IF h[l].kind = "structs" THEN h[l].items[i] ELSE 0
<1>1. ref \in 0 .. Len(h)
  <2>1. Len(h) \in Nat /\ (h[l].kind = "structs" => h[l].items[i] \in 0 .. Len(h))
    BY HeapFacts DEF Linked
  <2> QED
    BY <2>1
<1>2. ~Fits(<<-1>>)
  BY DEF Fits
<1>3. CASE ref # 0 /\ h[ref].kind = "inner"
  <2>1. ItemSeen(h, l, i) = InnerSeen(h, ref)
    BY <1>3 DEF ItemSeen
  <2> HIDE DEF ref
  <2> QED
    BY <1>1, <1>3, <2>1, FoldInnerIs DEF ref
<1>4. CASE ref = 0 \/ h[ref].kind # "inner"
  <2>1. ItemSeen(h, l, i) = <<-1>>
    BY <1>4 DEF ItemSeen
  <2> HIDE DEF ref
  <2> QED
    BY <1>1, <1>2, <1>4, <2>1, FoldInnerIs DEF ref
<1> QED
  BY <1>3, <1>4

\* What is kept is shown as before.
LEMMA KeepsShown ==
  ASSUME NEW s, NEW t, SoundState(s), SoundState(t), Keeps(s, t)
  PROVE  /\ ShownIds(t) = ShownIds(s) /\ ShownInner(t) = ShownInner(s)
         /\ ShownInners(t) = ShownInners(s)
<1>1. /\ DOMAIN t.heap = DOMAIN s.heap
      /\ \A l \in DOMAIN s.heap : Seen(t.heap, l) = Seen(s.heap, l)
      /\ \A r \in DOMAIN s.heap : InnerSeen(t.heap, r) = InnerSeen(s.heap, r)
  BY StateFacts, AlikeShow DEF Keeps
<1>2. ShownIds(t) = ShownIds(s)
  <2>1. s.cache.ids = 0 => t.raw.ids = s.raw.ids
    BY DEF Keeps, Members
  <2> QED
    BY <1>1, <2>1, StateFacts DEF Keeps, ShownIds
<1>3. ShownInner(t) = ShownInner(s)
  <2>1. s.cache.inner = 0 => t.raw.inner = s.raw.inner
    BY DEF Keeps, Members
  <2> QED
    BY <1>1, <2>1, StateFacts DEF Keeps, ShownInner
<1>4. ShownInners(t) = ShownInners(s)
  <2> DEFINE l == s.cache.inners
  <2>1. CASE l = 0
    BY <2>1 DEF Keeps, Members, ShownInners
  <2>2. CASE l # 0
    <3>1. l \in DOMAIN s.heap /\ t.cache.inners = l /\ s.heap \in Heaps
      BY <2>2, StateFacts DEF Keeps
    <3>2. \A r \in DOMAIN s.heap : t.heap[r].kind = s.heap[r].kind /\ t.heap[r].items = s.heap[r].items
      BY DEF Keeps, Alike
    <3>3. t.heap[l].items = s.heap[l].items /\ t.heap[l].kind = s.heap[l].kind
      BY <3>1, <3>2
    <3>4. ASSUME NEW i \in DOMAIN s.heap[l].items
          PROVE  ItemSeen(t.heap, l, i) = ItemSeen(s.heap, l, i)
      <4>1. s.heap[l].kind = "structs" /\ s.heap[l].items[i] # 0 =>
              s.heap[l].items[i] \in DOMAIN s.heap
        <5>1. /\ s.heap[l].kind = "structs" => s.heap[l].items[i] \in 0 .. Len(s.heap)
              /\ DOMAIN s.heap = 1 .. Len(s.heap) /\ Len(s.heap) \in Nat
          BY <3>1, HeapFacts DEF Linked
        <5> QED
          BY <5>1
      <4> HIDE DEF l
      <4> QED
        BY <1>1, <3>2, <3>3, <4>1 DEF ItemSeen
    <3> HIDE DEF l
    <3>5. ShownInners(s) = [i \in DOMAIN s.heap[l].items |-> ItemSeen(s.heap, l, i)]
      BY <2>2 DEF ShownInners, l
    <3>6. ShownInners(t) = [i \in DOMAIN t.heap[l].items |-> ItemSeen(t.heap, l, i)]
      BY <2>2, <3>1 DEF ShownInners, l
    <3> QED
      BY <3>3, <3>4, <3>5, <3>6
  <2> QED
    BY <2>1, <2>2
<1> QED
  BY <1>2, <1>3, <1>4

-----------------------------------------------------------------------------
(* Marshalling. *)

\* The nested structure is folded if it fits.
LEMMA StructFolds ==
  ASSUME NEW s, SoundState(s), s.ok
  PROVE  LET t == PremarshalStruct(s)
         IN  /\ SoundState(t) /\ Keeps(s, t)
             /\ t.ok <=> Fits(ShownInner(s))
             /\ t.ok => t.raw.inner = Padded(ShownInner(s))
<1> DEFINE t == PremarshalStruct(s)
           r == s.cache.inner
           f == FoldInner(s.heap, r)
<1>1. CASE r = 0
  <2>1. t = s
    BY <1>1 DEF PremarshalStruct
  <2>2. ShownInner(s) = s.raw.inner
    BY <1>1 DEF ShownInner
  <2>3. Keeps(s, s)
    BY DEF Keeps, Alike
  <2> HIDE DEF t
  <2> QED
    BY <2>1, <2>2, <2>3, StateFacts, ElementsFit DEF t
<1>2. CASE r # 0
  <2>1. r \in DOMAIN s.heap /\ s.heap[r].kind = "inner" /\ r \in 0 .. Len(s.heap)
    BY <1>2, StateFacts, HeapFacts
  <2>2. /\ f.ok \in BOOLEAN /\ f.raw \in Elements
        /\ f.ok <=> Fits(InnerSeen(s.heap, r))
        /\ f.ok => f.raw = Padded(InnerSeen(s.heap, r))
    BY <1>2, <2>1, StateFacts, FoldInnerIs
  <2>3. Folded(s.heap, {r}) \in Heaps /\ Alike(s.heap, Folded(s.heap, {r}))
    BY StateFacts, FoldedAlike
  <2>4. t = [s EXCEPT !.heap = Folded(@, {r}), !.ok = f.ok,
                      !.raw.inner = IF f.ok THEN f.raw ELSE @]
    BY <1>2 DEF PremarshalStruct
  <2>5. s \in States
    BY DEF SoundState
  <2> HIDE DEF t, f, r
  <2>6. /\ t.heap = Folded(s.heap, {r}) /\ t.ok = f.ok /\ t.cache = s.cache
        /\ t.raw = [s.raw EXCEPT !.inner = IF f.ok THEN f.raw ELSE @]
        /\ t = [ok |-> t.ok, heap |-> t.heap, raw |-> t.raw, cache |-> t.cache]
    BY <2>4, <2>5 DEF States
  <2>7. t.raw \in Structs /\ t.raw.ids = s.raw.ids /\ t.raw.inners = s.raw.inners
        /\ (f.ok => t.raw.inner = f.raw)
    BY <2>2, <2>5, <2>6 DEF States, Structs
  <2>8. Keeps(s, t)
    BY <1>2, <2>3, <2>6, <2>7 DEF Keeps, Members, r
  <2>9. SoundState(t)
    <3>1. t \in States
      BY <2>2, <2>3, <2>5, <2>6, <2>7 DEF States
    <3>2. Roots(t.heap, t.cache)
      BY <2>3, <2>6, StateFacts, AlikeShow DEF SoundState, Roots
    <3> QED
      BY <3>1, <3>2 DEF SoundState
  <2>10. ShownInner(s) = InnerSeen(s.heap, r)
    BY <1>2 DEF ShownInner, r
  <2> QED
    BY <2>2, <2>6, <2>7, <2>8, <2>9, <2>10 DEF t
<1> QED
  BY <1>1, <1>2

\* The array of integers is folded if it fits.
LEMMA IntsFold ==
  ASSUME NEW s, SoundState(s), s.ok
  PROVE  LET t == PremarshalInts(s)
         IN  /\ SoundState(t) /\ Keeps(s, t)
             /\ t.ok <=> Fits(ShownIds(s))
             /\ t.ok => t.raw.ids = Padded(ShownIds(s)) /\ t.raw.inner = s.raw.inner
<1> DEFINE t == PremarshalInts(s)
           l == s.cache.ids
           f == FoldInts(s.raw.ids, Seen(s.heap, l))
<1>1. CASE l = 0
  <2>1. t = s
    BY <1>1 DEF PremarshalInts
  <2>2. ShownIds(s) = s.raw.ids
    BY <1>1 DEF ShownIds
  <2>3. Keeps(s, s)
    BY DEF Keeps, Alike
  <2> HIDE DEF t
  <2> QED
    BY <2>1, <2>2, <2>3, StateFacts, ElementsFit DEF t
<1>2. CASE l # 0
  <2>1. l \in DOMAIN s.heap /\ s.raw.ids \in Elements /\ s.heap \in Heaps
    BY <1>2, StateFacts
  <2>2. /\ f.ok \in BOOLEAN /\ f.raw \in Elements
        /\ f.ok <=> Fits(Seen(s.heap, l))
        /\ f.ok => f.raw = Padded(Seen(s.heap, l))
    BY <2>1, SeenIs, FoldIntsIs
  <2>3. t = [s EXCEPT !.ok = f.ok, !.raw.ids = f.raw]
    BY <1>2 DEF PremarshalInts
  <2>4. s \in States
    BY DEF SoundState
  <2> HIDE DEF t, f, l
  <2>5. /\ t.heap = s.heap /\ t.ok = f.ok /\ t.cache = s.cache
        /\ t.raw = [s.raw EXCEPT !.ids = f.raw]
        /\ t = [ok |-> t.ok, heap |-> t.heap, raw |-> t.raw, cache |-> t.cache]
    BY <2>3, <2>4 DEF States
  <2>6. /\ t.raw \in Structs /\ t.raw.ids = f.raw
        /\ t.raw.inner = s.raw.inner /\ t.raw.inners = s.raw.inners
    BY <2>2, <2>4, <2>5 DEF States, Structs
  <2>7. Keeps(s, t)
    BY <1>2, <2>5, <2>6 DEF Keeps, Members, Alike, l
  <2>8. SoundState(t)
    BY <2>2, <2>4, <2>5, <2>6 DEF States, SoundState
  <2>9. ShownIds(s) = Seen(s.heap, l)
    BY <1>2 DEF ShownIds, l
  <2> QED
    BY <2>2, <2>5, <2>6, <2>7, <2>8, <2>9 DEF t
<1> QED
  BY <1>1, <1>2

\* Why an array of structures does not fold.
StructsRefused(s) ==
  \/ s.cache.inners = 0 \/ Len(ShownInners(s)) > M
  \/ \E i \in DOMAIN ShownInners(s) : ~Fits(ShownInners(s)[i])

\* The array of structures is folded if there is one and all its items fit.
LEMMA StructsFold ==
  ASSUME NEW s, SoundState(s), s.ok
  PROVE  LET t == PremarshalStructs(s)
         IN  /\ SoundState(t) /\ Keeps(s, t)
             /\ ~t.ok => StructsRefused(s)
             /\ t.ok => /\ t.raw.ids = s.raw.ids /\ t.raw.inner = s.raw.inner
                        /\ t.raw.inners =
                             [i \in 1 .. M |->
                                IF i <= Len(ShownInners(s)) THEN Padded(ShownInners(s)[i])
                                ELSE Zeros]
<1> DEFINE t == PremarshalStructs(s)
           l == s.cache.inners
           items == s.heap[l].items
           ref(i) == IF s.heap[l].kind = "structs" THEN items[i] ELSE 0
           bad == {i \in DOMAIN items : ~FoldInner(s.heap, ref(i)).ok}
           reached(i) == i <= Len(items) /\ \A k \in bad : i <= k
           refs == {ref(i) : i \in {j \in DOMAIN items : reached(j)}}
           filled == [i \in 1 .. M |->
                        IF reached(i) /\ i \notin bad THEN FoldInner(s.heap, ref(i)).raw
                        ELSE IF bad = {} THEN Zeros ELSE s.raw.inners[i]]
<1>1. s \in States /\ Roots(s.heap, s.cache)
  BY DEF SoundState
<1>2. Keeps(s, s)
  BY DEF Keeps, Alike
<1>3. CASE l = 0
  <2>1. t = [s EXCEPT !.ok = FALSE]
    BY <1>3 DEF PremarshalStructs
  <2> HIDE DEF t
  <2>2. /\ t.heap = s.heap /\ t.ok = FALSE /\ t.cache = s.cache /\ t.raw = s.raw
        /\ t \in States
    BY <1>1, <2>1 DEF States
  <2> QED
    BY <1>1, <1>2, <1>3, <2>2 DEF SoundState, Keeps, StructsRefused, t
<1>4. CASE l # 0
  <2>1. l \in DOMAIN s.heap /\ IsList(s.heap, l) /\ s.heap \in Heaps
    BY <1>4, StateFacts
  <2>2. items \in Seq(Int) /\ Len(items) \in Nat /\ DOMAIN items = 1 .. Len(items)
    BY <2>1, HeapFacts, SeqFacts
  <2>3. ShownInners(s) = [i \in DOMAIN items |-> ItemSeen(s.heap, l, i)]
    BY <1>4 DEF ShownInners
  <2>4. ASSUME NEW i \in DOMAIN items
        PROVE  /\ ref(i) \in 0 .. Len(s.heap) /\ FoldInner(s.heap, ref(i)).raw \in Elements
               /\ FoldInner(s.heap, ref(i)).ok <=> Fits(ItemSeen(s.heap, l, i))
               /\ FoldInner(s.heap, ref(i)).ok =>
                    FoldInner(s.heap, ref(i)).raw = Padded(ItemSeen(s.heap, l, i))
    BY <2>1, <2>4, ItemSeenIs, Zenon
  <2> HIDE DEF l, items, ref
  <2>5. Len(ShownInners(s)) = Len(items) /\ DOMAIN ShownInners(s) = DOMAIN items
        /\ \A i \in DOMAIN items : ShownInners(s)[i] = ItemSeen(s.heap, l, i)
    BY <2>2, <2>3
  <2>6. CASE Len(items) > M
    <3>1. t = [s EXCEPT !.ok = FALSE]
      BY <1>4, <2>6 DEF PremarshalStructs, l, items
    <3> HIDE DEF t
    <3>2. /\ t.heap = s.heap /\ t.ok = FALSE /\ t.cache = s.cache /\ t.raw = s.raw
          /\ t \in States
      BY <1>1, <3>1 DEF States
    <3> QED
      BY <1>1, <1>2, <2>5, <2>6, <3>2 DEF SoundState, Keeps, StructsRefused, t
  <2>7. CASE ~(Len(items) > M)
    <3>1. t = [s EXCEPT !.ok = bad = {}, !.heap = Folded(@, refs), !.raw.inners = filled]
      BY <1>4, <2>7 DEF PremarshalStructs, l, items, ref
    <3>2. Folded(s.heap, refs) \in Heaps /\ Alike(s.heap, Folded(s.heap, refs))
      BY <2>1, FoldedAlike
    <3>3. filled \in [1 .. M -> Elements]
      <4>1. \A i \in 1 .. M : s.raw.inners[i] \in Elements
        BY StateFacts
      <4>2. Zeros \in Elements
        BY PyStructAssumption DEF Zeros, Elements
      <4>3. \A i \in 1 .. M : reached(i) => i \in DOMAIN items
        BY <2>2
      <4> QED
        BY <2>4, <4>1, <4>2, <4>3
    <3>4. bad = {} =>
            filled = [i \in 1 .. M |-> IF i <= Len(ShownInners(s)) THEN Padded(ShownInners(s)[i])
                                       ELSE Zeros]
      <4> SUFFICES ASSUME bad = {}, NEW i \in 1 .. M
                   PROVE  filled[i] = IF i <= Len(ShownInners(s)) THEN Padded(ShownInners(s)[i])
                                      ELSE Zeros
        OBVIOUS
      <4>1. CASE i <= Len(items)
        <5>1. i \in DOMAIN items /\ reached(i) /\ i \notin bad
          BY <2>2, <4>1
        <5> QED
          BY <2>4, <2>5, <4>1, <5>1
      <4>2. CASE ~(i <= Len(items))
        BY <2>5, <4>2
      <4> QED
        BY <4>1, <4>2
    <3>5. bad # {} => StructsRefused(s)
      BY <2>4, <2>5 DEF StructsRefused
    <3> HIDE DEF t, bad, filled, refs
    <3>6. /\ t.heap = Folded(s.heap, refs) /\ t.ok = (bad = {}) /\ t.cache = s.cache
          /\ t.raw = [s.raw EXCEPT !.inners = filled]
          /\ t = [ok |-> t.ok, heap |-> t.heap, raw |-> t.raw, cache |-> t.cache]
      BY <1>1, <3>1 DEF States
    <3>7. /\ t.raw \in Structs /\ t.raw.inners = filled
          /\ t.raw.inner = s.raw.inner /\ t.raw.ids = s.raw.ids
      BY <1>1, <3>3, <3>6 DEF States, Structs
    <3>8. Keeps(s, t)
      BY <1>4, <3>2, <3>6, <3>7 DEF Keeps, Members, l
    <3>9. SoundState(t)
      <4>1. t \in States
        BY <1>1, <3>2, <3>6, <3>7 DEF States
      <4>2. Roots(t.heap, t.cache)
        BY <1>1, <2>1, <3>2, <3>6, AlikeShow DEF Roots
      <4> QED
        BY <4>1, <4>2 DEF SoundState
    <3> QED
      BY <3>4, <3>5, <3>6, <3>7, <3>8, <3>9 DEF t
  <2> QED
    BY <2>6, <2>7
<1> QED
  BY <1>3, <1>4

\* The variables as a state of marshalling.
Here == [ok |-> TRUE, heap |-> heap, raw |-> raw, cache |-> cache]

LEMMA HereIs ==
  /\ Sound => SoundState(Here)
  /\ Shown = [ids |-> ShownIds(Here), inner |-> ShownInner(Here), inners |-> ShownInners(Here)]
<1>1. Here.ok = TRUE /\ Here.heap = heap /\ Here.raw = raw /\ Here.cache = cache
  BY DEF Here
<1>2. Sound => SoundState(Here)
  BY <1>1 DEF Sound, SoundState, States, Here
<1>3. Shown = [ids |-> ShownIds(Here), inner |-> ShownInner(Here), inners |-> ShownInners(Here)]
  BY <1>1 DEF Shown, ShownIds, ShownInner, ShownInners
<1> QED
  BY <1>2, <1>3

\* Marshalling changes nothing of what is shown; what it sends is that; and if it
\* refuses the object there is a cause.
LEMMA MarshalShows ==
  ASSUME Sound, Marshal
  PROVE  /\ Sound' /\ Shown' = Shown /\ did' \in {"sent", "refused"}
         /\ SendsWhatIsShown' /\ RefusedForCause'
<1> DEFINE s == PremarshalStruct(Here)
           t == Then(s, PremarshalInts)
           u == Then(t, PremarshalStructs)
<1>1. SoundState(Here) /\ Here.ok /\ Here.heap = heap /\ Here.raw = raw /\ Here.cache = cache
  BY HereIs DEF Here
<1>2. /\ SoundState(s) /\ Keeps(Here, s)
      /\ s.ok <=> Fits(ShownInner(Here))
      /\ s.ok => s.raw.inner = Padded(ShownInner(Here))
  BY <1>1, StructFolds
<1> HIDE DEF s
<1>3. /\ SoundState(t) /\ Keeps(s, t)
      /\ t.ok <=> s.ok /\ Fits(ShownIds(s))
      /\ t.ok => t.raw.ids = Padded(ShownIds(s)) /\ t.raw.inner = s.raw.inner
  <2>1. CASE s.ok
    <3>1. t = PremarshalInts(s)
      BY <2>1 DEF Then
    <3> HIDE DEF t
    <3> QED
      BY <1>2, <2>1, <3>1, IntsFold
  <2>2. CASE ~s.ok
    <3>1. t = s
      BY <2>2 DEF Then
    <3>2. Keeps(s, s)
      BY DEF Keeps, Alike
    <3> HIDE DEF t
    <3> QED
      BY <1>2, <2>2, <3>1, <3>2
  <2> QED
    BY <2>1, <2>2
<1> HIDE DEF t
<1>4. /\ SoundState(u) /\ Keeps(t, u) /\ u.ok \in BOOLEAN
      /\ u.ok => t.ok
      /\ ~u.ok /\ t.ok => StructsRefused(t)
      /\ u.ok => /\ u.raw.ids = t.raw.ids /\ u.raw.inner = t.raw.inner
                 /\ u.raw.inners =
                      [i \in 1 .. M |->
                         IF i <= Len(ShownInners(t)) THEN Padded(ShownInners(t)[i]) ELSE Zeros]
  <2>1. CASE t.ok
    <3>1. u = PremarshalStructs(t)
      BY <2>1 DEF Then
    <3> HIDE DEF u
    <3> QED
      BY <1>3, <2>1, <3>1, StructsFold, StateFacts
  <2>2. CASE ~t.ok
    <3>1. u = t
      BY <2>2 DEF Then
    <3>2. Keeps(t, t)
      BY DEF Keeps, Alike
    <3> HIDE DEF u
    <3> QED
      BY <1>3, <2>2, <3>1, <3>2, StateFacts
  <2> QED
    BY <2>1, <2>2
<1>5. /\ heap' = u.heap /\ raw' = u.raw /\ cache' = u.cache
      /\ did' = IF u.ok THEN "sent" ELSE "refused"
      /\ sent' = IF u.ok THEN u.raw ELSE sent
  BY Zenon DEF Marshal, Here, s, t, u
<1> HIDE DEF u
<1>6. /\ ShownIds(s) = ShownIds(Here) /\ ShownIds(u) = ShownIds(Here)
      /\ ShownInner(u) = ShownInner(Here)
      /\ ShownInners(t) = ShownInners(Here) /\ ShownInners(u) = ShownInners(Here)
  BY <1>1, <1>2, <1>3, <1>4, KeepsShown
<1>7. Sound'
  BY <1>4, <1>5 DEF SoundState, States, Sound
<1>8. Shown' = [ids |-> ShownIds(u), inner |-> ShownInner(u), inners |-> ShownInners(u)]
  BY <1>5, Zenon DEF Shown, ShownIds, ShownInner, ShownInners
<1>9. Shown' = Shown
  BY <1>6, <1>8, HereIs
<1>10. SendsWhatIsShown'
  <2> SUFFICES ASSUME u.ok
               PROVE  u.raw = [ids |-> Padded(Shown'.ids), inner |-> Padded(Shown'.inner),
                               inners |-> [i \in 1 .. M |->
                                 IF i <= Len(Shown'.inners) THEN Padded(Shown'.inners[i])
                                 ELSE Zeros]]
    BY <1>5 DEF SendsWhatIsShown, Padded, Zeros
  <2>1. u.raw = [ids |-> u.raw.ids, inner |-> u.raw.inner, inners |-> u.raw.inners]
    BY <1>4, StateFacts DEF Structs
  <2>2. u.raw.ids = Padded(Shown'.ids) /\ u.raw.inner = Padded(Shown'.inner)
    BY <1>2, <1>3, <1>4, <1>6, <1>8
  <2>3. Shown'.inners = ShownInners(t)
    BY <1>6, <1>8
  <2> QED
    BY <1>4, <2>1, <2>2, <2>3
<1>11. RefusedForCause'
  <2> SUFFICES ASSUME ~u.ok
               PROVE  \/ ~Fits(Shown'.ids) \/ ~Fits(Shown'.inner) \/ cache'.inners = 0
                      \/ Len(Shown'.inners) > M
                      \/ \E i \in DOMAIN Shown'.inners : ~Fits(Shown'.inners[i])
    BY <1>5 DEF RefusedForCause, Fits
  <2>1. Shown'.ids = ShownIds(s) /\ Shown'.inner = ShownInner(Here)
        /\ Shown'.inners = ShownInners(t) /\ cache' = t.cache
    BY <1>4, <1>5, <1>6, <1>8 DEF Keeps
  <2> QED
    BY <1>2, <1>3, <1>4, <2>1 DEF StructsRefused
<1> QED
  BY <1>5, <1>7, <1>9, <1>10, <1>11

-----------------------------------------------------------------------------
(* What Python code does between two marshallings. *)

\* Objects that are made leave those there are alone.
LEMMA MoreObjects ==
  ASSUME NEW h \in Heaps, NEW g \in Seq(Objects),
         \A r \in DOMAIN g :
           /\ g[r].cache = 0
           /\ g[r].kind = "structs" =>
                \A i \in DOMAIN g[r].items : g[r].items[i] \in 0 .. Len(h) + Len(g)
  PROVE  /\ h \o g \in Heaps /\ DOMAIN h \subseteq DOMAIN (h \o g)
         /\ Len(h \o g) = Len(h) + Len(g)
         /\ \A r \in DOMAIN h : (h \o g)[r] = h[r]
         /\ \A r \in DOMAIN g : (h \o g)[Len(h) + r] = g[r]
<1> DEFINE f == h \o g
<1>1. /\ Len(h) \in Nat /\ DOMAIN h = 1 .. Len(h) /\ h \in Seq(Objects)
      /\ Len(g) \in Nat /\ DOMAIN g = 1 .. Len(g)
  BY HeapFacts, SeqFacts DEF Heaps
<1>2. /\ f \in Seq(Objects) /\ Len(f) = Len(h) + Len(g) /\ DOMAIN f = 1 .. Len(h) + Len(g)
      /\ \A r \in 1 .. Len(f) : f[r] = IF r <= Len(h) THEN h[r] ELSE g[r - Len(h)]
  BY <1>1
<1> HIDE DEF f
<1>3. \A r \in DOMAIN h : r \in DOMAIN f /\ f[r] = h[r]
  BY <1>1, <1>2
<1>4. \A r \in DOMAIN g : Len(h) + r \in DOMAIN f /\ f[Len(h) + r] = g[r]
  BY <1>1, <1>2
<1>5. Linked(f)
  <2> SUFFICES ASSUME NEW r \in DOMAIN f
               PROVE  /\ f[r].cache # 0 => f[r].cache \in DOMAIN f /\ IsList(f, f[r].cache)
                      /\ f[r].kind = "structs" =>
                           \A i \in DOMAIN f[r].items : f[r].items[i] \in 0 .. Len(f)
    BY DEF Linked
  <2>1. CASE r <= Len(h)
    <3>1. r \in DOMAIN h /\ f[r] = h[r]
      BY <1>1, <1>2, <2>1
    <3>2. h[r].cache # 0 => h[r].cache \in DOMAIN h /\ IsList(h, h[r].cache)
      BY <3>1, HeapFacts DEF Linked
    <3>3. h[r].kind = "structs" =>
            \A i \in DOMAIN h[r].items : h[r].items[i] \in 0 .. Len(h)
      BY <3>1, HeapFacts DEF Linked
    <3>4. \A x \in 0 .. Len(h) : x \in 0 .. Len(f)
      BY <1>1, <1>2
    <3> QED
      BY <1>3, <3>1, <3>2, <3>3, <3>4 DEF IsList
  <2>2. CASE ~(r <= Len(h))
    <3>1. r - Len(h) \in DOMAIN g /\ f[r] = g[r - Len(h)]
      BY <1>1, <1>2, <2>2
    <3> QED
      BY <1>2, <3>1
  <2> QED
    BY <2>1, <2>2
<1> QED
  BY <1>2, <1>3, <1>4, <1>5 DEF Heaps, f

\* What Python code makes is an object, a list of what it should be of or not.
LEMMA MadeObjects ==
  /\ \A d \in Elements : Inner(d) \in Objects /\ Inner(d).cache = 0 /\ Inner(d).kind = "inner"
  /\ \A k \in {"ints", "structs"}, s \in Seq(Int) :
       /\ List(k, s) \in Objects /\ List(k, s).cache = 0
       /\ List(k, s).kind = k /\ List(k, s).items = s
<1>1. Zeros \in Elements
  BY PyStructAssumption DEF Zeros, Elements
<1>2. <<>> \in Seq(Int)
  OBVIOUS
<1> QED
  BY <1>1, <1>2 DEF Inner, List, Objects

\* One object more: its place, and what it does not change.
LEMMA OneMore ==
  ASSUME NEW h \in Heaps, NEW o \in Objects, o.cache = 0,
         o.kind = "structs" => \A i \in DOMAIN o.items : o.items[i] \in 0 .. Len(h)
  PROVE  /\ Append(h, o) \in Heaps /\ Len(Append(h, o)) = Len(h) + 1
         /\ DOMAIN Append(h, o) = 1 .. Len(h) + 1
         /\ \A r \in DOMAIN h : r \in DOMAIN Append(h, o) /\ Append(h, o)[r] = h[r]
         /\ Append(h, o)[Len(h) + 1] = o
<1>1. h \in Seq(Objects) /\ Len(h) \in Nat /\ DOMAIN h = 1 .. Len(h)
  BY HeapFacts DEF Heaps
<1>2. Append(h, o) = h \o <<o>> /\ <<o>> \in Seq(Objects) /\ Len(<<o>>) = 1
      /\ DOMAIN <<o>> = {1} /\ <<o>>[1] = o
  BY <1>1
<1>3. \A x \in 0 .. Len(h) : x \in 0 .. Len(h) + 1
  BY <1>1
<1>4. \A r \in DOMAIN <<o>> : <<o>>[r].cache = 0 /\
           (<<o>>[r].kind = "structs" =>
              \A i \in DOMAIN <<o>>[r].items : <<o>>[r].items[i] \in 0 .. Len(h) + Len(<<o>>))
  BY <1>2, <1>3
<1>5. /\ h \o <<o>> \in Heaps /\ DOMAIN h \subseteq DOMAIN (h \o <<o>>)
      /\ Len(h \o <<o>>) = Len(h) + Len(<<o>>)
      /\ \A r \in DOMAIN h : (h \o <<o>>)[r] = h[r]
      /\ \A r \in DOMAIN <<o>> : (h \o <<o>>)[Len(h) + r] = <<o>>[r]
  BY <1>2, <1>4, MoreObjects, Zenon
<1> QED
  BY <1>1, <1>2, <1>5, HeapFacts

\* What is shown of objects does not change when others are made.
LEMMA MoreShows ==
  ASSUME NEW h \in Heaps, NEW g \in Heaps,
         \A r \in DOMAIN h : r \in DOMAIN g /\ g[r] = h[r]
  PROVE  /\ \A l \in DOMAIN h : Seen(g, l) = Seen(h, l) /\ (IsList(g, l) <=> IsList(h, l))
         /\ \A r \in DOMAIN h : InnerSeen(g, r) = InnerSeen(h, r)
         /\ \A l \in DOMAIN h : \A i \in DOMAIN h[l].items : ItemSeen(g, l, i) = ItemSeen(h, l, i)
<1>1. \A l \in DOMAIN h : Seen(g, l) = Seen(h, l) /\ (IsList(g, l) <=> IsList(h, l))
  BY DEF Seen, IsList
<1>2. ASSUME NEW r \in DOMAIN h PROVE InnerSeen(g, r) = InnerSeen(h, r)
  BY <1>1, HeapFacts DEF Linked, InnerSeen
<1>3. ASSUME NEW l \in DOMAIN h, NEW i \in DOMAIN h[l].items
      PROVE  ItemSeen(g, l, i) = ItemSeen(h, l, i)
  <2>1. h[l].kind = "structs" /\ h[l].items[i] # 0 => h[l].items[i] \in DOMAIN h
    <3>1. /\ h[l].kind = "structs" => h[l].items[i] \in 0 .. Len(h)
          /\ DOMAIN h = 1 .. Len(h) /\ Len(h) \in Nat
      BY HeapFacts DEF Linked
    <3> QED
      BY <3>1
  <2> QED
    BY <1>2, <2>1 DEF ItemSeen
<1> QED
  BY <1>1, <1>2, <1>3

\* Shown, attribute by attribute.
LEMMA ShownIs ==
  /\ Shown.ids = IF cache.ids = 0 THEN raw.ids ELSE Seen(heap, cache.ids)
  /\ Shown.inner = IF cache.inner = 0 THEN raw.inner ELSE InnerSeen(heap, cache.inner)
  /\ Shown.inners = IF cache.inners = 0 THEN raw.inners
       ELSE [i \in DOMAIN heap[cache.inners].items |-> ItemSeen(heap, cache.inners, i)]
  BY DEF Shown

\* The same after a step.
LEMMA ShownIsNext ==
  /\ Shown'.ids = IF cache'.ids = 0 THEN raw'.ids ELSE Seen(heap', cache'.ids)
  /\ Shown'.inner = IF cache'.inner = 0 THEN raw'.inner ELSE InnerSeen(heap', cache'.inner)
  /\ Shown'.inners = IF cache'.inners = 0 THEN raw'.inners
       ELSE [i \in DOMAIN heap'[cache'.inners].items |-> ItemSeen(heap', cache'.inners, i)]
<1>1. Shown' = [ids |-> IF cache'.ids = 0 THEN raw'.ids ELSE Seen(heap', cache'.ids),
         inner |-> IF cache'.inner = 0 THEN raw'.inner ELSE InnerSeen(heap', cache'.inner),
         inners |-> IF cache'.inners = 0 THEN raw'.inners
              ELSE [i \in DOMAIN heap'[cache'.inners].items |-> ItemSeen(heap', cache'.inners, i)]]
  BY Zenon DEF Shown, Seen, InnerSeen, ItemSeen
<1> QED
  BY <1>1

\* What the invariant says of the cache.
LEMMA CacheFacts ==
  ASSUME Sound
  PROVE  /\ heap \in Heaps /\ raw \in Structs
         /\ cache \in [Members -> Nat] /\ DOMAIN cache = Members
         /\ Members = {"ids", "inner", "inners"}
         /\ \A m \in Members : cache[m] # 0 =>
              cache[m] \in DOMAIN heap /\ (IsList(heap, cache[m]) <=> m # "inner")
         /\ raw.ids \in Elements /\ raw.inner \in Elements
         /\ raw.inners \in [1 .. M -> Elements]
  BY DEF Sound, Roots, Members, Structs

\* When only objects are made, the cache keeps its meaning, and what the object
\* shows of a member that is cached as before does not change.
LEMMA MoreKeeps ==
  ASSUME Sound, heap' \in Heaps, \A r \in DOMAIN heap : r \in DOMAIN heap' /\ heap'[r] = heap[r],
         raw' = raw, cache' \in [Members -> Nat]
  PROVE  /\ (\A m \in Members : cache'[m] = cache[m] \/
               (cache'[m] \in DOMAIN heap' /\ (IsList(heap', cache'[m]) <=> m # "inner"))) => Sound'
         /\ \A m \in Members : cache'[m] = cache[m] => Shown'[m] = Shown[m]
<1>1. /\ \A l \in DOMAIN heap : Seen(heap', l) = Seen(heap, l) /\ (IsList(heap', l) <=> IsList(heap, l))
      /\ \A r \in DOMAIN heap : InnerSeen(heap', r) = InnerSeen(heap, r)
      /\ \A l \in DOMAIN heap : \A i \in DOMAIN heap[l].items :
           ItemSeen(heap', l, i) = ItemSeen(heap, l, i)
  BY CacheFacts, MoreShows
<1>2. ASSUME \A m \in Members : cache'[m] = cache[m] \/
               (cache'[m] \in DOMAIN heap' /\ (IsList(heap', cache'[m]) <=> m # "inner"))
      PROVE  Sound'
  <2>1. ASSUME NEW m \in Members, cache'[m] # 0
        PROVE  cache'[m] \in DOMAIN heap' /\ (IsList(heap', cache'[m]) <=> m # "inner")
    <3>1. CASE cache'[m] = cache[m]
      <4>1. cache[m] \in DOMAIN heap /\ (IsList(heap, cache[m]) <=> m # "inner")
        BY <2>1, <3>1, CacheFacts
      <4> QED
        BY <1>1, <3>1, <4>1
    <3> QED
      BY <1>2, <3>1
  <2>2. (\A m \in Members : cache'[m] # 0 =>
          cache'[m] \in DOMAIN heap' /\ (IsList(heap', cache'[m]) <=> m # "inner"))
    BY <2>1
  <2>3. Roots(heap', cache')
    BY <2>2 DEF Roots
  <2>4. raw' \in Structs
    BY CacheFacts
  <2>5. Sound' <=> raw' \in Structs /\ heap' \in Heaps /\ cache' \in [Members -> Nat]
                   /\ Roots(heap', cache')
    BY Zenon DEF Sound, Roots
  <2> QED
    BY <2>3, <2>4, <2>5
<1>3. cache'["ids"] = cache["ids"] => Shown'["ids"] = Shown["ids"]
  BY <1>1, ShownIs, ShownIsNext, CacheFacts
<1>4. cache'["inner"] = cache["inner"] => Shown'["inner"] = Shown["inner"]
  BY <1>1, ShownIs, ShownIsNext, CacheFacts
<1>5. cache'["inners"] = cache["inners"] => Shown'["inners"] = Shown["inners"]
  <2> DEFINE l == cache.inners
  <2>1. l # 0 => l \in DOMAIN heap /\ heap'[l] = heap[l]
    BY CacheFacts
  <2>2. l # 0 => [i \in DOMAIN heap'[l].items |-> ItemSeen(heap', l, i)]
                   = [i \in DOMAIN heap[l].items |-> ItemSeen(heap, l, i)]
    BY <1>1, <2>1
  <2> QED
    BY <2>2, ShownIs, ShownIsNext
<1> QED
  BY <1>2, <1>3, <1>4, <1>5, CacheFacts

-----------------------------------------------------------------------------
(* One lemma per action. *)

\* An attribute is shown as before, or is that array of structures.
KeepsMembers == \A m \in Members : Apart(m) \/ Shown'[m] = Shown[m]

\* An array of integers is an int list of the same.
LEMMA ListOfElements ==
  ASSUME NEW a \in Elements
  PROVE  /\ List("ints", a) \in Objects /\ List("ints", a).cache = 0
         /\ List("ints", a).kind = "ints" /\ List("ints", a).items = a
  BY ElementsFit, MadeObjects

\* Making an object gives it to nobody.
LEMMA MakeKeeps == ASSUME Sound, Make PROVE Sound'
<1>1. PICK o : /\ heap' = Append(heap, o) /\ o \in Objects /\ o.cache = 0
               /\ o.kind = "structs" => \A i \in DOMAIN o.items : o.items[i] \in 0 .. Len(heap)
  <2>1. CASE \E n \in 0 .. MaxItems : \E s \in [1 .. n -> Ints] : heap' = Append(heap, List("ints", s))
    <3>0. PICK n \in 0 .. MaxItems : \E s \in [1 .. n -> Ints] : heap' = Append(heap, List("ints", s))
      BY <2>1
    <3>1. PICK s \in [1 .. n -> Ints] : heap' = Append(heap, List("ints", s))
      BY <3>0
    <3>2. n \in Nat /\ s \in [1 .. n -> Int]
      <4>1. Values \subseteq Int /\ -1 \in Int
        BY PyStructAssumption
      <4>2. Ints \subseteq Int
        BY <4>1 DEF Ints
      <4>3. n \in Nat
        BY PyStructAssumption
      <4> HIDE DEF Ints
      <4> QED
        BY <4>2, <4>3
    <3>3. s \in Seq(Int)
      BY <3>2, SeqOf
    <3> QED
      BY <3>1, <3>3, MadeObjects
  <2>2. CASE \E n \in 0 .. MaxItems : \E s \in [1 .. n -> 0 .. Len(heap)] :
               heap' = Append(heap, List("structs", s))
    <3>0. PICK n \in 0 .. MaxItems : \E s \in [1 .. n -> 0 .. Len(heap)] :
            heap' = Append(heap, List("structs", s))
      BY <2>2
    <3>1. PICK s \in [1 .. n -> 0 .. Len(heap)] : heap' = Append(heap, List("structs", s))
      BY <3>0
    <3>2. n \in Nat /\ s \in [1 .. n -> Int]
      BY PyStructAssumption
    <3>3. s \in Seq(Int) /\ DOMAIN s = 1 .. n
      BY <3>2, SeqOf
    <3> QED
      BY <3>1, <3>3, MadeObjects
  <2>3. CASE heap' = Append(heap, Inner(Zeros))
    <3>1. Zeros \in Elements
      BY PyStructAssumption DEF Zeros, Elements
    <3> QED
      BY <2>3, <3>1, MadeObjects
  <2> QED
    BY <2>1, <2>2, <2>3 DEF Make
<1>2. raw' = raw /\ cache' = cache
  BY DEF Make
<1>3. heap' \in Heaps /\ \A r \in DOMAIN heap : r \in DOMAIN heap' /\ heap'[r] = heap[r]
  BY <1>1, OneMore, CacheFacts
<1> QED
  BY <1>2, <1>3, MoreKeeps, CacheFacts

\* A look at the array of integers.
LEMMA GetIntsKeeps == ASSUME Sound, GetInts PROVE Sound' /\ KeepsMembers
<1>1. /\ heap' = Append(heap, List("ints", raw.ids)) /\ raw' = raw
      /\ cache.ids = 0 /\ cache' = [cache EXCEPT !.ids = Len(heap')]
  BY DEF GetInts
<1>2. /\ heap' \in Heaps /\ Len(heap') = Len(heap) + 1 /\ DOMAIN heap' = 1 .. Len(heap) + 1
      /\ \A r \in DOMAIN heap : r \in DOMAIN heap' /\ heap'[r] = heap[r]
      /\ heap'[Len(heap) + 1] = List("ints", raw.ids)
  BY <1>1, OneMore, ListOfElements, CacheFacts
<1>3. Len(heap) \in Nat
  BY HeapFacts, CacheFacts
<1>4. /\ cache' \in [Members -> Nat] /\ cache'.ids = Len(heap) + 1
      /\ \A m \in Members : m # "ids" => cache'[m] = cache[m]
  BY <1>1, <1>2, <1>3, CacheFacts
<1>5. Len(heap) + 1 \in DOMAIN heap' /\ IsList(heap', Len(heap) + 1)
  BY <1>2, <1>3, ListOfElements, CacheFacts DEF IsList
<1>6. Sound' /\ \A m \in Members : m # "ids" => Shown'[m] = Shown[m]
  BY <1>1, <1>2, <1>4, <1>5, MoreKeeps
<1>7. Shown'.ids = Shown.ids
  <2>1. Seen(heap', Len(heap) + 1) = raw.ids
    BY <1>2, ListOfElements, CacheFacts DEF Seen
  <2> QED
    BY <1>1, <1>3, <1>4, <2>1, ShownIs, ShownIsNext
<1> QED
  BY <1>6, <1>7 DEF KeepsMembers

\* A look at the nested structure.
LEMMA GetStructKeeps == ASSUME Sound, GetStruct PROVE Sound' /\ KeepsMembers
<1>1. /\ heap' = Append(heap, Inner(raw.inner)) /\ raw' = raw
      /\ cache.inner = 0 /\ cache' = [cache EXCEPT !.inner = Len(heap')]
  BY DEF GetStruct
<1>2. /\ heap' \in Heaps /\ Len(heap') = Len(heap) + 1 /\ DOMAIN heap' = 1 .. Len(heap) + 1
      /\ \A r \in DOMAIN heap : r \in DOMAIN heap' /\ heap'[r] = heap[r]
      /\ heap'[Len(heap) + 1] = Inner(raw.inner)
  BY <1>1, OneMore, MadeObjects, CacheFacts
<1>3. Len(heap) \in Nat
  BY HeapFacts, CacheFacts
<1>4. /\ cache' \in [Members -> Nat] /\ cache'.inner = Len(heap) + 1
      /\ \A m \in Members : m # "inner" => cache'[m] = cache[m]
  BY <1>1, <1>2, <1>3, CacheFacts, SMTT(60)
<1>5. Len(heap) + 1 \in DOMAIN heap' /\ ~IsList(heap', Len(heap) + 1)
  BY <1>2, <1>3, MadeObjects, CacheFacts DEF IsList
<1>6. Sound' /\ \A m \in Members : m # "inner" => Shown'[m] = Shown[m]
  BY <1>1, <1>2, <1>4, <1>5, MoreKeeps
<1>7. Shown'.inner = Shown.inner
  <2>1. InnerSeen(heap', Len(heap) + 1) = raw.inner
    BY <1>2 DEF InnerSeen, Inner
  <2> QED
    BY <1>1, <1>3, <1>4, <2>1, ShownIs, ShownIsNext
<1> QED
  BY <1>6, <1>7 DEF KeepsMembers

\* A look at the array of structures: whatever its elements are made from.
LEMMA GetStructsKeeps == ASSUME Sound, GetStructs PROVE Sound' /\ KeepsMembers
<1>1. PICK beyond \in Elements :
        heap' = heap \o [i \in 1 .. M |-> Inner(beyond)]
                     \o <<List("structs", [i \in 1 .. M |-> Len(heap) + i])>>
  BY DEF GetStructs
<1> DEFINE g == [i \in 1 .. M |-> Inner(beyond)]
           refs == [i \in 1 .. M |-> Len(heap) + i]
           h == heap \o g
<1>2. M \in Nat \ {0} /\ Len(heap) \in Nat
  BY PyStructAssumption, HeapFacts, CacheFacts
<1>3. g \in Seq(Objects) /\ Len(g) = M /\ DOMAIN g = 1 .. M
      /\ \A r \in DOMAIN g : g[r].cache = 0 /\ g[r].kind # "structs"
  <2>1. g \in [1 .. M -> Objects]
    BY MadeObjects
  <2> QED
    BY <1>2, <2>1, SeqOf, MadeObjects
<1>4. refs \in Seq(Int) /\ DOMAIN refs = 1 .. M /\ \A i \in 1 .. M : refs[i] \in 0 .. Len(heap) + M
  <2>1. refs \in [1 .. M -> Int]
    BY <1>2
  <2> QED
    BY <1>2, <2>1, SeqOf
<1> HIDE DEF g, refs
<1>5. /\ h \in Heaps /\ Len(h) = Len(heap) + M
      /\ \A r \in DOMAIN heap : r \in DOMAIN h /\ h[r] = heap[r]
  BY <1>3, MoreObjects, CacheFacts
<1> HIDE DEF h
<1>6. heap' = Append(h, List("structs", refs))
  <2>1. h \in Seq(Objects)
    BY <1>5 DEF Heaps
  <2>2. heap' = h \o <<List("structs", refs)>>
    BY <1>1 DEF h, g, refs
  <2> QED
    BY <2>1, <2>2
<1>7. /\ List("structs", refs) \in Objects /\ List("structs", refs).cache = 0
      /\ List("structs", refs).kind = "structs" /\ List("structs", refs).items = refs
  BY <1>4, MadeObjects
<1>8. /\ heap' \in Heaps /\ Len(heap') = Len(h) + 1 /\ DOMAIN heap' = 1 .. Len(h) + 1
      /\ \A r \in DOMAIN h : r \in DOMAIN heap' /\ heap'[r] = h[r]
      /\ heap'[Len(h) + 1] = List("structs", refs)
  <2>1. \A i \in DOMAIN refs : refs[i] \in 0 .. Len(h)
    BY <1>4, <1>5
  <2> QED
    BY <1>5, <1>6, <1>7, <2>1, OneMore
<1>9. \A r \in DOMAIN heap : r \in DOMAIN heap' /\ heap'[r] = heap[r]
  BY <1>5, <1>8
<1>10. /\ raw' = raw /\ cache.inners = 0 /\ cache' = [cache EXCEPT !.inners = Len(heap')]
  BY DEF GetStructs
<1>11. /\ cache' \in [Members -> Nat] /\ cache'.inners = Len(h) + 1 /\ Len(h) \in Nat
       /\ \A m \in Members : m # "inners" => cache'[m] = cache[m]
  BY <1>2, <1>5, <1>8, <1>10, CacheFacts
<1>12. Len(h) + 1 \in DOMAIN heap' /\ IsList(heap', Len(h) + 1)
  BY <1>7, <1>8, <1>11 DEF IsList
<1>13. Sound' /\ \A m \in Members : m # "inners" => Shown'[m] = Shown[m]
  BY <1>8, <1>9, <1>10, <1>11, <1>12, MoreKeeps
<1> QED
  BY <1>10, <1>11, <1>13 DEF KeepsMembers, Apart

\* A look at the array inside a nested structure: it is shown through a list from
\* now on, by whoever has that structure.
LEMMA GetInnerIntsKeeps == ASSUME Sound, GetInnerInts PROVE Sound' /\ KeepsMembers
<1>1. PICK r \in DOMAIN heap :
        /\ heap[r].kind = "inner" /\ heap[r].cache = 0
        /\ heap' = Append([heap EXCEPT ![r].cache = Len(heap) + 1], List("ints", heap[r].raw))
  BY DEF GetInnerInts
<1> DEFINE n == Len(heap)
           o == [heap[r] EXCEPT !.cache = n + 1]
           l == List("ints", heap[r].raw)
           g == [heap EXCEPT ![r] = o]
<1>2. /\ n \in Nat /\ DOMAIN heap = 1 .. n /\ Linked(heap) /\ heap \in Seq(Objects)
      /\ \A i \in DOMAIN heap : heap[i] \in Objects
      /\ heap[r].raw \in Elements
  BY HeapFacts, CacheFacts DEF Heaps
<1>3. l \in Objects /\ l.cache = 0 /\ l.kind = "ints" /\ l.items = heap[r].raw
  BY <1>2, ListOfElements
<1>4. /\ o \in Objects /\ o.cache = n + 1 /\ o.kind = "inner" /\ o.items = heap[r].items
      /\ o.raw = heap[r].raw
  <2>1. heap[r] \in Objects /\ n + 1 \in Nat
    BY <1>2
  <2> QED
    BY <1>1, <2>1 DEF Objects
<1> HIDE DEF o, l
<1>5. /\ heap' \in Seq(Objects) /\ Len(heap') = n + 1 /\ DOMAIN heap' = 1 .. n + 1
      /\ heap'[n + 1] = l /\ heap'[r] = o
      /\ \A i \in 1 .. n : i # r => heap'[i] = heap[i]
  <2>1. g \in Seq(Objects) /\ Len(g) = n /\ g[r] = o /\ \A i \in 1 .. n : i # r => g[i] = heap[i]
    BY <1>2, <1>4
  <2>2. heap' = Append(g, l)
    BY <1>1, Zenon DEF o, l
  <2> HIDE DEF g
  <2> QED
    BY <1>2, <1>3, <2>1, <2>2
<1>6. \A i \in DOMAIN heap : /\ i \in DOMAIN heap' /\ heap'[i].kind = heap[i].kind
                             /\ heap'[i].items = heap[i].items /\ heap'[i].raw = heap[i].raw
                             /\ i # r => heap'[i].cache = heap[i].cache
  BY <1>1, <1>2, <1>4, <1>5
<1>7. heap' \in Heaps
  <2>1. ASSUME NEW i \in 1 .. n, heap'[i].cache # 0
        PROVE  heap'[i].cache \in DOMAIN heap' /\ IsList(heap', heap'[i].cache)
    <3>1. CASE i = r
      BY <1>2, <1>3, <1>4, <1>5, <3>1 DEF IsList
    <3>2. CASE i # r
      <4>1. heap[i].cache # 0 /\ heap'[i].cache = heap[i].cache
        BY <1>2, <1>6, <2>1, <3>2
      <4>2. heap[i].cache \in DOMAIN heap /\ IsList(heap, heap[i].cache)
        BY <1>2, <4>1 DEF Linked
      <4> QED
        BY <1>6, <4>1, <4>2 DEF IsList
    <3> QED
      BY <3>1, <3>2
  <2>2. ASSUME NEW i \in 1 .. n, heap'[i].kind = "structs"
        PROVE  \A k \in DOMAIN heap'[i].items : heap'[i].items[k] \in 0 .. n + 1
    <3>1. heap[i].kind = "structs" /\ heap'[i].items = heap[i].items
      BY <1>2, <1>6, <2>2
    <3>2. \A k \in DOMAIN heap[i].items : heap[i].items[k] \in 0 .. n
      BY <1>2, <3>1 DEF Linked
    <3> QED
      BY <1>2, <3>1, <3>2
  <2>3. heap'[n + 1].cache = 0 /\ heap'[n + 1].kind # "structs"
    BY <1>3, <1>5
  <2>4. \A i \in DOMAIN heap' : i \in 1 .. n \/ i = n + 1
    BY <1>2, <1>5
  <2>5. Linked(heap')
    BY <1>5, <2>1, <2>2, <2>3, <2>4 DEF Linked
  <2> QED
    BY <1>5, <2>5 DEF Heaps
<1>8. raw' = raw /\ cache' = cache
  BY DEF GetInnerInts
<1>9. \A i \in DOMAIN heap : Seen(heap', i) = Seen(heap, i) /\ (IsList(heap', i) <=> IsList(heap, i))
  BY <1>6, Zenon DEF Seen, IsList
<1>10. Sound'
  <2>1. Roots(heap', cache)
    BY <1>6, <1>9, CacheFacts DEF Roots
  <2> QED
    BY <1>7, <1>8, <2>1, CacheFacts DEF Sound
<1>11. \A i \in DOMAIN heap : InnerSeen(heap', i) = InnerSeen(heap, i)
  <2>1. InnerSeen(heap', r) = InnerSeen(heap, r)
    <3>1. Seen(heap', n + 1) = heap[r].raw
      BY <1>3, <1>5 DEF Seen
    <3> QED
      BY <1>1, <1>2, <1>4, <1>5, <3>1 DEF InnerSeen
  <2>2. ASSUME NEW i \in DOMAIN heap, i # r PROVE InnerSeen(heap', i) = InnerSeen(heap, i)
    <3>1. heap[i].cache # 0 => heap[i].cache \in DOMAIN heap
      BY <1>2 DEF Linked
    <3> QED
      BY <1>6, <1>9, <2>2, <3>1 DEF InnerSeen
  <2> QED
    BY <2>1, <2>2
<1>12. \A i \in DOMAIN heap : \A k \in DOMAIN heap[i].items : ItemSeen(heap', i, k) = ItemSeen(heap, i, k)
  <2>1. ASSUME NEW i \in DOMAIN heap, NEW k \in DOMAIN heap[i].items
        PROVE  ItemSeen(heap', i, k) = ItemSeen(heap, i, k)
    <3>1. heap[i].kind = "structs" /\ heap[i].items[k] # 0 => heap[i].items[k] \in DOMAIN heap
      <4>1. heap[i].kind = "structs" => heap[i].items[k] \in 0 .. n
        BY <1>2 DEF Linked
      <4> QED
        BY <1>2, <4>1
    <3> QED
      BY <1>6, <1>11, <3>1 DEF ItemSeen
  <2> QED
    BY <2>1
<1>13. Shown'["ids"] = Shown["ids"] /\ Shown'["inner"] = Shown["inner"]
  BY <1>8, <1>9, <1>11, ShownIs, ShownIsNext, CacheFacts
<1>14. Shown'["inners"] = Shown["inners"]
  <2> DEFINE c == cache.inners
  <2>1. c # 0 => c \in DOMAIN heap /\ heap'[c].items = heap[c].items
    BY <1>6, CacheFacts
  <2>2. c # 0 => [i \in DOMAIN heap'[c].items |-> ItemSeen(heap', c, i)]
                   = [i \in DOMAIN heap[c].items |-> ItemSeen(heap, c, i)]
    BY <1>12, <2>1
  <2> QED
    BY <1>8, <2>2, ShownIs, ShownIsNext
<1> QED
  BY <1>10, <1>13, <1>14, CacheFacts DEF KeepsMembers

\* Assigning an attribute: of the right kind, whatever it holds.
LEMMA SetKeeps == ASSUME Sound, Set PROVE Sound'
<1>1. raw' = raw
  BY DEF Set
<1>2. CASE \E r \in DOMAIN heap : \E m \in Members : Assign(m, r)
  <2>1. PICK r \in DOMAIN heap, m \in Members : Assign(m, r)
    BY <1>2
  <2>2. heap' = heap /\ cache' = [cache EXCEPT ![m] = r] /\ (IsList(heap, r) <=> m # "inner")
    BY <2>1 DEF Assign, IsList
  <2>3. r \in Nat
    BY HeapFacts, CacheFacts
  <2>4. cache' \in [Members -> Nat] /\ Roots(heap, cache')
    BY <2>2, <2>3, CacheFacts DEF Roots
  <2> QED
    BY <1>1, <2>2, <2>4, CacheFacts DEF Sound
<1>3. CASE \E r \in DOMAIN heap : \E l \in DOMAIN heap : AssignInner(r, l)
  <2>1. PICK r \in DOMAIN heap, l \in DOMAIN heap : AssignInner(r, l)
    BY <1>3
  <2> DEFINE o == [heap[r] EXCEPT !.cache = l]
  <2>2. /\ cache' = cache /\ IsList(heap, l) /\ heap[r].kind = "inner"
        /\ heap' = [heap EXCEPT ![r] = o]
    BY <2>1 DEF AssignInner
  <2>3. /\ Len(heap) \in Nat /\ DOMAIN heap = 1 .. Len(heap) /\ heap \in Seq(Objects)
        /\ Linked(heap) /\ heap[r] \in Objects /\ l \in Nat
    BY HeapFacts, CacheFacts DEF Heaps
  <2>4. o \in Objects /\ o.kind = "inner" /\ o.cache = l /\ o.items = heap[r].items
    <3>1. heap[r] \in Objects /\ l \in Nat
      BY <2>3
    <3> QED
      BY <2>2, <3>1 DEF Objects
  <2> HIDE DEF o
  <2>5. /\ heap' \in Seq(Objects) /\ Len(heap') = Len(heap) /\ DOMAIN heap' = DOMAIN heap
        /\ heap'[r] = o /\ \A i \in DOMAIN heap : i # r => heap'[i] = heap[i]
    BY <2>2, <2>3, <2>4
  <2>6. \A i \in DOMAIN heap : heap'[i].kind = heap[i].kind /\ heap'[i].items = heap[i].items
    BY <2>2, <2>4, <2>5
  <2>7. \A i \in DOMAIN heap : IsList(heap', i) <=> IsList(heap, i)
    BY <2>6 DEF IsList
  <2>8. Linked(heap')
    BY <2>2, <2>3, <2>4, <2>5, <2>6, <2>7 DEF Linked
  <2>9. Roots(heap', cache)
    BY <2>5, <2>7, CacheFacts DEF Roots
  <2> QED
    BY <1>1, <2>2, <2>5, <2>8, <2>9, CacheFacts DEF Sound, Heaps
<1> QED
  BY <1>2, <1>3 DEF Set

\* Changing a list, whoever else has it.
LEMMA ChangeListKeeps == ASSUME Sound, ChangeList PROVE Sound'
<1>1. PICK l \in DOMAIN heap :
        \E v \in (IF heap[l].kind = "ints" THEN Ints ELSE 0 .. Len(heap)) :
         /\ IsList(heap, l)
         /\ \/ \E i \in DOMAIN heap[l].items : heap' = [heap EXCEPT ![l].items[i] = v]
            \/ heap' = [heap EXCEPT ![l].items = Append(@, v)]
  BY DEF ChangeList
<1>2. PICK v \in (IF heap[l].kind = "ints" THEN Ints ELSE 0 .. Len(heap)) :
         /\ IsList(heap, l)
         /\ \/ \E i \in DOMAIN heap[l].items : heap' = [heap EXCEPT ![l].items[i] = v]
            \/ heap' = [heap EXCEPT ![l].items = Append(@, v)]
  BY <1>1
<1>3. /\ Len(heap) \in Nat /\ DOMAIN heap = 1 .. Len(heap) /\ heap \in Seq(Objects)
      /\ Linked(heap) /\ heap[l] \in Objects /\ heap[l].items \in Seq(Int)
      /\ heap[l].kind \in {"ints", "structs"}
  BY <1>2, HeapFacts, CacheFacts DEF Heaps, IsList
<1>4. v \in Int /\ (heap[l].kind = "structs" => v \in 0 .. Len(heap))
  <2>1. Values \subseteq Int /\ -1 \in Int
    BY PyStructAssumption
  <2>2. Ints \subseteq Int
    BY <2>1 DEF Ints
  <2> HIDE DEF Ints
  <2> QED
    BY <1>2, <1>3, <2>2
<1>5. PICK s \in Seq(Int) :
        /\ heap' = [heap EXCEPT ![l] = [heap[l] EXCEPT !.items = s]]
        /\ \A k \in DOMAIN s : s[k] = v \/ (k \in DOMAIN heap[l].items /\ s[k] = heap[l].items[k])
  <2>1. CASE \E i \in DOMAIN heap[l].items : heap' = [heap EXCEPT ![l].items[i] = v]
    <3>1. PICK i \in DOMAIN heap[l].items : heap' = [heap EXCEPT ![l].items[i] = v]
      BY <2>1
    <3> DEFINE s == [heap[l].items EXCEPT ![i] = v]
    <3>2. s \in Seq(Int) /\ DOMAIN s = DOMAIN heap[l].items
          /\ \A k \in DOMAIN s : s[k] = v \/ s[k] = heap[l].items[k]
      BY <1>3, <1>4
    <3>3. heap' = [heap EXCEPT ![l] = [heap[l] EXCEPT !.items = s]]
      BY <3>1
    <3> QED
      BY <3>2, <3>3
  <2>2. CASE heap' = [heap EXCEPT ![l].items = Append(@, v)]
    <3> DEFINE s == Append(heap[l].items, v)
    <3>1. s \in Seq(Int) /\ \A k \in DOMAIN s :
            s[k] = v \/ (k \in DOMAIN heap[l].items /\ s[k] = heap[l].items[k])
      BY <1>3, <1>4
    <3>2. heap' = [heap EXCEPT ![l] = [heap[l] EXCEPT !.items = s]]
      BY <2>2
    <3> QED
      BY <3>1, <3>2
  <2> QED
    BY <1>2, <2>1, <2>2
<1> DEFINE o == [heap[l] EXCEPT !.items = s]
<1>6. o \in Objects /\ o.kind = heap[l].kind /\ o.cache = heap[l].cache /\ o.items = s
  <2>1. heap[l] \in Objects
    BY <1>3
  <2> QED
    BY <2>1 DEF Objects
<1> HIDE DEF o
<1>7. /\ heap' \in Seq(Objects) /\ Len(heap') = Len(heap) /\ DOMAIN heap' = DOMAIN heap
      /\ heap'[l] = o /\ \A i \in DOMAIN heap : i # l => heap'[i] = heap[i]
  <2>1. heap' = [heap EXCEPT ![l] = o]
    BY <1>5, Zenon DEF o
  <2> QED
    BY <1>3, <1>6, <2>1
<1>8. \A i \in DOMAIN heap : heap'[i].kind = heap[i].kind /\ heap'[i].cache = heap[i].cache
  BY <1>6, <1>7
<1>9. \A i \in DOMAIN heap : IsList(heap', i) <=> IsList(heap, i)
  BY <1>8 DEF IsList
<1>10. Linked(heap')
  <2>1. ASSUME NEW i \in DOMAIN heap, heap[i].kind = "structs"
        PROVE  \A k \in DOMAIN heap'[i].items : heap'[i].items[k] \in 0 .. Len(heap)
    <3>1. \A k \in DOMAIN heap[i].items : heap[i].items[k] \in 0 .. Len(heap)
      BY <1>3, <2>1 DEF Linked
    <3>2. CASE i # l
      BY <1>7, <3>1, <3>2
    <3>3. CASE i = l
      <4>1. heap'[i].items = s /\ v \in 0 .. Len(heap)
        BY <1>4, <1>6, <1>7, <2>1, <3>3
      <4>2. \A k \in DOMAIN s : s[k] = v \/ (k \in DOMAIN heap[i].items /\ s[k] = heap[i].items[k])
        BY <1>5, <3>3
      <4> QED
        BY <3>1, <4>1, <4>2, Zenon
    <3> QED
      BY <3>2, <3>3
  <2> QED
    BY <1>3, <1>7, <1>8, <1>9, <2>1 DEF Linked
<1>11. raw' = raw /\ cache' = cache
  BY DEF ChangeList
<1>12. Roots(heap', cache)
  BY <1>7, <1>9, CacheFacts DEF Roots
<1> QED
  BY <1>7, <1>10, <1>11, <1>12, CacheFacts DEF Sound, Heaps

-----------------------------------------------------------------------------
(* Structures as Python objects: the theorems. *)

\* The structure is cleared or decoded, and nothing is cached.
LEMMA InitSound == ASSUME ObjectInit PROVE Sound
<1>1. \A n \in 0 .. Width - 1 : All(n) \in Structs
  BY DEF All, Structs, Elements
<1>2. 0 \in 0 .. Width - 1 /\ Width - 1 \in 0 .. Width - 1
  BY PyStructAssumption
<1>3. heap \in Heaps
  BY DEF ObjectInit, Heaps, Linked
<1>4. raw \in Structs
  BY <1>1, <1>2 DEF ObjectInit
<1> QED
  BY <1>3, <1>4 DEF ObjectInit, Sound, Roots

\* Every step keeps the invariant.
LEMMA StepSound == ASSUME Sound, [ObjectNext]_objectVars PROVE Sound'
<1>1. CASE ObjectNext
  BY <1>1, MakeKeeps, SetKeeps, ChangeListKeeps, GetIntsKeeps, GetInnerIntsKeeps,
     GetStructKeeps, GetStructsKeeps, MarshalShows DEF ObjectNext
<1>2. CASE UNCHANGED objectVars
  BY <1>2 DEF objectVars, Sound
<1> QED
  BY <1>1, <1>2

\* Heap and cache stay well linked for every number of elements and of objects,
\* through marshallings that fail half-way too.
THEOREM AlwaysSound == ObjectSpec => []Sound
<1> QED
  BY InitSound, StepSound, PTL DEF ObjectSpec

\* What a step that neither sends nor refuses did.
LEMMA OtherSteps ==
  ASSUME Make \/ Set \/ ChangeList \/ GetInts \/ GetInnerInts \/ GetStruct \/ GetStructs
  PROVE  did' \in {"looked", "changed"}
  BY DEF Make, Set, ChangeList, GetInts, GetInnerInts, GetStruct, GetStructs, Changed

\* What is sent is what the attributes show, cut and padded, whatever was handed
\* out, shared, assigned and changed before.
THEOREM AlwaysSendsWhatIsShown == ObjectSpec => []SendsWhatIsShown
<1>1. ObjectInit => SendsWhatIsShown
  BY DEF ObjectInit, SendsWhatIsShown
<1>2. Sound /\ SendsWhatIsShown /\ [ObjectNext]_objectVars => SendsWhatIsShown'
  <2> SUFFICES ASSUME Sound, SendsWhatIsShown, [ObjectNext]_objectVars PROVE SendsWhatIsShown'
    OBVIOUS
  <2>1. CASE Marshal
    BY <2>1, MarshalShows
  <2>2. CASE Make \/ Set \/ ChangeList \/ GetInts \/ GetInnerInts \/ GetStruct \/ GetStructs
    BY <2>2, OtherSteps DEF SendsWhatIsShown
  <2>3. CASE UNCHANGED objectVars
    <3>1. heap' = heap /\ raw' = raw /\ cache' = cache /\ did' = did /\ sent' = sent
      BY <2>3 DEF objectVars
    <3>2. Shown' = Shown
      BY <3>1, Zenon DEF Shown, Seen, InnerSeen, ItemSeen
    <3> QED
      BY <3>1, <3>2, Zenon DEF SendsWhatIsShown, Padded
  <2> QED
    BY <2>1, <2>2, <2>3 DEF ObjectNext
<1> QED
  BY <1>1, <1>2, AlwaysSound, PTL DEF ObjectSpec

\* An object is refused only for what it shows, or for an array of structures that
\* nobody has looked at.
THEOREM AlwaysRefusedForCause == ObjectSpec => []RefusedForCause
<1>1. ObjectInit => RefusedForCause
  BY DEF ObjectInit, RefusedForCause
<1>2. Sound /\ RefusedForCause /\ [ObjectNext]_objectVars => RefusedForCause'
  <2> SUFFICES ASSUME Sound, RefusedForCause, [ObjectNext]_objectVars PROVE RefusedForCause'
    OBVIOUS
  <2>1. CASE Marshal
    BY <2>1, MarshalShows
  <2>2. CASE Make \/ Set \/ ChangeList \/ GetInts \/ GetInnerInts \/ GetStruct \/ GetStructs
    BY <2>2, OtherSteps DEF RefusedForCause
  <2>3. CASE UNCHANGED objectVars
    BY <2>3, ZenonT(60) DEF objectVars, RefusedForCause, Shown, Seen, InnerSeen, ItemSeen, IsList
  <2> QED
    BY <2>1, <2>2, <2>3 DEF ObjectNext
<1> QED
  BY <1>1, <1>2, AlwaysSound, PTL DEF ObjectSpec

\* Looking at an attribute, and a marshalling that fails, change what no attribute
\* shows; an array of structures that is made by looking at it excepted.
THEOREM AlwaysLookingChangesNothing == ObjectSpec => LookingChangesNothing
<1>1. Sound /\ [ObjectNext]_objectVars =>
        [did' \in {"looked", "refused"} => \A m \in Members : Apart(m) \/ Shown'[m] = Shown[m]]_objectVars
  <2> SUFFICES ASSUME Sound, [ObjectNext]_objectVars, did' \in {"looked", "refused"}, objectVars' # objectVars
               PROVE  KeepsMembers
    BY Zenon DEF KeepsMembers
  <2>1. CASE Marshal
    BY <2>1, MarshalShows DEF KeepsMembers
  <2>2. CASE Make \/ Set \/ ChangeList
    BY <2>2 DEF Make, Set, ChangeList, Changed
  <2>3. CASE GetInts \/ GetInnerInts \/ GetStruct \/ GetStructs
    BY <2>3, GetIntsKeeps, GetInnerIntsKeeps, GetStructKeeps, GetStructsKeeps
  <2> QED
    BY <2>1, <2>2, <2>3 DEF ObjectNext
<1> QED
  BY <1>1, AlwaysSound, PTL DEF ObjectSpec, LookingChangesNothing

-----------------------------------------------------------------------------
(* Split-mode calls: the inductive invariant. *)

\* TypeOK in three parts: where things are, what is on, and how many there are.
Places ==
  /\ pc \in {"transmit", "poll", "switch", "select", "case", "fill", "receive",
             "finish", "ok", "failed", "dead"}
  /\ handler \in Handlers
  /\ split_state \in {"idle", "transmitting"}
  /\ handler_state \in 0 .. 3 /\ phase \in 0 .. 2

Switches == receiving_data \in BOOLEAN /\ aborted \in BOOLEAN /\ more_recv \in BOOLEAN

Amounts ==
  /\ file_size \in FileSizes /\ pos \in 0 .. file_size
  /\ log_size \in LogSizes /\ arrived \in 0 .. log_size /\ output \in 0 .. arrived
  /\ target \in 0 .. BlockSize /\ buf_left \in 0 .. target
  /\ data_count \in 0 .. arrived /\ count \in 0 .. arrived
  /\ need_size \in 0 .. UINT_MAX

\* Every byte that has arrived is written, buffered or waiting.
Conserved == arrived = output + (target - buf_left) + data_count

\* The handler's buffer: it is being filled in state 2, and full in state 3.
Buffer ==
  /\ receiving_data <=> handler_state = 2
  /\ receiving_data => buf_left > 0
  /\ ~receiving_data => buf_left = 0
  /\ handler_state \in {0, 1} => target = 0

\* Where the thread is in each phase of the decoder and of the handler.
Control ==
  /\ phase = 0 <=> handler_state = 0
  /\ phase # 0 => handler = "getlog"
  /\ phase = 2 => /\ pc \in {"finish", "poll", "ok", "failed"}
                  /\ handler_state = 1 /\ data_count = 0 /\ ~more_recv
  /\ pc \in {"transmit", "dead"} => phase = 0
  /\ pc \in {"select", "case", "fill"} => phase = 1
  /\ pc = "fill" => receiving_data
  /\ handler_state = 3 => pc = "receive"
  /\ pc = "receive" => ~receiving_data
  /\ pc = "finish" => phase = 2
  /\ pc = "transmit" /\ ~more_recv => aborted
  /\ pc = "poll" /\ ~more_recv => aborted \/ phase = 2
  /\ pc = "ok" => phase = 2 /\ ~aborted
  /\ ~more_recv /\ ~aborted => arrived = log_size

\* The request is ended by its last block, if there is one.
Request ==
  handler = "install" =>
    /\ split_state = "idle" => pos = file_size
    /\ pos = file_size => split_state = "idle" \/ file_size = 0
    /\ pc = "dead" => file_size = 0

SplitInv ==
  Places /\ Switches /\ Amounts /\ BufferCanBeFilled /\ Conserved
    /\ Buffer /\ Control /\ Request /\ (pc = "dead" => handler = "install")
-----------------------------------------------------------------------------
(* Split-mode calls: it is one. *)

\* The sizes of the file and of the log are sizes.
LEMMA Sizes ==
  ASSUME file_size \in FileSizes, log_size \in LogSizes
  PROVE  /\ file_size \in Nat /\ log_size \in Nat /\ UINT_MAX \in Nat /\ BlockSize \in Nat
         /\ log_size < UINT_MAX /\ BlockSize > 0
  BY SplitAssumption

\* A call starts in it.
LEMMA SplitStarts == Init => SplitInv
<1> SUFFICES ASSUME Init PROVE SplitInv
  OBVIOUS
<1>1. Places
  BY DEF Init, Places
<1>2. Switches
  BY DEF Init, Switches
<1>3. Amounts
  BY Sizes DEF Init, Amounts
<1>4. BufferCanBeFilled /\ Conserved
  BY DEF Init, BufferCanBeFilled, Conserved
<1>5. Buffer /\ Control
  BY DEF Init, Buffer, Control
<1>6. Request /\ pc # "dead"
  BY DEF Init, Request
<1> QED
  BY <1>1, <1>2, <1>3, <1>4, <1>5, <1>6 DEF SplitInv

\* Filling the handler's buffer keeps it.
LEMMA FillBufferKeeps ==
  ASSUME SplitInv, FillBuffer
  PROVE  SplitInv'
<1>1. /\ receiving_data = TRUE /\ handler_state = 2 /\ phase = 1 /\ handler = "getlog"
      /\ pc = "fill" /\ target # 0
  BY DEF SplitInv, Places, Switches, Amounts, Buffer, Control, FillBuffer
<1>2. PICK n \in 1 .. buf_left : /\ data_count' = data_count - n
                                 /\ need_size' = need_size - n
                                 /\ buf_left' = buf_left - n
  BY DEF FillBuffer
<1>3. /\ UNCHANGED <<handler, split_state, phase, aborted, more_recv>>
      /\ UNCHANGED <<file_size, pos, log_size, arrived, output, target, count>>
  BY DEF FillBuffer, replyVars, fileVars
<1>4. /\ log_size \in Nat /\ arrived \in Nat /\ output \in Nat /\ target \in Nat
      /\ buf_left \in Nat /\ data_count \in Nat /\ need_size \in Nat /\ n \in Nat
      /\ arrived <= log_size /\ buf_left <= target
      /\ data_count <= arrived /\ need_size <= UINT_MAX /\ UINT_MAX \in Nat
      /\ buf_left <= data_count /\ need_size = buf_left /\ n <= buf_left
  BY <1>1, <1>2, Sizes DEF SplitInv, Amounts, BufferCanBeFilled
<1>5. buf_left' \in Nat /\ need_size' = buf_left' /\ buf_left' <= data_count'
  BY <1>2, <1>4
<1>6. Amounts'
  BY <1>2, <1>3, <1>4 DEF SplitInv, Amounts
<1>7. Conserved'
  BY <1>2, <1>3, <1>4 DEF SplitInv, Conserved
<1>8. Request'
  BY <1>1, <1>3 DEF Request
<1>9. CASE buf_left' > 0
  <2>1. /\ pc' = "select" /\ receiving_data' = receiving_data
        /\ handler_state' = handler_state
    BY <1>9 DEF FillBuffer
  <2>2. Places' /\ pc' # "dead"
    BY <1>3, <2>1 DEF SplitInv, Places
  <2>3. Switches'
    BY <1>1, <1>3, <2>1 DEF SplitInv, Switches
  <2>4. BufferCanBeFilled'
    BY <1>5 DEF BufferCanBeFilled
  <2>5. Buffer'
    BY <1>1, <1>3, <1>9, <2>1 DEF Buffer
  <2>6. Control'
    BY <1>1, <1>3, <2>1 DEF SplitInv, Control
  <2> QED
    BY <1>6, <1>7, <1>8, <2>2, <2>3, <2>4, <2>5, <2>6 DEF SplitInv
<1>10. CASE ~(buf_left' > 0)
  <2>1. /\ pc' = "receive" /\ receiving_data' = FALSE
        /\ handler_state' = handler_state + 1
    BY <1>10 DEF FillBuffer
  <2>2. buf_left' = 0
    BY <1>5, <1>10
  <2>3. Places' /\ pc' # "dead"
    BY <1>1, <1>3, <2>1 DEF SplitInv, Places
  <2>4. Switches'
    BY <1>1, <1>3, <2>1 DEF SplitInv, Switches
  <2>5. BufferCanBeFilled'
    BY <2>1 DEF BufferCanBeFilled
  <2>6. Buffer'
    BY <1>1, <1>3, <2>1, <2>2 DEF Buffer
  <2>7. Control'
    BY <1>1, <1>3, <2>1 DEF SplitInv, Control
  <2> QED
    BY <1>6, <1>7, <1>8, <2>3, <2>4, <2>5, <2>6, <2>7 DEF SplitInv
<1> QED
  BY <1>9, <1>10

\* Every step keeps it.
LEMMA SplitKept == SplitInv /\ [Next]_vars => SplitInv'
<1> SUFFICES ASSUME SplitInv, [Next]_vars PROVE SplitInv'
  OBVIOUS
<1> file_size \in FileSizes /\ log_size \in LogSizes
  BY DEF SplitInv, Amounts
<1> USE Sizes
<1> USE DEF SplitInv, Places, Switches, Amounts, BufferCanBeFilled, Conserved,
            Buffer, Control, Request,
            replyVars, fileVars, bufferVars, splitVars, callVars
<1>1. CASE TransmitNone
  <2>1. Places'
    BY <1>1 DEF TransmitNone
  <2>2. Switches'
    BY <1>1 DEF TransmitNone
  <2>3. Amounts'
    BY <1>1 DEF TransmitNone
  <2>4. BufferCanBeFilled' /\ Conserved'
    BY <1>1 DEF TransmitNone
  <2>5. Buffer' /\ Control'
    BY <1>1 DEF TransmitNone
  <2>6. Request' /\ (pc' = "dead" => handler' = "install")
    BY <1>1 DEF TransmitNone
  <2> QED
    BY <2>1, <2>2, <2>3, <2>4, <2>5, <2>6
<1>2. CASE SendBlock
  <2>1. Places'
    BY <1>2 DEF SendBlock, MoreBlocks
  <2>2. Switches'
    BY <1>2 DEF SendBlock, MoreBlocks
  <2>3. Amounts'
    BY <1>2 DEF SendBlock, MoreBlocks
  <2>4. BufferCanBeFilled' /\ Conserved'
    BY <1>2 DEF SendBlock, MoreBlocks
  <2>5. Buffer' /\ Control'
    BY <1>2 DEF SendBlock, MoreBlocks
  <2>6. Request' /\ (pc' = "dead" => handler' = "install")
    BY <1>2 DEF SendBlock, MoreBlocks
  <2> QED
    BY <2>1, <2>2, <2>3, <2>4, <2>5, <2>6
<1>3. CASE SendRefused
  BY <1>3 DEF SendRefused
<1>4. CASE TransmitDone
  BY <1>4 DEF TransmitDone
<1>5. CASE ReceiveAbort
  <2>1. Places'
    BY <1>5 DEF ReceiveAbort
  <2>2. Switches'
    BY <1>5 DEF ReceiveAbort
  <2>3. Amounts'
    BY <1>5 DEF ReceiveAbort
  <2>4. BufferCanBeFilled' /\ Conserved'
    BY <1>5 DEF ReceiveAbort
  <2>5. Buffer' /\ Control'
    BY <1>5 DEF ReceiveAbort
  <2>6. Request' /\ (pc' = "dead" => handler' = "install")
    BY <1>5 DEF ReceiveAbort
  <2> QED
    BY <2>1, <2>2, <2>3, <2>4, <2>5, <2>6
<1>6. CASE WaitForData
  BY <1>6 DEF WaitForData, Wanting
<1>7. CASE CallDecoder
  BY <1>7 DEF CallDecoder, Wanting
<1>8. CASE ReceiveInit
  BY <1>8 DEF ReceiveInit
<1>9. CASE ReceiveRaises
  BY <1>9 DEF ReceiveRaises
<1>10. CASE SelectPhase
  BY <1>10 DEF SelectPhase
<1>11. CASE CheckPhase
  BY <1>11 DEF CheckPhase, Lacking
<1>12. CASE FillBuffer
  BY <1>12, FillBufferKeeps
<1>13. CASE BeginReceive
  <2>1. Places'
    BY <1>13 DEF BeginReceive, Avail
  <2>2. Switches'
    BY <1>13 DEF BeginReceive, Avail
  <2>3. Amounts'
    BY <1>13 DEF BeginReceive, Avail
  <2>4. BufferCanBeFilled' /\ Conserved'
    BY <1>13 DEF BeginReceive, Avail
  <2>5. Buffer' /\ Control'
    BY <1>13 DEF BeginReceive, Avail
  <2>6. Request' /\ (pc' = "dead" => handler' = "install")
    BY <1>13 DEF BeginReceive, Avail
  <2> QED
    BY <2>1, <2>2, <2>3, <2>4, <2>5, <2>6
<1>14. CASE ReceiveAgain
  BY <1>14 DEF ReceiveAgain
<1>15. CASE ReceiveDone
  BY <1>15 DEF ReceiveDone
<1>16. CASE OutputBuffer
  BY <1>16 DEF OutputBuffer
<1>17. CASE Finish
  BY <1>17 DEF Finish
<1>18. CASE ReturnCall
  BY <1>18 DEF ReturnCall
<1>19. CASE Arrive
  <2>1. PICK len \in 0 .. log_size - arrived, last \in BOOLEAN : ReceiveData(len, last)
    BY <1>19 DEF Arrive
  <2>2. Places'
    BY <2>1 DEF ReceiveData
  <2>3. Switches'
    BY <2>1 DEF ReceiveData
  <2>4. Amounts'
    BY <2>1 DEF ReceiveData
  <2>5. BufferCanBeFilled' /\ Conserved'
    BY <2>1 DEF ReceiveData
  <2>6. Buffer' /\ Control'
    BY <2>1 DEF ReceiveData
  <2>7. Request' /\ (pc' = "dead" => handler' = "install")
    BY <2>1 DEF ReceiveData
  <2> QED
    BY <2>2, <2>3, <2>4, <2>5, <2>6, <2>7
<1>20. CASE UNCHANGED vars
  BY <1>20 DEF vars
<1> QED
  BY <1>1, <1>2, <1>3, <1>4, <1>5, <1>6, <1>7, <1>8, <1>9, <1>10, <1>11, <1>12, <1>13, <1>14, <1>15, <1>16, <1>17, <1>18, <1>19, <1>20 DEF Next, Transmit, Receive

\* The invariant holds throughout.
THEOREM SplitInvariance == Spec => []SplitInv
  BY SplitStarts, SplitKept, PTL DEF Spec

-----------------------------------------------------------------------------
(* Split-mode calls: what follows from it. *)

\* The variables keep to their types: in particular the handler's buffer is never
\* larger than a block, and need_size never below zero.
THEOREM SplitTypes == Spec => []TypeOK
<1>1. SplitInv => TypeOK
  BY DEF SplitInv, Places, Switches, Amounts, TypeOK
<1> QED
  BY <1>1, SplitInvariance, PTL

\* begin_recv() never asks for more than has arrived.
THEOREM CanBeFilled == Spec => []BufferCanBeFilled
<1>1. SplitInv => BufferCanBeFilled
  BY DEF SplitInv
<1> QED
  BY <1>1, SplitInvariance, PTL

\* A transfer that is reported complete is complete, for every file and log.
THEOREM Transfers == Spec => []WholeTransfer
<1>1. SplitInv => WholeTransfer
  BY SplitAssumption DEF SplitInv, Amounts, Conserved, Buffer, Control, Request, WholeTransfer
<1> QED
  BY <1>1, SplitInvariance, PTL

\* Only the upload of an empty file trips the assertion.
THEOREM EmptyFileDies == Spec => []OnlyEmptyFileDies
<1>1. SplitInv => OnlyEmptyFileDies
  BY DEF SplitInv, Request, OnlyEmptyFileDies
<1> QED
  BY <1>1, SplitInvariance, PTL
=============================================================================
