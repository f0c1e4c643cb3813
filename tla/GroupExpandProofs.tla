------------------------- MODULE GroupExpandProofs -------------------------
(***************************************************************************)
(* What holds of `pts membership -expandgroups` for every database of      *)
(* groups, whatever is asked for and whatever the server will not list.    *)
(*                                                                         *)
(* The argument: every activation of expand() holds a part of what is in   *)
(* its group, and what it lacks is in the groups it has still to do        *)
(* (FrameOK); each works on a group that the one below it has still to do, *)
(* so that no two work on the same group, and that a group is met again    *)
(* while it is worked on only if groups contain each other (StackOK).      *)
(***************************************************************************)
EXTENDS GroupExpand, TLAPS

-----------------------------------------------------------------------------
(* The operators of GroupExpand for a given database M. *)

Databases == [Groups -> SUBSET Ids]

ListedIn(M, id) == IF id \in Groups THEN M[id] ELSE {g \in Groups : id \in M[g]}
ClosedIn(M, S) == \A g \in S \cap Groups : M[g] \subseteq S
ReachIn(M, id) ==
  {x \in Ids : \A S \in SUBSET Ids : ListedIn(M, id) \subseteq S /\ ClosedIn(M, S) => x \in S}
AcyclicIn(M) == \A g \in Groups : g \notin ReachIn(M, g)
WantedIn(M, id) == IF id \in Groups THEN {id} ELSE {g \in Groups : id \in M[g]}

-----------------------------------------------------------------------------
(* The inductive invariant. *)

\* An activation: it holds nothing that is not in its group, and if groups do not
\* contain each other what it lacks is in those it has still to do.
FrameOK(M, f) ==
  /\ f.expansion \subseteq ReachIn(M, f.id)
  /\ f.todo \subseteq ReachIn(M, f.id)
  /\ AcyclicIn(M) => ReachIn(M, f.id) \subseteq
                       f.expansion \cup UNION {ReachIn(M, g) : g \in f.todo}

\* The activations: L is what is loaded, X what is remembered.
StackOK(M, L, X, s) ==
  /\ \A k \in 1 .. Len(s) :
       /\ FrameOK(M, s[k]) /\ s[k].todo \subseteq L
       /\ s[k].id \in Groups => X[s[k].id] # None
  /\ \A j, k \in 1 .. Len(s) : k = j + 1 => s[j].id \in s[k].todo
  /\ \A j, k \in 1 .. Len(s) : j < k =>
       /\ s[j].id # s[k].id /\ s[j].id \in Groups
       /\ s[j].id \in ReachIn(M, s[k].id)

\* What is remembered of the groups that are not being worked on is complete.
MemoryOK(M, X, s) ==
  \A g \in Groups : X[g] # None =>
    /\ X[g] \subseteq ReachIn(M, g)
    /\ AcyclicIn(M) /\ (\A k \in 1 .. Len(s) : s[k].id # g) => ReachIn(M, g) \subseteq X[g]

\* What is displayed.
ShownOK(M, sh) ==
  \A k \in 1 .. Len(sh) :
    /\ sh[k].expansion \subseteq ReachIn(M, sh[k].id)
    /\ AcyclicIn(M) => ReachIn(M, sh[k].id) \subseteq sh[k].expansion

\* What the requests need is loaded, or goes to be loaded.
LoadedOK ==
  /\ \A k \in 1 .. Len(requests) : WantedIn(members, requests[k]) \subseteq loaded
  /\ pc = "load" => \A g \in loaded \ needing : members[g] \cap Groups \subseteq loaded \cup needing
  /\ pc \in {"display", "expand"} => \A g \in loaded : members[g] \cap Groups \subseteq loaded

IInv ==
  /\ TypeOK
  /\ pc = "expand" <=> stack # <<>>
  /\ pc = "expand" => requests # <<>>
  /\ LoadedOK
  /\ StackOK(members, loaded, expanded, stack)
  /\ MemoryOK(members, expanded, stack)
  /\ ShownOK(members, shown)

-----------------------------------------------------------------------------
(* What is in a group. *)

\* The operators are those of GroupExpand.
LEMMA SameOperators ==
  /\ \A id \in Ids : Listed(id) = ListedIn(members, id) /\ Wanted(id) = WantedIn(members, id)
  /\ \A g \in Groups : Reach(g) = ReachIn(members, g)
  /\ Acyclic <=> AcyclicIn(members)
<1>1. \A id \in Ids : Listed(id) = ListedIn(members, id) /\ Wanted(id) = WantedIn(members, id)
  BY DEF Listed, ListedIn, Wanted, WantedIn, MemberOf
<1>2. \A S : Closed(S) <=> ClosedIn(members, S)
  BY DEF Closed, ClosedIn
<1>3. \A g \in Groups : Reach(g) = ReachIn(members, g)
  BY <1>2 DEF Reach, ReachIn, ListedIn
<1> QED
  BY <1>1, <1>3 DEF Acyclic, AcyclicIn, Ids

\* It holds what is listed and what is in the groups in it, and nothing else.
LEMMA ReachHolds ==
  ASSUME NEW M \in Databases, NEW id \in Ids
  PROVE  /\ ListedIn(M, id) \subseteq Ids /\ ReachIn(M, id) \subseteq Ids
         /\ ListedIn(M, id) \subseteq ReachIn(M, id)
         /\ \A g \in Groups \cap ReachIn(M, id) : ReachIn(M, g) \subseteq ReachIn(M, id)
<1>1. ListedIn(M, id) \subseteq Ids /\ ReachIn(M, id) \subseteq Ids
  BY DEF ListedIn, ReachIn, Databases, Ids
<1>2. ListedIn(M, id) \subseteq ReachIn(M, id)
  BY <1>1 DEF ReachIn
<1>3. ASSUME NEW g \in Groups, g \in ReachIn(M, id), NEW x \in ReachIn(M, g)
      PROVE  x \in ReachIn(M, id)
  <2>1. SUFFICES ASSUME NEW S \in SUBSET Ids, ListedIn(M, id) \subseteq S, ClosedIn(M, S)
                 PROVE  x \in S
    BY <1>3 DEF ReachIn
  <2>2. g \in S
    BY <1>3, <2>1 DEF ReachIn
  <2>3. ListedIn(M, g) \subseteq S
    BY <1>3, <2>1, <2>2 DEF ListedIn, ClosedIn
  <2> QED
    BY <1>3, <2>1, <2>3 DEF ReachIn
<1> QED
  BY <1>1, <1>2, <1>3

LEMMA ReachUnfolds ==
  ASSUME NEW M \in Databases, NEW id \in Ids
  PROVE  ReachIn(M, id) \subseteq
           ListedIn(M, id) \cup UNION {ReachIn(M, g) : g \in ListedIn(M, id) \cap Groups}
<1> DEFINE S == ListedIn(M, id) \cup UNION {ReachIn(M, g) : g \in ListedIn(M, id) \cap Groups}
<1>1. S \in SUBSET Ids
  BY ReachHolds DEF Ids
<1>2. ASSUME NEW g \in Groups, g \in S PROVE M[g] \subseteq S
  <2>1. ListedIn(M, g) = M[g]
    BY DEF ListedIn
  <2>2. M[g] \subseteq ReachIn(M, g)
    BY <2>1, ReachHolds DEF Ids
  <2>3. CASE g \in ListedIn(M, id)
    BY <2>2, <2>3
  <2>4. CASE g \notin ListedIn(M, id)
    <3>1. PICK h \in ListedIn(M, id) \cap Groups : g \in ReachIn(M, h)
      BY <1>2, <2>4
    <3>2. ReachIn(M, g) \subseteq ReachIn(M, h)
      BY <3>1, ReachHolds DEF Ids
    <3> QED
      BY <2>2, <3>1, <3>2
  <2> QED
    BY <2>3, <2>4
<1>3. ClosedIn(M, S)
  BY <1>2 DEF ClosedIn
<1>4. ListedIn(M, id) \subseteq S
  OBVIOUS
<1> HIDE DEF S
<1>5. ReachIn(M, id) \subseteq S
  BY <1>1, <1>3, <1>4 DEF ReachIn
<1> QED
  BY <1>5 DEF S

-----------------------------------------------------------------------------
(* The activations. *)

New(M, id) == [id |-> id, expansion |-> ListedIn(M, id), todo |-> ListedIn(M, id) \cap Groups]
Absorb(f, g, e) == [f EXCEPT !.expansion = @ \cup e, !.todo = @ \ {g}]

\* An activation that begins.
LEMMA FrameBegins ==
  ASSUME NEW M \in Databases, NEW id \in Ids
  PROVE  New(M, id) \in Frames /\ FrameOK(M, New(M, id))
<1>1. New(M, id) \in Frames
  BY ReachHolds DEF New, Frames
<1>2. FrameOK(M, New(M, id))
  BY ReachHolds, ReachUnfolds DEF New, FrameOK
<1> QED
  BY <1>1, <1>2

\* The expansion of a group it had to do goes to it.
LEMMA FrameAbsorbs ==
  ASSUME NEW M \in Databases, NEW f \in Frames, FrameOK(M, f),
         NEW g \in f.todo, NEW e, e \subseteq ReachIn(M, g),
         AcyclicIn(M) => ReachIn(M, g) \subseteq e
  PROVE  Absorb(f, g, e) \in Frames /\ FrameOK(M, Absorb(f, g, e))
<1>1. g \in Groups /\ g \in Ids /\ f.id \in Ids
  BY DEF Frames, Ids
<1>2. ReachIn(M, g) \subseteq ReachIn(M, f.id) /\ ReachIn(M, g) \subseteq Ids
  BY <1>1, ReachHolds DEF FrameOK
<1>3. /\ Absorb(f, g, e).id = f.id /\ Absorb(f, g, e).expansion = f.expansion \cup e
      /\ Absorb(f, g, e).todo = f.todo \ {g}
  BY DEF Absorb, Frames
<1>4. Absorb(f, g, e) \in Frames
  BY <1>2 DEF Absorb, Frames
<1>5. AcyclicIn(M) => ReachIn(M, f.id) \subseteq
        (f.expansion \cup e) \cup UNION {ReachIn(M, h) : h \in f.todo \ {g}}
  BY DEF FrameOK
<1> QED
  BY <1>2, <1>3, <1>4, <1>5 DEF FrameOK

\* A sequence with a new head, and with its head put in the place of another.
LEMMA Pushes ==
  ASSUME NEW S, NEW s \in Seq(S), NEW f \in S
  PROVE  /\ <<f>> \o s \in Seq(S) /\ Len(<<f>> \o s) = Len(s) + 1
         /\ (<<f>> \o s)[1] = f /\ \A k \in 1 .. Len(s) : (<<f>> \o s)[k + 1] = s[k]
  OBVIOUS

LEMMA Replaces ==
  ASSUME NEW S, NEW s \in Seq(S), s # <<>>, NEW f \in S
  PROVE  /\ <<f>> \o Tail(s) \in Seq(S) /\ Len(<<f>> \o Tail(s)) = Len(s)
         /\ (<<f>> \o Tail(s))[1] = f
         /\ \A k \in 2 .. Len(s) : (<<f>> \o Tail(s))[k] = s[k]
<1>1. Tail(s) \in Seq(S) /\ Len(Tail(s)) = Len(s) - 1 /\ Len(s) \in Nat /\ Len(s) > 0
  OBVIOUS
<1>2. \A k \in 1 .. Len(Tail(s)) : Tail(s)[k] = s[k + 1]
  BY <1>1
<1>3. \A k \in 1 .. Len(Tail(s)) : (<<f>> \o Tail(s))[k + 1] = Tail(s)[k]
  BY <1>1, Pushes
<1>4. ASSUME NEW k \in 2 .. Len(s) PROVE (<<f>> \o Tail(s))[k] = s[k]
  <2>1. k - 1 \in 1 .. Len(Tail(s)) /\ (k - 1) + 1 = k
    BY <1>1
  <2> QED
    BY <1>2, <1>3, <2>1
<1> QED
  BY <1>1, <1>4, Pushes

\* A group that the innermost activation has to do is not being worked on, unless
\* groups contain each other.
LEMMA NotAtWork ==
  ASSUME NEW M \in Databases, NEW L, NEW X, NEW s \in Seq(Frames), s # <<>>,
         StackOK(M, L, X, s), NEW g \in s[1].todo, AcyclicIn(M)
  PROVE  \A k \in 1 .. Len(s) : s[k].id # g
<1>1. Len(s) \in Nat /\ Len(s) > 0 /\ \A k \in 1 .. Len(s) : s[k] \in Frames
  OBVIOUS
<1>2. g \in Groups /\ g \in ReachIn(M, s[1].id) /\ s[1] \in Frames
  BY <1>1 DEF StackOK, FrameOK, Frames
<1> SUFFICES ASSUME NEW k \in 1 .. Len(s), s[k].id = g PROVE FALSE
  OBVIOUS
<1>3. CASE k = 1
  BY <1>2, <1>3 DEF AcyclicIn
<1>4. CASE k > 1
  <2>1. s[1].id \in Groups /\ s[1].id \in ReachIn(M, g)
    BY <1>1, <1>4 DEF StackOK
  <2>2. ReachIn(M, s[1].id) \subseteq ReachIn(M, g)
    BY <1>2, <2>1, ReachHolds DEF Ids
  <2> QED
    BY <1>2, <2>2 DEF AcyclicIn
<1> QED
  BY <1>1, <1>3, <1>4

\* The innermost activation takes the expansion of a group that is remembered.
LEMMA StackAbsorbs ==
  ASSUME NEW M \in Databases, NEW L, NEW X, NEW s \in Seq(Frames), s # <<>>,
         StackOK(M, L, X, s), MemoryOK(M, X, s), NEW g \in s[1].todo, X[g] # None
  PROVE  LET u == <<Absorb(s[1], g, X[g])>> \o Tail(s)
         IN  u \in Seq(Frames) /\ u # <<>> /\ StackOK(M, L, X, u) /\ MemoryOK(M, X, u)
<1> DEFINE f == Absorb(s[1], g, X[g])
           u == <<f>> \o Tail(s)
<1>1. Len(s) \in Nat /\ Len(s) > 0 /\ s[1] \in Frames /\ FrameOK(M, s[1])
  BY DEF StackOK
<1>2. g \in Groups
  BY <1>1 DEF Frames
<1>3. X[g] \subseteq ReachIn(M, g) /\ (AcyclicIn(M) => ReachIn(M, g) \subseteq X[g])
  BY <1>2, NotAtWork DEF MemoryOK
<1>4. f \in Frames /\ FrameOK(M, f)
  BY <1>1, <1>3, FrameAbsorbs
<1>5. f.id = s[1].id /\ f.todo \subseteq s[1].todo
  BY <1>1 DEF Absorb, Frames
<1> HIDE DEF f
<1>6. /\ u \in Seq(Frames) /\ Len(u) = Len(s) /\ u[1] = f
      /\ \A k \in 2 .. Len(s) : u[k] = s[k]
  BY <1>4, Replaces
<1> HIDE DEF u
<1>7. \A k \in 1 .. Len(s) : k = 1 \/ k \in 2 .. Len(s)
  BY <1>1
<1>8. \A k \in 1 .. Len(s) : u[k].id = s[k].id /\ u[k].todo \subseteq s[k].todo
  BY <1>5, <1>6, <1>7
<1>9. \A k \in 1 .. Len(s) : FrameOK(M, u[k])
  BY <1>4, <1>6, <1>7 DEF StackOK
<1>10. \A j, k \in 1 .. Len(s) : k = j + 1 => u[k].todo = s[k].todo
  BY <1>1, <1>6
<1>11. StackOK(M, L, X, u)
  BY <1>6, <1>8, <1>9, <1>10 DEF StackOK
<1>12. MemoryOK(M, X, u)
  BY <1>6, <1>8 DEF MemoryOK
<1>13. u # <<>>
  BY <1>1, <1>6
<1> QED
  BY <1>6, <1>11, <1>12, <1>13 DEF u, f

\* An activation for a group that is not remembered.
LEMMA StackGrows ==
  ASSUME NEW M \in Databases, NEW L, NEW X \in [Groups -> (SUBSET Ids) \cup {None}],
         NEW s \in Seq(Frames), s # <<>>,
         StackOK(M, L, X, s), MemoryOK(M, X, s),
         NEW g \in s[1].todo, X[g] = None, ListedIn(M, g) \cap Groups \subseteq L
  PROVE  LET u == <<New(M, g)>> \o s
             Y == [X EXCEPT ![g] = {}]
         IN  u \in Seq(Frames) /\ u # <<>> /\ StackOK(M, L, Y, u) /\ MemoryOK(M, Y, u)
<1> DEFINE f == New(M, g)
           u == <<f>> \o s
           Y == [X EXCEPT ![g] = {}]
<1>1. /\ Len(s) \in Nat /\ Len(s) > 0 /\ s[1] \in Frames /\ FrameOK(M, s[1])
      /\ \A k \in 1 .. Len(s) : s[k] \in Frames
  BY DEF StackOK
<1>2. g \in Groups /\ g \in Ids /\ g \in ReachIn(M, s[1].id)
  BY <1>1 DEF Frames, FrameOK, Ids
<1>3. f \in Frames /\ FrameOK(M, f) /\ f.id = g /\ f.todo \subseteq L
  BY <1>2, FrameBegins DEF New
<1>4. \A h \in Groups : Y[h] # None => h = g \/ X[h] # None
  OBVIOUS
<1>5. Y[g] = {} /\ {} # None /\ \A h \in Groups : h # g => Y[h] = X[h]
  BY <1>2 DEF None
<1> HIDE DEF f, Y
<1>6. /\ u \in Seq(Frames) /\ Len(u) = Len(s) + 1 /\ u[1] = f
      /\ \A k \in 1 .. Len(s) : u[k + 1] = s[k]
  BY <1>3, Pushes
<1> HIDE DEF u
<1>7. \A k \in 1 .. Len(u) : k = 1 \/ (k - 1 \in 1 .. Len(s) /\ u[k] = s[k - 1])
  <2> SUFFICES ASSUME NEW k \in 1 .. Len(u), k # 1
               PROVE  k - 1 \in 1 .. Len(s) /\ u[k] = s[k - 1]
    OBVIOUS
  <2>1. k - 1 \in 1 .. Len(s) /\ (k - 1) + 1 = k
    BY <1>1, <1>6
  <2> QED
    BY <1>6, <2>1
<1>8. \A k \in 1 .. Len(s) : s[k].id # g /\ g \in ReachIn(M, s[k].id)
  <2> SUFFICES ASSUME NEW k \in 1 .. Len(s) PROVE s[k].id # g /\ g \in ReachIn(M, s[k].id)
    OBVIOUS
  <2>1. s[k].id # g
    BY <1>2 DEF StackOK
  <2>2. k = 1 \/ (1 \in 1 .. Len(s) /\ 1 < k)
    BY <1>1
  <2>3. CASE k = 1
    BY <1>2, <2>1, <2>3
  <2>4. CASE 1 \in 1 .. Len(s) /\ 1 < k
    <3>1. s[1].id \in Groups /\ s[1].id \in ReachIn(M, s[k].id) /\ s[k].id \in Ids
      BY <1>1, <2>4 DEF StackOK, Frames
    <3> QED
      BY <1>2, <2>1, <3>1, ReachHolds
  <2> QED
    BY <2>2, <2>3, <2>4
<1>9. \A k \in 1 .. Len(u) :
        /\ FrameOK(M, u[k]) /\ u[k].todo \subseteq L
        /\ u[k].id \in Groups => Y[u[k].id] # None
  <2> SUFFICES ASSUME NEW k \in 1 .. Len(u)
               PROVE  /\ FrameOK(M, u[k]) /\ u[k].todo \subseteq L
                      /\ u[k].id \in Groups => Y[u[k].id] # None
    OBVIOUS
  <2>1. CASE k = 1
    BY <1>3, <1>5, <1>6, <2>1
  <2>2. CASE k # 1
    <3>1. k - 1 \in 1 .. Len(s) /\ u[k] = s[k - 1]
      BY <1>7, <2>2
    <3>2. /\ FrameOK(M, u[k]) /\ u[k].todo \subseteq L
          /\ u[k].id \in Groups => X[u[k].id] # None
      BY <3>1 DEF StackOK
    <3>3. u[k].id # g
      BY <1>8, <3>1
    <3> QED
      BY <1>5, <3>2, <3>3
  <2> QED
    BY <2>1, <2>2
<1>10. ASSUME NEW j \in 1 .. Len(u), NEW k \in 1 .. Len(u), k = j + 1
       PROVE  u[j].id \in u[k].todo
  <2>1. CASE j = 1
    BY <1>1, <1>3, <1>6, <1>10, <2>1
  <2>2. CASE j # 1
    <3>1. /\ j - 1 \in 1 .. Len(s) /\ k - 1 \in 1 .. Len(s) /\ k - 1 = (j - 1) + 1
          /\ u[j] = s[j - 1] /\ u[k] = s[k - 1]
      BY <1>7, <1>10, <2>2
    <3> QED
      BY <3>1 DEF StackOK
  <2> QED
    BY <2>1, <2>2
<1>11. ASSUME NEW j \in 1 .. Len(u), NEW k \in 1 .. Len(u), j < k
       PROVE  /\ u[j].id # u[k].id /\ u[j].id \in Groups
              /\ u[j].id \in ReachIn(M, u[k].id)
  <2>1. k - 1 \in 1 .. Len(s) /\ u[k] = s[k - 1]
    BY <1>7, <1>11
  <2>2. CASE j = 1
    BY <1>2, <1>3, <1>6, <1>8, <2>1, <2>2
  <2>3. CASE j # 1
    <3>1. j - 1 \in 1 .. Len(s) /\ u[j] = s[j - 1] /\ j - 1 < k - 1
      BY <1>1, <1>6, <1>7, <1>11, <2>3
    <3> QED
      BY <2>1, <3>1 DEF StackOK
  <2> QED
    BY <2>2, <2>3
<1>12. StackOK(M, L, Y, u)
  BY <1>9, <1>10, <1>11 DEF StackOK
<1>13. MemoryOK(M, Y, u)
  <2> SUFFICES ASSUME NEW h \in Groups, Y[h] # None
               PROVE  /\ Y[h] \subseteq ReachIn(M, h)
                      /\ AcyclicIn(M) /\ (\A k \in 1 .. Len(u) : u[k].id # h)
                           => ReachIn(M, h) \subseteq Y[h]
    BY DEF MemoryOK
  <2>1. CASE h = g
    <3>1. 1 \in 1 .. Len(u) /\ u[1].id = g
      BY <1>1, <1>3, <1>6
    <3> QED
      BY <1>5, <2>1, <3>1
  <2>2. CASE h # g
    <3>1. Y[h] = X[h]
      BY <1>5, <2>2
    <3>2. (\A k \in 1 .. Len(u) : u[k].id # h) => \A k \in 1 .. Len(s) : s[k].id # h
      BY <1>1, <1>6
    <3> QED
      BY <3>1, <3>2 DEF MemoryOK
  <2> QED
    BY <2>1, <2>2
<1>14. u # <<>>
  BY <1>1, <1>6
<1> QED
  BY <1>6, <1>12, <1>13, <1>14 DEF u, f, Y

\* The innermost activation has nothing left to do: what it holds is remembered,
\* and goes to the one below it.
LEMMA Remembers ==
  ASSUME NEW M \in Databases, NEW L, NEW X \in [Groups -> (SUBSET Ids) \cup {None}],
         NEW s \in Seq(Frames), s # <<>>,
         StackOK(M, L, X, s), MemoryOK(M, X, s), s[1].todo = {}
  PROVE  LET e == s[1].expansion
             Y == IF s[1].id \in Groups THEN [X EXCEPT ![s[1].id] = e] ELSE X
             u == <<Absorb(s[2], s[1].id, e)>> \o Tail(Tail(s))
         IN  /\ Y \in [Groups -> (SUBSET Ids) \cup {None}]
             /\ e \subseteq ReachIn(M, s[1].id) /\ e \subseteq Ids
             /\ AcyclicIn(M) => ReachIn(M, s[1].id) \subseteq e
             /\ Tail(s) = <<>> => MemoryOK(M, Y, Tail(s))
             /\ Tail(s) # <<>> => /\ u \in Seq(Frames) /\ u # <<>>
                                  /\ StackOK(M, L, Y, u) /\ MemoryOK(M, Y, u)
<1> DEFINE e == s[1].expansion
           Y == IF s[1].id \in Groups THEN [X EXCEPT ![s[1].id] = e] ELSE X
           r == Tail(s)
           f == Absorb(s[2], s[1].id, e)
           u == <<f>> \o Tail(r)
<1>1. /\ Len(s) \in Nat /\ Len(s) > 0 /\ 1 \in 1 .. Len(s) /\ s[1] \in Frames
      /\ \A k \in 1 .. Len(s) : s[k] \in Frames
  OBVIOUS
<1>2. e \subseteq Ids /\ s[1].id \in Ids
  BY <1>1 DEF Frames
<1>3. FrameOK(M, s[1])
  BY <1>1 DEF StackOK
<1>4. e \subseteq ReachIn(M, s[1].id) /\ (AcyclicIn(M) => ReachIn(M, s[1].id) \subseteq e)
  BY <1>3 DEF FrameOK
<1>5. Y \in [Groups -> (SUBSET Ids) \cup {None}]
  BY <1>2
<1>6. e # None
  BY <1>2, GroupExpandAssumption DEF None
<1>7. /\ \A h \in Groups : h # s[1].id => Y[h] = X[h]
      /\ s[1].id \in Groups => Y[s[1].id] = e
  OBVIOUS
<1>8. /\ r \in Seq(Frames) /\ Len(r) = Len(s) - 1
      /\ \A k \in 1 .. Len(r) : r[k] = s[k + 1]
  BY <1>1
<1> HIDE DEF Y, e, r
<1>9. ASSUME NEW v, \A k \in 2 .. Len(s) : \E j \in 1 .. Len(v) : v[j].id = s[k].id
      PROVE  MemoryOK(M, Y, v)
  <2> SUFFICES ASSUME NEW h \in Groups, Y[h] # None
               PROVE  /\ Y[h] \subseteq ReachIn(M, h)
                      /\ AcyclicIn(M) /\ (\A k \in 1 .. Len(v) : v[k].id # h)
                           => ReachIn(M, h) \subseteq Y[h]
    BY DEF MemoryOK
  <2>1. CASE h = s[1].id
    BY <1>4, <1>7, <2>1
  <2>2. CASE h # s[1].id
    <3>1. \A k \in 1 .. Len(s) : k = 1 \/ k \in 2 .. Len(s)
      BY <1>1
    <3>2. (\A k \in 1 .. Len(v) : v[k].id # h) => \A k \in 1 .. Len(s) : s[k].id # h
      BY <1>9, <2>2, <3>1
    <3>3. X[h] # None /\ Y[h] = X[h]
      BY <1>7, <2>2
    <3> QED
      BY <3>2, <3>3 DEF MemoryOK
  <2> QED
    BY <2>1, <2>2
<1>10. r = <<>> => MemoryOK(M, Y, r)
  <2> SUFFICES ASSUME r = <<>> PROVE MemoryOK(M, Y, r)
    OBVIOUS
  <2>1. Len(r) = 0
    OBVIOUS
  <2>2. Len(s) = 1
    BY <1>1, <1>8, <2>1
  <2>3. \A k \in 2 .. Len(s) : FALSE
    BY <2>2
  <2> QED
    BY <1>9, <2>3
<1>11. ASSUME r # <<>>
       PROVE  u \in Seq(Frames) /\ u # <<>> /\ StackOK(M, L, Y, u) /\ MemoryOK(M, Y, u)
  <2>1. Len(s) > 1 /\ Len(r) > 0 /\ 2 \in 1 .. Len(s) /\ r[1] = s[2]
    BY <1>1, <1>8, <1>11
  <2>2. /\ s[1].id \in s[2].todo /\ s[1].id \in Groups
        /\ FrameOK(M, s[2]) /\ s[2] \in Frames
    BY <1>1, <2>1 DEF StackOK
  <2>3. f \in Frames /\ FrameOK(M, f)
    BY <1>4, <2>2, FrameAbsorbs
  <2>4. f.id = s[2].id /\ f.todo \subseteq s[2].todo
    BY <2>2 DEF Absorb, Frames
  <2> HIDE DEF f
  <2>5. /\ u \in Seq(Frames) /\ Len(u) = Len(r) /\ u[1] = f
        /\ \A k \in 2 .. Len(r) : u[k] = r[k]
    BY <1>8, <1>11, <2>3, Replaces
  <2> HIDE DEF u
  <2>6. \A k \in 1 .. Len(u) :
          /\ k + 1 \in 1 .. Len(s)
          /\ \/ k = 1 /\ u[k] = f /\ s[k + 1] = s[2]
             \/ k # 1 /\ u[k] = s[k + 1]
    <3> SUFFICES ASSUME NEW k \in 1 .. Len(u)
                 PROVE  /\ k + 1 \in 1 .. Len(s)
                        /\ \/ k = 1 /\ u[k] = f /\ s[k + 1] = s[2]
                           \/ k # 1 /\ u[k] = s[k + 1]
      OBVIOUS
    <3>1. k + 1 \in 1 .. Len(s) /\ k \in 1 .. Len(r) /\ (k = 1 \/ k \in 2 .. Len(r))
      BY <1>1, <1>8, <2>5
    <3> QED
      BY <1>8, <2>5, <3>1
  <2>7. \A k \in 1 .. Len(u) :
          /\ FrameOK(M, u[k]) /\ u[k].id = s[k + 1].id /\ u[k].todo \subseteq s[k + 1].todo
          /\ k # 1 => u[k].todo = s[k + 1].todo
    BY <2>3, <2>4, <2>6 DEF StackOK
  <2>8. \A k \in 1 .. Len(u) : u[k].todo \subseteq L /\ (u[k].id \in Groups => Y[u[k].id] # None)
    <3> SUFFICES ASSUME NEW k \in 1 .. Len(u)
                 PROVE  u[k].todo \subseteq L /\ (u[k].id \in Groups => Y[u[k].id] # None)
      OBVIOUS
    <3>1. k + 1 \in 1 .. Len(s) /\ s[k + 1].todo \subseteq L
          /\ (s[k + 1].id \in Groups => X[s[k + 1].id] # None)
      BY <2>6 DEF StackOK
    <3> QED
      BY <1>6, <1>7, <2>7, <3>1
  <2>9. ASSUME NEW j \in 1 .. Len(u), NEW k \in 1 .. Len(u), k = j + 1
        PROVE  u[j].id \in u[k].todo
    <3>1. /\ j + 1 \in 1 .. Len(s) /\ k + 1 \in 1 .. Len(s) /\ k + 1 = (j + 1) + 1 /\ k # 1
      BY <2>6, <2>9
    <3>2. s[j + 1].id \in s[k + 1].todo
      BY <3>1 DEF StackOK
    <3> QED
      BY <2>7, <3>1, <3>2
  <2>10. ASSUME NEW j \in 1 .. Len(u), NEW k \in 1 .. Len(u), j < k
         PROVE  /\ u[j].id # u[k].id /\ u[j].id \in Groups
                /\ u[j].id \in ReachIn(M, u[k].id)
    <3>1. j + 1 \in 1 .. Len(s) /\ k + 1 \in 1 .. Len(s) /\ j + 1 < k + 1
      BY <2>6, <2>10
    <3>2. /\ s[j + 1].id # s[k + 1].id /\ s[j + 1].id \in Groups
          /\ s[j + 1].id \in ReachIn(M, s[k + 1].id)
      BY <3>1 DEF StackOK
    <3> QED
      BY <2>7, <3>2
  <2>11. StackOK(M, L, Y, u)
    BY <2>7, <2>8, <2>9, <2>10 DEF StackOK
  <2>12. ASSUME NEW k \in 2 .. Len(s) PROVE \E j \in 1 .. Len(u) : u[j].id = s[k].id
    <3>1. k - 1 \in 1 .. Len(u) /\ (k - 1) + 1 = k
      BY <1>1, <1>8, <2>5
    <3> QED
      BY <2>7, <3>1
  <2>13. MemoryOK(M, Y, u)
    BY <1>9, <2>12
  <2>14. u # <<>>
    BY <2>1, <2>5
  <2> QED
    BY <2>5, <2>11, <2>13, <2>14
<1> QED
  BY <1>2, <1>4, <1>5, <1>10, <1>11 DEF u, f, r, e, Y

-----------------------------------------------------------------------------
(* The invariant. *)

\* With no activation there is nothing to say of them.
LEMMA NoActivation ==
  ASSUME NEW M, NEW L, NEW X
  PROVE  StackOK(M, L, X, <<>>)
  BY DEF StackOK

LEMMA HeadIsFirst ==
  ASSUME NEW S, NEW s \in Seq(S), s # <<>>
  PROVE  /\ Head(s) = s[1] /\ s[1] \in S
         /\ Tail(s) \in Seq(S) /\ Len(Tail(s)) = Len(s) - 1
         /\ \A k \in 1 .. Len(Tail(s)) : Tail(s)[k] = s[k + 1]
  OBVIOUS

LEMMA ElementsAre ==
  ASSUME NEW S, NEW s \in Seq(S), NEW k \in 1 .. Len(s)
  PROVE  s[k] \in S
  OBVIOUS

\* A command starts in it.
LEMMA InvariantHolds == Init => IInv
<1> SUFFICES ASSUME Init PROVE IInv
  OBVIOUS
<1>1. TypeOK
  <2>1. /\ members \in [Groups -> SUBSET Ids] /\ denied \in DeniedSets /\ force \in BOOLEAN
        /\ pc = "look_up"
    BY DEF Init
  <2>2. names \in Seq(Ids) /\ requests \in Seq(Ids)
    BY GroupExpandAssumption DEF Init
  <2>3. stack \in Seq(Frames) /\ shown \in Seq([id : Ids, expansion : SUBSET Ids])
    BY DEF Init
  <2>4. loaded = {} /\ needing = {} /\ expanded \in [Groups -> (SUBSET Ids) \cup {None}]
    BY DEF Init
  <2> QED
    BY <2>1, <2>2, <2>3, <2>4 DEF TypeOK
<1>2. LoadedOK /\ MemoryOK(members, expanded, stack) /\ ShownOK(members, shown)
  BY DEF Init, LoadedOK, MemoryOK, ShownOK
<1> QED
  BY <1>1, <1>2, NoActivation DEF Init, IInv

\* Looking up loads groups, with no activation yet.
LEMMA LookingUpKeeps ==
  ASSUME IInv, LookUp \/ LookUpDone
  PROVE  IInv'
<1>1. pc = "look_up" /\ stack = <<>>
  BY DEF IInv, LookUp, LookUpDone
<1>2. /\ UNCHANGED <<members, denied, force, expanded, stack, shown>>
      /\ pc' = pc \/ pc' = "load"
  BY DEF LookUp, LookUpDone, dbVars
<1>3. TypeOK /\ members \in Databases
  BY DEF IInv, TypeOK, Databases
<1>4. /\ names' \in Seq(Ids) /\ requests' \in Seq(Ids)
      /\ loaded' \subseteq Groups \ denied /\ needing' \subseteq Groups
      /\ LoadedOK'
  <2>1. CASE LookUp
    <3> DEFINE id == Head(names)
    <3>1. /\ names # <<>> /\ pc' = "look_up" /\ needing' = needing
      BY <1>1, <2>1 DEF LookUp
    <3>2. names \in Seq(Ids) /\ requests \in Seq(Ids) /\ loaded \subseteq Groups \ denied
      BY <1>3 DEF TypeOK
    <3>3. id \in Ids /\ Tail(names) \in Seq(Ids)
      BY <3>1, <3>2, HeadIsFirst
    <3>4. Wanted(id) = WantedIn(members, id) /\ Wanted(id) \subseteq Groups
      BY <3>3, SameOperators DEF WantedIn
    <3> HIDE DEF id
    <3>5. names' \in Seq(Ids)
      <4>1. names' = Tail(names) \/ names' = <<>>
        BY <2>1 DEF LookUp
      <4>2. <<>> \in Seq(Ids)
        OBVIOUS
      <4> QED
        BY <3>3, <4>1, <4>2
    <3>6. CASE requests' = requests /\ loaded \subseteq loaded' /\ loaded' \subseteq Groups \ denied
      BY <1>1, <1>2, <1>3, <3>1, <3>2, <3>5, <3>6 DEF IInv, TypeOK, LoadedOK
    <3>7. CASE /\ requests' = Append(requests, id) /\ loaded' = loaded \cup Wanted(id)
               /\ ({id} \cup Wanted(id)) \cap denied = {}
      <4>1. loaded' \subseteq Groups \ denied
        BY <3>2, <3>4, <3>7
      <4>2. requests' \in Seq(Ids) /\ Len(requests') = Len(requests) + 1 /\ Len(requests) \in Nat
            /\ \A k \in 1 .. Len(requests') :
                 IF k = Len(requests') THEN requests'[k] = id
                 ELSE k \in 1 .. Len(requests) /\ requests'[k] = requests[k]
        BY <3>2, <3>3, <3>7
      <4>3. ASSUME NEW k \in 1 .. Len(requests')
            PROVE  WantedIn(members, requests'[k]) \subseteq loaded'
        BY <3>4, <3>7, <4>2 DEF IInv, LoadedOK
      <4>4. LoadedOK'
        BY <1>2, <3>1, <4>3 DEF LoadedOK
      <4> QED
        BY <1>3, <3>1, <3>5, <4>1, <4>2, <4>4 DEF TypeOK
    <3>8. \/ requests' = requests /\ loaded \subseteq loaded' /\ loaded' \subseteq Groups \ denied
          \/ /\ requests' = Append(requests, id) /\ loaded' = loaded \cup Wanted(id)
             /\ ({id} \cup Wanted(id)) \cap denied = {}
      BY <2>1, <3>2, <3>4 DEF LookUp, id
    <3> QED
      BY <3>6, <3>7, <3>8
  <2>2. CASE LookUpDone
    BY <1>3, <2>2 DEF LookUpDone, dbVars, IInv, TypeOK, LoadedOK
  <2> QED
    BY <2>1, <2>2
<1>5. TypeOK'
  BY <1>2, <1>3, <1>4 DEF TypeOK
<1>6. StackOK(members', loaded', expanded', stack')
  BY <1>1, <1>2, NoActivation
<1> QED
  BY <1>1, <1>2, <1>4, <1>5, <1>6 DEF IInv

\* So does loading what is in them.
LEMMA LoadingKeeps ==
  ASSUME IInv, LoadDone \/ \E gid \in Groups : LoadGroup(gid)
  PROVE  IInv'
<1>1. pc = "load" /\ stack = <<>>
  BY DEF IInv, LoadDone, LoadGroup
<1>2. /\ UNCHANGED <<members, denied, force, names, requests, expanded, stack, shown>>
      /\ pc' \in {"load", "display", "raised"}
  BY <1>1 DEF LoadDone, LoadGroup, dbVars
<1>3. TypeOK /\ LoadedOK
  BY DEF IInv
<1>4. loaded \subseteq loaded' /\ loaded' \subseteq Groups \ denied /\ needing' \subseteq Groups
  <2>1. CASE LoadDone
    BY <1>3, <2>1 DEF LoadDone, TypeOK
  <2>2. CASE \E gid \in Groups : LoadGroup(gid)
    BY <1>3, <2>2 DEF LoadGroup, NewGroups, TypeOK
  <2> QED
    BY <2>1, <2>2
<1>5. /\ pc' = "load" => \A g \in loaded' \ needing' : members[g] \cap Groups \subseteq loaded' \cup needing'
      /\ pc' = "display" => \A g \in loaded' : members[g] \cap Groups \subseteq loaded'
  <2>1. CASE LoadDone
    BY <1>1, <1>3, <2>1 DEF LoadDone, LoadedOK
  <2>2. CASE \E gid \in Groups : LoadGroup(gid)
    <3>1. PICK gid \in Groups : LoadGroup(gid)
      BY <2>2
    <3>2. CASE pc' = "raised"
      BY <3>2
    <3>3. CASE pc' # "raised"
      <4>1. /\ loaded' = loaded \cup {gid} /\ pc' = "load"
            /\ needing' = (needing \ {gid}) \cup {m \in members[gid] \cap Groups : m \notin loaded'}
        BY <1>1, <3>1, <3>3 DEF LoadGroup, NewGroups
      <4> QED
        BY <1>1, <1>3, <4>1 DEF LoadedOK
    <3> QED
      BY <3>2, <3>3
  <2> QED
    BY <2>1, <2>2
<1>6. LoadedOK'
  BY <1>2, <1>3, <1>4, <1>5 DEF LoadedOK
<1>7. TypeOK'
  BY <1>2, <1>3, <1>4 DEF TypeOK
<1>8. StackOK(members', loaded', expanded', stack')
  BY <1>1, <1>2, NoActivation
<1> QED
  BY <1>1, <1>2, <1>6, <1>7, <1>8 DEF IInv

\* A request is displayed: the outermost activation.
LEMMA DisplayingKeeps ==
  ASSUME IInv, DisplayNext \/ DisplayDone
  PROVE  IInv'
<1>1. pc = "display" /\ stack = <<>>
  BY DEF IInv, DisplayNext, DisplayDone
<1>2. UNCHANGED <<members, denied, force, names, requests, loaded, needing, shown>>
  BY DEF DisplayNext, DisplayDone, dbVars
<1>3. TypeOK /\ LoadedOK /\ members \in Databases
  BY DEF IInv, TypeOK, Databases
<1>4. CASE DisplayDone
  <2>1. UNCHANGED <<expanded, stack>> /\ pc' = "done"
    BY <1>4 DEF DisplayDone
  <2>2. TypeOK' /\ LoadedOK'
    BY <1>2, <1>3, <2>1 DEF TypeOK, LoadedOK
  <2> QED
    BY <1>1, <1>2, <2>1, <2>2 DEF IInv
<1>5. CASE DisplayNext
  <2> DEFINE id == Head(requests)
  <2>1. requests # <<>> /\ pc' = "expand"
    BY <1>5 DEF DisplayNext
  <2>2. id \in Ids /\ id = requests[1] /\ 1 \in 1 .. Len(requests)
    BY <1>3, <2>1, HeadIsFirst DEF TypeOK
  <2>3. Listed(id) = ListedIn(members, id) /\ WantedIn(members, id) \subseteq loaded
    BY <1>3, <2>2, SameOperators DEF LoadedOK
  <2>4. ListedIn(members, id) \cap Groups \subseteq loaded
    <3>1. CASE id \in Groups
      BY <1>1, <1>3, <2>3, <3>1 DEF WantedIn, ListedIn, LoadedOK
    <3>2. CASE id \notin Groups
      BY <2>3, <3>2 DEF WantedIn, ListedIn
    <3> QED
      BY <3>1, <3>2
  <2> HIDE DEF id
  <2>5. LoadedOK'
    BY <1>1, <1>2, <1>3, <2>1 DEF LoadedOK
  <2>6. \A s, f : s = <<f>> => Len(s) = 1 /\ s[1] = f
    OBVIOUS
  <2>7. expanded \in [Groups -> (SUBSET Ids) \cup {None}]
    BY <1>3 DEF TypeOK
  <2>8. MemoryOK(members, expanded, <<>>)
    BY <1>1 DEF IInv
  <2>9. /\ expanded' \in [Groups -> (SUBSET Ids) \cup {None}]
        /\ \E f \in Frames :
             /\ stack' = <<f>> /\ f.id = id /\ FrameOK(members, f) /\ f.todo \subseteq loaded
             /\ id \in Groups => expanded'[id] # None
        /\ \A g \in Groups : expanded'[g] # expanded[g] => g = id /\ expanded'[g] = {}
    <3>1. CASE id \in Groups /\ expanded[id] # None
      <4> DEFINE f == [id |-> id, expansion |-> expanded[id], todo |-> {}]
      <4>1. stack' = <<f>> /\ expanded' = expanded
        BY <1>5, <3>1 DEF DisplayNext, id
      <4>2. f \in Frames
        <5>1. expanded[id] \in SUBSET Ids
          BY <2>7, <3>1
        <5> QED
          BY <2>2, <5>1 DEF Frames
      <4>3. FrameOK(members, f)
        <5>1. Len(<<>>) = 0
          OBVIOUS
        <5> QED
          BY <2>8, <3>1, <5>1 DEF FrameOK, MemoryOK
      <4>4. f.id = id /\ f.todo \subseteq loaded
        OBVIOUS
      <4> HIDE DEF f
      <4> QED
        BY <2>7, <3>1, <4>1, <4>2, <4>3, <4>4
    <3>2. CASE ~(id \in Groups /\ expanded[id] # None)
      <4> DEFINE f == New(members, id)
      <4>1. /\ stack' = <<f>>
            /\ expanded' = IF id \in Groups THEN [expanded EXCEPT ![id] = {}] ELSE expanded
        BY <1>5, <2>3, <3>2 DEF DisplayNext, New, id
      <4>2. f \in Frames /\ FrameOK(members, f)
        BY <1>3, <2>2, FrameBegins
      <4>3. f.id = id /\ f.todo \subseteq loaded
        BY <2>4 DEF New
      <4>4. {} # None
        BY DEF None
      <4> HIDE DEF f
      <4>5. /\ expanded' \in [Groups -> (SUBSET Ids) \cup {None}]
            /\ id \in Groups => expanded'[id] # None
            /\ \A g \in Groups : expanded'[g] # expanded[g] => g = id /\ expanded'[g] = {}
        BY <2>7, <4>1, <4>4
      <4> QED
        BY <4>1, <4>2, <4>3, <4>5
    <3> QED
      BY <3>1, <3>2
  <2>10. PICK f \in Frames :
           /\ stack' = <<f>> /\ f.id = id /\ FrameOK(members, f) /\ f.todo \subseteq loaded
           /\ id \in Groups => expanded'[id] # None
    BY <2>9
  <2>11. Len(stack') = 1 /\ stack'[1] = f /\ stack' \in Seq(Frames) /\ stack' # <<>>
    BY <2>6, <2>10
  <2>12. StackOK(members', loaded', expanded', stack')
    <3>1. \A k \in 1 .. Len(stack') : k = 1
      BY <2>11
    <3> QED
      BY <1>2, <2>10, <2>11, <3>1 DEF StackOK
  <2>13. MemoryOK(members', expanded', stack')
    <3>1. 1 \in 1 .. Len(stack') /\ stack'[1].id = id /\ Len(<<>>) = 0
      BY <2>10, <2>11
    <3> QED
      BY <1>2, <2>8, <2>9, <3>1 DEF MemoryOK
  <2>14. TypeOK'
    BY <1>2, <1>3, <2>1, <2>9, <2>11 DEF TypeOK
  <2> QED
    BY <1>2, <2>1, <2>5, <2>11, <2>12, <2>13, <2>14 DEF IInv
<1> QED
  BY <1>4, <1>5

\* expand() of a group in the group.
LEMMA ExpandingKeeps ==
  ASSUME IInv, NEW gid \in Groups, ExpandKnown(gid) \/ ExpandNew(gid)
  PROVE  IInv' /\ loaded' = loaded
<1>1. /\ pc = "expand" /\ stack # <<>> /\ gid \in Head(stack).todo
      /\ UNCHANGED <<members, denied, force, pc, names, requests, needing, shown>>
      /\ loaded' = loaded \cup {gid}
  BY DEF IInv, ExpandKnown, ExpandNew, dbVars
<1>2. TypeOK /\ LoadedOK /\ members \in Databases /\ stack \in Seq(Frames)
      /\ expanded \in [Groups -> (SUBSET Ids) \cup {None}]
  BY DEF IInv, TypeOK, Databases
<1>3. Head(stack) = stack[1] /\ 1 \in 1 .. Len(stack)
  BY <1>1, <1>2, HeadIsFirst
<1>4. StackOK(members, loaded, expanded, stack) /\ MemoryOK(members, expanded, stack)
  BY DEF IInv
<1>5. gid \in loaded /\ loaded' = loaded
  BY <1>1, <1>3, <1>4 DEF StackOK
<1>6. ListedIn(members, gid) = members[gid] /\ members[gid] \cap Groups \subseteq loaded
  BY <1>1, <1>2, <1>5 DEF ListedIn, LoadedOK
<1>7. /\ expanded' \in [Groups -> (SUBSET Ids) \cup {None}]
      /\ stack' \in Seq(Frames) /\ stack' # <<>>
      /\ StackOK(members, loaded, expanded', stack') /\ MemoryOK(members, expanded', stack')
  <2>1. CASE ExpandKnown(gid)
    <3>1. /\ expanded' = expanded /\ expanded[gid] # None
          /\ stack' = <<Absorb(stack[1], gid, expanded[gid])>> \o Tail(stack)
      BY <1>3, <2>1 DEF ExpandKnown, Known, Absorb
    <3> QED
      BY <1>1, <1>2, <1>3, <1>4, <3>1, StackAbsorbs
  <2>2. CASE ExpandNew(gid)
    <3>1. /\ expanded' = [expanded EXCEPT ![gid] = {}] /\ expanded[gid] = None
          /\ stack' = <<New(members, gid)>> \o stack
      BY <1>6, <2>2 DEF ExpandNew, Known, Expansion, Subgroups, New
    <3>2. [expanded EXCEPT ![gid] = {}] \in [Groups -> (SUBSET Ids) \cup {None}]
      BY <1>2
    <3> QED
      BY <1>1, <1>2, <1>3, <1>4, <1>6, <3>1, <3>2, StackGrows
  <2> QED
    BY <1>1, <2>1, <2>2
<1>8. TypeOK'
  BY <1>1, <1>2, <1>5, <1>7 DEF TypeOK
<1>9. LoadedOK'
  BY <1>1, <1>2, <1>5 DEF LoadedOK
<1> QED
  BY <1>1, <1>5, <1>7, <1>8, <1>9 DEF IInv

\* An activation ends.
LEMMA ReturningKeeps ==
  ASSUME IInv, Return
  PROVE  IInv'
<1> DEFINE top == stack[1]
<1>1. /\ pc = "expand" /\ stack # <<>> /\ requests # <<>>
      /\ UNCHANGED <<members, denied, force, names, loaded, needing>>
  BY DEF IInv, Return, dbVars
<1>2. TypeOK /\ LoadedOK /\ members \in Databases /\ stack \in Seq(Frames)
      /\ expanded \in [Groups -> (SUBSET Ids) \cup {None}]
      /\ shown \in Seq([id : Ids, expansion : SUBSET Ids]) /\ requests \in Seq(Ids)
  BY DEF IInv, TypeOK, Databases
<1>3. /\ Head(stack) = top /\ top \in Frames /\ Tail(stack) \in Seq(Frames)
      /\ top.id \in Ids /\ top.todo = {}
  <2>1. Head(stack) = top /\ top \in Frames /\ Tail(stack) \in Seq(Frames)
    BY <1>1, <1>2, HeadIsFirst
  <2>2. top.todo = {}
    BY <2>1 DEF Return
  <2> HIDE DEF top
  <2> QED
    BY <2>1, <2>2 DEF Frames
<1>4. StackOK(members, loaded, expanded, stack) /\ MemoryOK(members, expanded, stack)
  BY DEF IInv
<1>5. expanded' = IF top.id \in Groups THEN [expanded EXCEPT ![top.id] = top.expansion] ELSE expanded
  BY <1>3 DEF Return
<1>6. /\ expanded' \in [Groups -> (SUBSET Ids) \cup {None}]
      /\ top.expansion \subseteq ReachIn(members, top.id) /\ top.expansion \subseteq Ids
      /\ AcyclicIn(members) => ReachIn(members, top.id) \subseteq top.expansion
      /\ Tail(stack) = <<>> => MemoryOK(members, expanded', Tail(stack))
  BY <1>1, <1>2, <1>3, <1>4, <1>5, Remembers
<1>7. CASE Tail(stack) = <<>>
  <2> DEFINE e == [id |-> top.id, expansion |-> top.expansion]
  <2>1. /\ stack' = <<>> /\ shown' = Append(shown, e)
        /\ requests' = Tail(requests) /\ pc' = "display"
    BY <1>3, <1>7 DEF Return
  <2>2. e \in [id : Ids, expansion : SUBSET Ids]
    BY <1>3, <1>6
  <2>3. e.id = top.id /\ e.expansion = top.expansion
    OBVIOUS
  <2> HIDE DEF e
  <2>4. /\ shown' \in Seq([id : Ids, expansion : SUBSET Ids])
        /\ Len(shown') = Len(shown) + 1 /\ Len(shown) \in Nat
        /\ \A k \in 1 .. Len(shown') :
             IF k = Len(shown') THEN shown'[k] = e
             ELSE k \in 1 .. Len(shown) /\ shown'[k] = shown[k]
    BY <1>2, <2>1, <2>2
  <2>5. ShownOK(members', shown')
    <3> SUFFICES ASSUME NEW k \in 1 .. Len(shown')
                 PROVE  /\ shown'[k].expansion \subseteq ReachIn(members, shown'[k].id)
                        /\ AcyclicIn(members) =>
                             ReachIn(members, shown'[k].id) \subseteq shown'[k].expansion
      BY <1>1 DEF ShownOK
    <3>1. ShownOK(members, shown)
      BY DEF IInv
    <3> QED
      BY <1>6, <2>3, <2>4, <3>1 DEF ShownOK
  <2>6. /\ requests' \in Seq(Ids) /\ Len(requests') = Len(requests) - 1
        /\ \A k \in 1 .. Len(requests') : k + 1 \in 1 .. Len(requests) /\ requests'[k] = requests[k + 1]
    BY <1>1, <1>2, <2>1
  <2>7. LoadedOK'
    BY <1>1, <1>2, <2>1, <2>6 DEF LoadedOK
  <2>8. StackOK(members', loaded', expanded', stack')
    BY <2>1, NoActivation
  <2>9. MemoryOK(members', expanded', stack')
    BY <1>1, <1>6, <1>7, <2>1
  <2>10. stack' \in Seq(Frames)
    BY <1>3, <1>7, <2>1
  <2>11. TypeOK'
    BY <1>1, <1>2, <1>6, <2>1, <2>4, <2>6, <2>10 DEF TypeOK
  <2> QED
    BY <2>1, <2>5, <2>7, <2>8, <2>9, <2>11 DEF IInv
<1>8. CASE Tail(stack) # <<>>
  <2>1. /\ Head(Tail(stack)) = Tail(stack)[1] /\ Tail(stack)[1] = stack[2]
    BY <1>1, <1>2, <1>3, <1>8
  <2>2. /\ stack' = <<Absorb(stack[2], top.id, top.expansion)>> \o Tail(Tail(stack))
        /\ UNCHANGED <<shown, requests, pc>>
    BY <1>3, <1>8, <2>1 DEF Return, Absorb
  <2>3. /\ stack' \in Seq(Frames) /\ stack' # <<>>
        /\ StackOK(members, loaded, expanded', stack') /\ MemoryOK(members, expanded', stack')
    BY <1>1, <1>2, <1>3, <1>4, <1>5, <1>8, <2>2, Remembers
  <2>4. TypeOK'
    BY <1>1, <1>2, <1>6, <2>2, <2>3 DEF TypeOK
  <2>5. LoadedOK'
    BY <1>1, <1>2, <2>2 DEF LoadedOK
  <2> QED
    BY <1>1, <2>2, <2>3, <2>4, <2>5 DEF IInv
<1> QED
  BY <1>7, <1>8

\* Every step keeps it, and an expansion loads nothing.
LEMMA InvariantKept ==
  ASSUME IInv, [Next]_vars
  PROVE  IInv' /\ (pc = "expand" => loaded' = loaded)
<1>1. CASE LookUp \/ LookUpDone
  BY <1>1, LookingUpKeeps DEF LookUp, LookUpDone
<1>2. CASE LoadDone \/ \E gid \in Groups : LoadGroup(gid)
  BY <1>2, LoadingKeeps DEF LoadDone, LoadGroup
<1>3. CASE DisplayNext \/ DisplayDone
  BY <1>3, DisplayingKeeps DEF DisplayNext, DisplayDone
<1>4. CASE \E gid \in Groups : ExpandKnown(gid) \/ ExpandNew(gid)
  BY <1>4, ExpandingKeeps
<1>5. CASE Return
  BY <1>5, ReturningKeeps DEF Return
<1>6. CASE UNCHANGED vars
  BY <1>6 DEF IInv, TypeOK, LoadedOK, vars, dbVars
<1> QED
  BY <1>1, <1>2, <1>3, <1>4, <1>5, <1>6 DEF Next

\* It holds throughout.
THEOREM Invariance == Spec => []IInv
<1>1. IInv /\ [Next]_vars => IInv'
  BY InvariantKept
<1> QED
  BY <1>1, InvariantHolds, PTL DEF Spec

-----------------------------------------------------------------------------
(* What follows from it. *)

\* The variables keep to their types: in particular no group is loaded that the
\* server will not list.
THEOREM TypeCorrect == Spec => []TypeOK
<1>1. IInv => TypeOK
  BY DEF IInv
<1> QED
  BY <1>1, Invariance, PTL

\* Nobody is shown to be in a group who is not, even if groups contain each other.
THEOREM ShowsNothingElse == Spec => []NeverTooMuch
<1>1. IInv => NeverTooMuch
  <2> SUFFICES ASSUME IInv PROVE NeverTooMuch
    OBVIOUS
  <2>1. shown \in Seq([id : Ids, expansion : SUBSET Ids])
    BY DEF IInv, TypeOK
  <2>2. ASSUME NEW k \in DOMAIN shown, shown[k].id \in Groups
        PROVE  Displayed(k) \subseteq Reach(shown[k].id)
    <3>1. k \in 1 .. Len(shown)
      BY <2>1, <2>2
    <3> QED
      BY <2>2, <3>1, SameOperators DEF IInv, ShownOK, Displayed
  <2>3. ASSUME NEW g \in Groups, expanded[g] # None PROVE expanded[g] \subseteq Reach(g)
    BY <2>3, SameOperators DEF IInv, MemoryOK, Ids
  <2> QED
    BY <2>2, <2>3 DEF NeverTooMuch
<1> QED
  BY <1>1, Invariance, PTL

\* If groups do not contain each other every user in a group is shown.
THEOREM ShowsEverything == Spec => []AcyclicIsComplete
<1>1. IInv => AcyclicIsComplete
  <2> SUFFICES ASSUME IInv, Acyclic, NEW k \in DOMAIN shown, shown[k].id \in Groups
               PROVE  Reach(shown[k].id) \cap Users \subseteq Displayed(k)
    BY DEF AcyclicIsComplete
  <2>1. shown \in Seq([id : Ids, expansion : SUBSET Ids])
    BY DEF IInv, TypeOK
  <2>2. k \in 1 .. Len(shown)
    BY <2>1
  <2> QED
    BY <2>2, SameOperators DEF IInv, ShownOK, Displayed
<1> QED
  BY <1>1, Invariance, PTL

\* expand() is never entered for a group it is working on.
THEOREM NeverReentered == Spec => []NoReentry
<1>1. IInv => NoReentry
  <2> SUFFICES ASSUME IInv, NEW j \in DOMAIN stack, NEW k \in DOMAIN stack,
                      stack[j].id = stack[k].id, j # k
               PROVE  FALSE
    BY DEF NoReentry
  <2>1. j \in 1 .. Len(stack) /\ k \in 1 .. Len(stack) /\ (j < k \/ k < j)
    BY DEF IInv, TypeOK
  <2> QED
    BY <2>1 DEF IInv, StackOK
<1> QED
  BY <1>1, Invariance, PTL

\* Once something is shown nothing more is asked of the server.
THEOREM LoadsBeforeShowing == Spec => ShowsWithoutServer
<1>1. IInv /\ [Next]_vars => [pc = "expand" => loaded' = loaded]_vars
  BY InvariantKept
<1> QED
  BY <1>1, Invariance, PTL DEF Spec, ShowsWithoutServer
=============================================================================
