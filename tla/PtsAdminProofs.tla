--------------------------- MODULE PtsAdminProofs ---------------------------
(***************************************************************************)
(* What holds of a `pts` command for every database, every command line,   *)
(* any number of servers and whatever other administrators do: it acts on  *)
(* the entry it was told to act on, the two directions of its cache agree, *)
(* and its exit code tells the truth.                                      *)
(***************************************************************************)
EXTENDS PtsAdmin, TLAPS

-----------------------------------------------------------------------------
(* The cache speaks of entries that have existed. *)

\* The inductive invariant: ActsOnNamed holds because whatever is in the database
\* is remembered as having been, and the cache takes what it has from there.
KInv ==
  /\ entries \in [Names -> Ids \cup {None}]
  /\ name2id \in [Names -> Ids \cup {None, Absent}]
  /\ id2name \in [Ids -> Names \cup {None, Absent}]
  /\ Pairs \subseteq named
  /\ ActsOnNamed

\* None and Absent are neither names nor IDs.
LEMMA Apart ==
  /\ None # Absent /\ None \notin Names /\ None \notin Ids
  /\ Absent \notin Names /\ Absent \notin Ids
  /\ Names \cap Ids = {}
  BY PtsAssumption

\* The name of an ID is the one the database has for it.
LEMMA NameOfIs ==
  ASSUME NEW u \in Ids
  PROVE  /\ NameOf(u) \in Names \cup {None}
         /\ NameOf(u) \in Names => entries[NameOf(u)] = u
<1>1. CASE \E n \in Names : entries[n] = u
  BY <1>1 DEF NameOf
<1>2. CASE ~\E n \in Names : entries[n] = u
  BY <1>2, Apart DEF NameOf
<1> QED
  BY <1>1, <1>2

\* A look-up brings what is in the database.
LEMMA LookUpKeeps ==
  ASSUME KInv, LookUpNames \/ LookUpIds
  PROVE  KInv'
<1>1. UNCHANGED <<entries, named, acted>>
  BY DEF LookUpNames, LookUpIds, database, history
<1>2. /\ name2id' \in [Names -> Ids \cup {None, Absent}]
      /\ \A n \in Names : name2id'[n] = name2id[n] \/ name2id'[n] = entries[n]
  <2>1. CASE LookUpNames
    <3>1. PICK batch : name2id' = [n \in Names |-> IF n \in batch THEN entries[n] ELSE name2id[n]]
      BY <2>1 DEF LookUpNames, Reply
    <3> QED
      BY <3>1 DEF KInv
  <2>2. CASE LookUpIds
    <3>1. PICK found : name2id' = [n \in Names |-> IF n \in found THEN entries[n] ELSE name2id[n]]
      BY <2>2 DEF LookUpIds
    <3> QED
      BY <3>1 DEF KInv
  <2> QED
    BY <2>1, <2>2
<1>3. /\ id2name' \in [Ids -> Names \cup {None, Absent}]
      /\ \A u \in Ids : id2name'[u] = id2name[u] \/ id2name'[u] = NameOf(u)
  <2>1. PICK batch : id2name' = [u \in Ids |-> IF u \in batch THEN NameOf(u) ELSE id2name[u]]
    BY DEF LookUpNames, LookUpIds
  <2> QED
    BY <2>1, NameOfIs DEF KInv
<1>4. \A n \in Names : name2id'[n] \in Ids => <<n, name2id'[n]>> \in named
  BY <1>2 DEF KInv, ActsOnNamed, Pairs
<1>5. \A u \in Ids : id2name'[u] \in Names => <<id2name'[u], u>> \in named
  <2> SUFFICES ASSUME NEW u \in Ids, id2name'[u] \in Names PROVE <<id2name'[u], u>> \in named
    OBVIOUS
  <2>1. CASE id2name'[u] = id2name[u]
    BY <2>1 DEF KInv, ActsOnNamed
  <2>2. CASE id2name'[u] = NameOf(u)
    BY <2>2, NameOfIs DEF KInv, Pairs
  <2> QED
    BY <1>3, <2>1, <2>2
<1> QED
  BY <1>1, <1>2, <1>3, <1>4, <1>5 DEF KInv, ActsOnNamed, Pairs

\* What exists has an ID.
LEMMA ExistingIds ==
  ASSUME KInv, NEW u, Exists(u)
  PROVE  u \in Ids \cup {None}
<1>1. \E n \in Names : entries[n] = u
  BY DEF Exists, NameOf
<1> QED
  BY <1>1 DEF KInv

\* The servers keep the database one: every name has an ID or none.
LEMMA ServedKeepsNames ==
  ASSUME KInv, NEW id \in Ids, NEW answer, Served(answer, id)
  PROVE  entries' \in [Names -> Ids \cup {None}]
<1>1. ASSUME NEW n, NEW u \in Ids \cup {None}, Bind(n, u)
      PROVE  entries' \in [Names -> Ids \cup {None}]
  BY <1>1 DEF Bind, KInv
<1>2. ASSUME NEW u, Unbind(u) PROVE entries' \in [Names -> Ids \cup {None}]
  BY <1>2 DEF Unbind, KInv
<1>3. CASE UNCHANGED entries
  BY <1>3 DEF KInv
<1>4. CASE request.command = "adduser" /\ PR_AddToGroup(IdOf(item.who), IdOf(item.whom), answer)
  BY <1>3, <1>4 DEF PR_AddToGroup, database
<1>5. CASE request.command = "removeuser" /\ PR_RemoveFromGroup(IdOf(item.who), IdOf(item.whom), answer)
  BY <1>3, <1>5 DEF PR_RemoveFromGroup, database
<1>6. CASE PR_NewEntry(item.new_name, id, answer) \/ PR_INewEntry(item.new_name, id, answer)
  BY <1>1, <1>3, <1>6 DEF PR_NewEntry, PR_INewEntry, database
<1>7. CASE PR_ChangeEntry(IdOf(item.who), item.new_name, answer)
  BY <1>1, <1>3, <1>7, ExistingIds DEF PR_ChangeEntry, database
<1>8. CASE PR_Delete(IdOf(item.who), answer)
  BY <1>2, <1>3, <1>8 DEF PR_Delete, database
<1>9. CASE PR_ListEntry(IdOf(item.who), answer)
  BY <1>3, <1>9 DEF PR_ListEntry, database
<1> QED
  BY <1>3, <1>4, <1>5, <1>6, <1>7, <1>8, <1>9 DEF Served, database

\* An eviction forgets, and changes nothing else.
MapsRecords == [name2id : [Names -> Ids \cup {None, Absent}],
                id2name : [Ids -> Names \cup {None, Absent}], error : BOOLEAN]

Forgets(m, r) ==
  /\ r \in MapsRecords
  /\ \A n \in Names : r.name2id[n] = m.name2id[n] \/ r.name2id[n] = Absent
  /\ \A u \in Ids : r.id2name[u] = m.id2name[u] \/ r.id2name[u] = Absent

LEMMA EvictIdForgets ==
  ASSUME NEW m \in MapsRecords, NEW u
  PROVE  Forgets(m, EvictId(m, u))
<1> DEFINE n == m.id2name[u]
           N == IF n = None THEN m.name2id ELSE [m.name2id EXCEPT ![n] = Absent]
           I == [m.id2name EXCEPT ![u] = Absent]
           E == m.error \/ (n # None /\ m.name2id[n] = Absent)
<1>1. CASE m.id2name[u] = Absent
  BY <1>1 DEF EvictId, Forgets
<1>2. CASE m.id2name[u] # Absent
  <2>1. /\ m.name2id \in [Names -> Ids \cup {None, Absent}]
        /\ m.id2name \in [Ids -> Names \cup {None, Absent}] /\ m.error \in BOOLEAN
    BY DEF MapsRecords
  <2>2. /\ N \in [Names -> Ids \cup {None, Absent}]
        /\ \A k \in Names : N[k] = m.name2id[k] \/ N[k] = Absent
    BY <2>1
  <2>3. /\ I \in [Ids -> Names \cup {None, Absent}]
        /\ \A k \in Ids : I[k] = m.id2name[k] \/ I[k] = Absent
    BY <2>1
  <2>4. E \in BOOLEAN
    OBVIOUS
  <2>5. /\ EvictId(m, u).name2id = N /\ EvictId(m, u).id2name = I
        /\ EvictId(m, u) = [name2id |-> N, id2name |-> I, error |-> E]
    BY <1>2 DEF EvictId, MapsRecords
  <2> HIDE DEF N, I, E
  <2> QED
    BY <2>2, <2>3, <2>4, <2>5 DEF Forgets, MapsRecords
<1> QED
  BY <1>1, <1>2

LEMMA EvictNameForgets ==
  ASSUME NEW m \in MapsRecords, NEW n
  PROVE  Forgets(m, EvictName(m, n))
<1> DEFINE u == m.name2id[n]
           N == [m.name2id EXCEPT ![n] = Absent]
           I == IF u = None THEN m.id2name ELSE [m.id2name EXCEPT ![u] = Absent]
           E == m.error \/ (u # None /\ m.id2name[u] = Absent)
<1>1. CASE m.name2id[n] = Absent
  BY <1>1 DEF EvictName, Forgets
<1>2. CASE m.name2id[n] # Absent
  <2>1. /\ m.name2id \in [Names -> Ids \cup {None, Absent}]
        /\ m.id2name \in [Ids -> Names \cup {None, Absent}] /\ m.error \in BOOLEAN
    BY DEF MapsRecords
  <2>2. /\ N \in [Names -> Ids \cup {None, Absent}]
        /\ \A k \in Names : N[k] = m.name2id[k] \/ N[k] = Absent
    BY <2>1
  <2>3. /\ I \in [Ids -> Names \cup {None, Absent}]
        /\ \A k \in Ids : I[k] = m.id2name[k] \/ I[k] = Absent
    BY <2>1
  <2>4. E \in BOOLEAN
    OBVIOUS
  <2>5. EvictName(m, n) = [name2id |-> N, id2name |-> I, error |-> E]
    BY <1>2 DEF EvictName, MapsRecords
  <2> HIDE DEF N, I, E
  <2> QED
    BY <2>2, <2>3, <2>4, <2>5 DEF Forgets, MapsRecords
<1> QED
  BY <1>1, <1>2

LEMMA EvictedForgets ==
  ASSUME KInv, NEW id
  PROVE  Forgets(Maps, Evicted(id))
<1> DEFINE one == IF "new name" \in main.evicts THEN EvictName(Maps, item.new_name) ELSE Maps
           two == IF "new id" \in main.evicts THEN EvictId(one, NewId(id)) ELSE one
<1>1. Maps \in MapsRecords
  BY DEF KInv, Maps, MapsRecords
<1>2. ASSUME NEW m \in MapsRecords PROVE Forgets(m, m)
  BY DEF Forgets
<1>3. Forgets(Maps, one)
  BY <1>1, <1>2, EvictNameForgets
<1> HIDE DEF one
<1>4. one \in MapsRecords
  BY <1>3 DEF Forgets
<1>5. Forgets(one, two)
  BY <1>2, <1>4, EvictIdForgets
<1>6. Evicted(id) = IF "id" \in main.evicts THEN EvictId(two, IdOf(item.who)) ELSE two
  BY DEF Evicted, one
<1> HIDE DEF two
<1>7. two \in MapsRecords
  BY <1>5 DEF Forgets
<1>8. Forgets(two, Evicted(id))
  BY <1>2, <1>6, <1>7, EvictIdForgets
<1> QED
  BY <1>3, <1>5, <1>8 DEF Forgets

\* A call is made for IDs that the cache has for the operands.
LEMMA ActedIsNamed ==
  ASSUME KInv, OperationDue
  PROVE  \A p \in Acted : p[1] \in Names => p \in named
<1> SUFFICES ASSUME NEW o \in Operands(item), o \in Names PROVE <<o, IdOf(o)>> \in named
  BY DEF Acted, KInv, ActsOnNamed
<1>1. pc = "item" /\ IdOf(o) # None /\ IdOf(o) = name2id[o] /\ name2id[o] # Absent
  BY DEF OperationDue, Unknown, NamesNeeded, IdOf
<1>2. name2id[o] \in Ids
  BY <1>1 DEF KInv
<1> QED
  BY <1>1, <1>2 DEF KInv, ActsOnNamed

\* Every step keeps it.
LEMMA KInvKept == KInv /\ [Next]_vars => KInv'
<1> SUFFICES ASSUME KInv, [Next]_vars PROVE KInv'
  OBVIOUS
<1>1. CASE LookUpNames \/ LookUpIds
  BY <1>1, LookUpKeeps
<1>2. CASE UNCHANGED <<entries, name2id, id2name, named, acted>>
  BY <1>2 DEF KInv, ActsOnNamed, Pairs
<1>3. CASE Succeed
  <2>1. OperationDue /\ named' = named \cup Pairs' /\ acted' = Acted
    BY <1>3 DEF Succeed
  <2>2. PICK id \in Ids : /\ Served("ok", id)
                          /\ name2id' = Evicted(id).name2id /\ id2name' = Evicted(id).id2name
    BY <1>3 DEF Succeed
  <2>3. entries' \in [Names -> Ids \cup {None}]
    BY <2>2, ServedKeepsNames
  <2>4. Forgets(Maps, Evicted(id))
    BY EvictedForgets
  <2>5. /\ name2id' \in [Names -> Ids \cup {None, Absent}]
        /\ id2name' \in [Ids -> Names \cup {None, Absent}]
        /\ \A n \in Names : name2id'[n] = name2id[n] \/ name2id'[n] = Absent
        /\ \A u \in Ids : id2name'[u] = id2name[u] \/ id2name'[u] = Absent
    BY <2>2, <2>4 DEF Forgets, Maps, MapsRecords
  <2>6. \A p \in acted' : p[1] \in Names => p \in named'
    BY <2>1, ActedIsNamed
  <2>7. \A n \in Names : name2id'[n] \in Ids => <<n, name2id'[n]>> \in named'
    BY <2>1, <2>5, Apart DEF KInv, ActsOnNamed
  <2>8. \A u \in Ids : id2name'[u] \in Names => <<id2name'[u], u>> \in named'
    BY <2>1, <2>5, Apart DEF KInv, ActsOnNamed
  <2> QED
    BY <2>1, <2>3, <2>5, <2>6, <2>7, <2>8 DEF KInv, ActsOnNamed
<1>4. CASE Fail
  <2>1. UNCHANGED <<name2id, named, acted>>
    BY <1>4 DEF Fail, history
  <2>2. PICK answer \in Aborts, id \in Ids :
          Served(answer, id) /\ (UNCHANGED id2name \/ IdIsUnknown(answer))
    BY <1>4 DEF Fail
  <2>3. UNCHANGED entries
    BY <2>2 DEF Served, Aborts, PR_AddToGroup, PR_RemoveFromGroup, PR_NewEntry,
                PR_INewEntry, PR_ChangeEntry, PR_Delete, PR_ListEntry, database
  <2>4. id2name' = id2name \/ \E u : id2name' = [id2name EXCEPT ![u] = None]
    BY <2>2 DEF IdIsUnknown
  <2>5. /\ id2name' \in [Ids -> Names \cup {None, Absent}]
        /\ \A u \in Ids : id2name'[u] = id2name[u] \/ id2name'[u] = None
    BY <2>4 DEF KInv
  <2> QED
    BY <2>1, <2>3, <2>5, Apart DEF KInv, ActsOnNamed, Pairs
<1>5. CASE AnswerLost
  <2>1. /\ OperationDue /\ named' = named \cup Pairs' /\ acted' = Acted
        /\ UNCHANGED <<name2id, id2name>> /\ \E id \in Ids : Served("ok", id)
    BY <1>5 DEF AnswerLost, cache, maps
  <2>2. entries' \in [Names -> Ids \cup {None}]
    BY <2>1, ServedKeepsNames
  <2>3. \A p \in acted' : p[1] \in Names => p \in named'
    BY <2>1, ActedIsNamed
  <2> QED
    BY <2>1, <2>2, <2>3 DEF KInv, ActsOnNamed
<1>6. CASE Rival
  <2>1. /\ named' = named \cup Pairs' /\ UNCHANGED <<name2id, id2name, acted>>
        /\ \E u \in Ids : (\E n \in Names : Bind(n, u)) \/ Unbind(u)
    BY <1>6 DEF Rival, cache, maps, history
  <2>2. entries' \in [Names -> Ids \cup {None}]
    BY <2>1 DEF Bind, Unbind, KInv
  <2> QED
    BY <2>1, <2>2 DEF KInv, ActsOnNamed
<1>7. CASE UnknownOperand \/ ListedBefore \/ Report \/ AskMembership \/ Display \/ NotCarriedOut
  BY <1>2, <1>7 DEF UnknownOperand, ListedBefore, Report, AskMembership, Display,
                    NotCarriedOut, database, cache, maps, history
<1>8. CASE UNCHANGED vars
  BY <1>2, <1>8 DEF vars, database, cache, maps, history
<1> QED
  BY <1>1, <1>3, <1>4, <1>5, <1>6, <1>7, <1>8 DEF Next, Run

\* Nothing is known of the entries when the command begins.
LEMMA InitK == Init => KInv
<1> SUFFICES ASSUME Init PROVE KInv
  OBVIOUS
<1>1. /\ name2id = [n \in Names |-> Absent] /\ id2name = [u \in Ids |-> Absent]
      /\ named = Pairs /\ acted = {} /\ entries \in [Names -> Ids \cup {None}]
  BY DEF Init
<1>2. ActsOnNamed
  BY <1>1, Apart DEF ActsOnNamed
<1> QED
  BY <1>1, <1>2 DEF KInv

\* A call is made for the entry that had the given name at some time since the
\* command began, and what the cache says was true at some time since then.
THEOREM ActsOnlyOnNamed == Spec => []ActsOnNamed
<1>1. KInv => ActsOnNamed
  BY DEF KInv
<1> QED
  BY <1>1, InitK, KInvKept, PTL DEF Spec

-----------------------------------------------------------------------------
(* The exit code. *)

\* An item has been carried out as told, or is a user made with its ID ignored.
Accounted(k) == k \in done \/ (NumberIgnored(k) /\ Entered(k))
AllAccounted == \A k \in DOMAIN request.items : Accounted(k)

\* A command that ends normally with zero has had all its items carried out, and
\* an item carried out otherwise than told is a user made under another ID.
ZeroMeansDone ==
  pc = "ended" /\ end = "normal" /\ exitcode = 0 =>
    /\ AllAccounted
    /\ request.command # "createuser" => AllDone
    /\ (\A k \in DOMAIN request.items : request.items[k].new_id = Absent) => AllDone

\* The inductive invariant: as long as no error has been reported the items before
\* the current one are accounted for, and after the loop they all are.
XInv ==
  /\ request \in Requests
  /\ Len(request.items) \in Nat /\ at \in Nat /\ at >= 1 /\ at <= Len(request.items)
  /\ done \subseteq DOMAIN request.items
  /\ DOMAIN request.items = 1 .. Len(request.items)
  /\ pc # "ended" => end = ""
  /\ pc = "report" => exitcode = 1
  /\ exitcode = 0 /\ pc = "item" => \A k \in DOMAIN request.items : k < at => Accounted(k)
  /\ exitcode = 0 /\ pc \in {"member", "display"} => AllAccounted
  /\ exitcode = 0 /\ pc = "ended" /\ end = "normal" => AllAccounted

\* Counting on to the next item.
LEMMA Onwards ==
  ASSUME NEW n \in Nat, NEW a \in Nat, NEW b, 1 <= a, a < n, b = a + 1
  PROVE  /\ b \in Nat /\ b >= 1 /\ b <= n
         /\ \A k \in 1 .. n : k < b => k <= a
  OBVIOUS

\* There is no item before the first.
LEMMA FirstIsFirst ==
  ASSUME NEW n \in Nat, n # 0
  PROVE  1 <= n /\ \A k \in 1 .. n : ~(k < 1)
  OBVIOUS

\* A number between the first and the last is an item.
LEMMA Between ==
  ASSUME NEW n \in Nat, NEW a \in Nat, a >= 1, a <= n
  PROVE  a \in 1 .. n
  OBVIOUS

\* The current item is one, and so is all that is done.
LEMMA ItemsOnly ==
  ASSUME XInv
  PROVE  done \subseteq DOMAIN request.items /\ at \in DOMAIN request.items
<1>1. /\ Len(request.items) \in Nat /\ at \in Nat /\ at >= 1 /\ at <= Len(request.items)
      /\ DOMAIN request.items = 1 .. Len(request.items)
  BY Zenon DEF XInv
<1>2. done \subseteq DOMAIN request.items
  BY Zenon DEF XInv
<1> QED
  BY <1>1, <1>2, Between, Zenon

\* The step accounts for item k, or some step before it did.
NowAccounted(k) ==
  \/ k \in done'
  \/ NumberIgnored(k) /\ \E u \in Ids : <<request.items[k].new_name, u>> \in named'

\* What has been accounted for stays so.
LEMMA AccountedStays ==
  ASSUME UNCHANGED request, done \subseteq done', named \subseteq named'
  PROVE  /\ \A k : Accounted(k) => Accounted(k)'
         /\ \A k : NowAccounted(k) <=> Accounted(k)'
         /\ AllAccounted => AllAccounted'
<1>1. \A k : Accounted(k) => NowAccounted(k)
  BY DEF Accounted, NowAccounted, Entered
<1>2. \A k : NowAccounted(k) <=> Accounted(k)'
  BY DEF Accounted, NowAccounted, NumberIgnored, Entered
<1>3. \A k : Accounted(k) => Accounted(k)'
  BY <1>1, <1>2
<1> QED
  BY <1>2, <1>3 DEF AllAccounted

\* What a step does to the items that are done.
MoreDone ==
  /\ done \subseteq done' /\ done' \subseteq DOMAIN request.items
  /\ named \subseteq named'
  /\ exitcode' = 0 => exitcode = 0 /\ NowAccounted(at)

\* Going on to the next item, or to the end of the loop.
LEMMA NextItemKeeps ==
  ASSUME XInv, pc = "item", NEW res, NextItem(res), UNCHANGED request, MoreDone
  PROVE  XInv'
<1>1. PICK n \in Nat : n = Len(request.items)
  BY DEF XInv
<1>2. at \in Nat /\ at <= n /\ at >= 1 /\ DOMAIN request.items = 1 .. n
  BY <1>1 DEF XInv
<1>0. \A k : NowAccounted(k) <=> Accounted(k)'
  BY AccountedStays DEF MoreDone
<1>3. exitcode' = 0 => \A k \in 1 .. n : k <= at => Accounted(k)'
  <2> SUFFICES ASSUME exitcode' = 0, NEW k \in 1 .. n, k <= at
               PROVE  NowAccounted(k)
    BY <1>0
  <2>1. k < at \/ k = at
    BY <1>2
  <2>2. k < at => Accounted(k)
    BY <1>2 DEF XInv, MoreDone
  <2>3. CASE k < at
    <3>1. Accounted(k)
      BY <2>2, <2>3
    <3>2. UNCHANGED request /\ done \subseteq done' /\ named \subseteq named'
      BY DEF MoreDone
    <3> QED
      BY <3>1, <3>2 DEF Accounted, NowAccounted, Entered
  <2>4. CASE k = at
    BY <2>4 DEF MoreDone, NowAccounted
  <2> QED
    BY <2>1, <2>3, <2>4
<1>4. end = ""
  BY DEF XInv
<1>5. CASE at < n
  <2>1. at' = at + 1 /\ pc' = "item" /\ end' = ""
    BY <1>1, <1>4, <1>5 DEF NextItem
  <2>2. /\ at' \in Nat /\ at' >= 1 /\ at' <= n
        /\ \A k \in 1 .. n : k < at' => k <= at
    BY <1>2, <1>5, <2>1, Onwards
  <2>3. exitcode' = 0 => \A k \in 1 .. n : k < at' => Accounted(k)'
    BY <1>3, <2>2
  <2> QED
    BY <1>1, <1>2, <2>1, <2>2, <2>3 DEF XInv, MoreDone
<1>6. CASE ~(at < n)
  <2>1. at' = at /\ at = n
    BY <1>1, <1>2, <1>6 DEF NextItem
  <2>2. \/ pc' = "ended" /\ end' = "normal"
        \/ pc' \in {"member", "display"} /\ end' = ""
    BY <1>1, <1>4, <1>6 DEF NextItem, Show, End
  <2>3. exitcode' = 0 => \A k \in 1 .. n : Accounted(k)'
    BY <1>2, <1>3, <2>1
  <2>4. exitcode' = 0 => AllAccounted'
    BY <1>2, <2>3 DEF AllAccounted
  <2> QED
    BY <1>1, <1>2, <2>1, <2>2, <2>4 DEF XInv, MoreDone
<1> QED
  BY <1>5, <1>6

\* The loop ends, or goes on, after an error.
LEMMA ErrorKeeps ==
  ASSUME XInv, pc = "item", Error, GoOnAfterError, UNCHANGED <<request, done, named>>
  PROVE  XInv'
<1>1. exitcode' = 1
  BY DEF Error
<1>2. CASE NextItem(results)
  <2>1. MoreDone
    BY <1>1, ItemsOnly DEF MoreDone
  <2> QED
    BY <1>2, <2>1, NextItemKeeps
<1>3. CASE Show(results) /\ UNCHANGED at
  <2>1. \/ pc' = "ended" /\ end' = "normal"
        \/ pc' \in {"member", "display"} /\ end' = ""
    BY <1>3 DEF Show, End, XInv
  <2>2. exitcode' # 0
    BY <1>1
  <2> QED
    BY <1>1, <1>3, <2>1, <2>2 DEF XInv
<1> QED
  BY <1>2, <1>3 DEF GoOnAfterError

\* An exception that ends the command.
LEMMA ExceptionKeeps ==
  ASSUME XInv, NEW how, End(how), how # "normal", UNCHANGED <<request, at>>,
         done \subseteq done', done' \subseteq DOMAIN request.items
  PROVE  XInv'
  BY DEF End, XInv

\* Nothing that it is about changes.
LEMMA StayKeeps ==
  ASSUME XInv, UNCHANGED <<request, at, pc, end, exitcode>>,
         done \subseteq done', done' \subseteq DOMAIN request.items, named \subseteq named'
  PROVE  XInv'
<1>1. /\ \A k : Accounted(k) => Accounted(k)'
      /\ AllAccounted => AllAccounted'
  BY AccountedStays
<1> QED
  BY <1>1 DEF XInv

\* When createuser's call has succeeded there is an entry of the new name.
LEMMA NewUserEntered ==
  ASSUME XInv, at \in DOMAIN request.items, NEW id \in Ids, Served("ok", id),
         NumberIgnored(at)
  PROVE  <<item.new_name, id>> \in Pairs'
<1>1. request.command = "createuser"
  BY DEF NumberIgnored
<1>2. PR_NewEntry(item.new_name, id, "ok")
  BY <1>1 DEF Served
<1>3. Bind(item.new_name, id)
  BY <1>2 DEF PR_NewEntry
<1>4. item.new_name \in Names
  <2>1. request.items \in Seq(Item) /\ Complete(request)
    BY PtsAssumption DEF XInv, Request
  <2>2. item \in Item
    BY <2>1 DEF item
  <2>3. item.new_name # Absent
    BY <1>1, <2>1 DEF Complete, item
  <2> QED
    BY <2>2, <2>3 DEF Item
<1>5. entries'[item.new_name] = id
  BY <1>3, <1>4 DEF Bind
<1> QED
  BY <1>4, <1>5 DEF Pairs

\* Every step keeps it.
LEMMA XInvKept == XInv /\ [Next]_vars => XInv'
<1> SUFFICES ASSUME XInv, [Next]_vars PROVE XInv'
  OBVIOUS
<1>0. done \subseteq DOMAIN request.items /\ at \in DOMAIN request.items
  BY ItemsOnly
<1>1. CASE LookUpNames \/ LookUpIds \/ Rival
  BY <1>0, <1>1, StayKeeps DEF LookUpNames, LookUpIds, Rival, control, history
<1>2. CASE UnknownOperand
  <2>1. pc = "item" /\ UNCHANGED <<request, done, named>>
    BY <1>2 DEF UnknownOperand, Unknown, history
  <2>2. \/ Error /\ GoOnAfterError
        \/ End("TypeError") /\ UNCHANGED at
    BY <1>2 DEF UnknownOperand
  <2> QED
    BY <1>0, <2>1, <2>2, ErrorKeeps, ExceptionKeeps
<1>3. CASE ListedBefore
  <2>1. /\ pc = "item" /\ NextItem(results) /\ UNCHANGED <<request, exitcode, named>>
        /\ done' = done \cup {at}
    BY <1>3 DEF ListedBefore, AlreadyListed
  <2>2. MoreDone
    BY <1>0, <2>1 DEF MoreDone, NowAccounted
  <2> QED
    BY <2>1, <2>2, NextItemKeeps
<1>4. CASE Succeed
  <2>1. pc = "item" /\ UNCHANGED <<request, exitcode>>
    BY <1>4 DEF Succeed, OperationDue
  <2>0. PICK id \in Ids : Served("ok", id) /\ done' = done \cup CarriedOut(id)
    BY <1>4 DEF Succeed
  <2>2. \/ End("KeyError") /\ UNCHANGED at
        \/ \E res : NextItem(res)
    BY <1>4 DEF Succeed
  <2>3. MoreDone
    <3>1. CarriedOut(id) \subseteq {at} /\ (at \in CarriedOut(id) \/ NumberIgnored(at))
      BY DEF CarriedOut
    <3>2. exitcode' = exitcode /\ named' = named \cup Pairs'
      BY <1>4, <2>1 DEF Succeed
    <3>3. ASSUME NumberIgnored(at)
          PROVE  <<item.new_name, id>> \in named'
      BY <1>0, <2>0, <3>2, <3>3, NewUserEntered
    <3>4. NowAccounted(at)
      BY <2>0, <3>1, <3>3 DEF NowAccounted, item
    <3> QED
      BY <1>0, <2>0, <3>1, <3>2, <3>4 DEF MoreDone
  <2> QED
    BY <2>1, <2>2, <2>3, NextItemKeeps, ExceptionKeeps DEF MoreDone
<1>5. CASE Fail
  <2>1. pc = "item" /\ UNCHANGED <<request, done, named>>
    BY <1>5 DEF Fail, OperationDue, history
  <2>2. \/ End("Abort") /\ UNCHANGED at
        \/ Error /\ pc' = "report" /\ UNCHANGED <<at, end>>
        \/ Error /\ GoOnAfterError
    BY <1>5 DEF Fail
  <2>3. CASE Error /\ pc' = "report" /\ UNCHANGED <<at, end>>
    BY <2>1, <2>3 DEF Error, XInv
  <2>4. CASE Error /\ GoOnAfterError
    BY <2>1, <2>4, ErrorKeeps
  <2>5. CASE End("Abort") /\ UNCHANGED at
    BY <1>0, <2>1, <2>5, ExceptionKeeps
  <2> QED
    BY <2>2, <2>3, <2>4, <2>5
<1>6. CASE Report
  <2>1. /\ pc = "report" /\ pc' = "ended" /\ end' = "normal"
        /\ request' = request /\ at' = at /\ exitcode' = exitcode /\ done' = done
    BY <1>6 DEF Report, End, history
  <2>2. exitcode = 1
    BY <2>1, Zenon DEF XInv
  <2>3. exitcode' # 0 /\ pc' \notin {"report", "item", "member", "display"}
    BY <2>1, <2>2
  <2>4. /\ (Len(request.items) \in Nat)' /\ (at \in Nat)' /\ (at >= 1)'
        /\ (at <= Len(request.items))' /\ (DOMAIN request.items = 1 .. Len(request.items))'
        /\ (done \subseteq DOMAIN request.items)' /\ (request \in Requests)'
    BY <2>1, Zenon DEF XInv
  <2> QED
    BY <2>1, <2>3, <2>4, Zenon DEF XInv
<1>7. CASE AskMembership
  <2>1. CASE End("Abort")
    BY <1>0, <1>7, <2>1, ExceptionKeeps DEF AskMembership, history
  <2>2. CASE pc' = "display" /\ UNCHANGED end
    <3>1. UNCHANGED <<request, done, named, at, exitcode>> /\ pc = "member"
      BY <1>7 DEF AskMembership, history
    <3>2. AllAccounted => AllAccounted'
      BY <3>1, AccountedStays
    <3> QED
      BY <2>2, <3>1, <3>2 DEF XInv
  <2> QED
    BY <1>7, <2>1, <2>2 DEF AskMembership
<1>8. CASE Display
  <2>1. pc = "display" /\ UNCHANGED <<request, at, exitcode, done, named>> /\ Show(results')
    BY <1>8 DEF Display, history
  <2>2. \/ pc' = "ended" /\ end' = "normal"
        \/ pc' \in {"member", "display"} /\ end' = ""
    BY <2>1 DEF Show, End, XInv
  <2>3. AllAccounted => AllAccounted'
    BY <2>1, AccountedStays
  <2> QED
    BY <2>1, <2>2, <2>3 DEF XInv
<1>9. CASE NotCarriedOut
  <2>1. UNCHANGED <<request, at, exitcode, done, named>>
    BY <1>9 DEF NotCarriedOut, history
  <2>2. End("CellError") \/ UNCHANGED <<pc, end>>
    BY <1>9 DEF NotCarriedOut, GiveUpServer
  <2> QED
    BY <1>0, <2>1, <2>2, ExceptionKeeps, StayKeeps
<1>10. CASE AnswerLost
  <2>1. /\ UNCHANGED <<request, at, exitcode>>
        /\ done \subseteq done' /\ done' \subseteq done \cup {at} /\ named \subseteq named'
    BY <1>10 DEF AnswerLost, CarriedOut
  <2>2. End("CellError") \/ UNCHANGED <<pc, end>>
    BY <1>10 DEF AnswerLost, GiveUpServer
  <2> QED
    BY <1>0, <2>1, <2>2, ExceptionKeeps, StayKeeps
<1>11. CASE UNCHANGED vars
  BY <1>0, <1>11, StayKeeps DEF vars, control, history
<1> QED
  BY <1>1, <1>2, <1>3, <1>4, <1>5, <1>6, <1>7, <1>8, <1>9, <1>10, <1>11 DEF Next, Run

\* No item is done when the command begins.
LEMMA InitX == Init => XInv
<1> SUFFICES ASSUME Init PROVE XInv
  OBVIOUS
<1>1. /\ request \in Requests /\ at = 1 /\ pc = "item" /\ exitcode = 0 /\ end = ""
      /\ done = {}
  BY DEF Init
<1>2. request.items \in Seq(Item) /\ request.items # <<>>
  BY <1>1, PtsAssumption DEF Request
<1>3. /\ Len(request.items) \in Nat /\ Len(request.items) # 0
      /\ DOMAIN request.items = 1 .. Len(request.items)
  BY <1>2
<1>4. 1 <= Len(request.items) /\ \A k \in DOMAIN request.items : ~(k < at)
  BY <1>1, <1>3, FirstIsFirst
<1>5. exitcode = 0 /\ pc = "item" => \A k \in DOMAIN request.items : k < at => Accounted(k)
  BY <1>4
<1>6. /\ Len(request.items) \in Nat /\ at \in Nat /\ at >= 1 /\ at <= Len(request.items)
      /\ DOMAIN request.items = 1 .. Len(request.items)
  <2>1. 1 \in Nat /\ 1 >= 1
    OBVIOUS
  <2> QED
    BY <1>1, <1>3, <1>4, <2>1, Zenon
<1>7. done \subseteq DOMAIN request.items
  BY <1>1
<1>8. /\ pc # "ended" => end = ""
      /\ pc = "report" => exitcode = 1
      /\ exitcode = 0 /\ pc \in {"member", "display"} => AllAccounted
      /\ exitcode = 0 /\ pc = "ended" /\ end = "normal" => AllAccounted
  BY <1>1
<1> QED
  BY <1>1, <1>5, <1>6, <1>7, <1>8, Zenon DEF XInv

\* Exit code zero means that every item has been carried out, however many
\* servers had to be asked and whatever others did; only that a user whose ID
\* createuser was told has been made may be all that was.
THEOREM ZeroIsTrue == Spec => []ZeroMeansDone
<1>1. XInv => ZeroMeansDone
  <2> SUFFICES ASSUME XInv, pc = "ended", end = "normal", exitcode = 0 PROVE ZeroMeansDone
    BY DEF ZeroMeansDone
  <2>1. AllAccounted /\ done \subseteq DOMAIN request.items
    BY DEF XInv
  <2>2. (\A k \in DOMAIN request.items : ~NumberIgnored(k)) => AllDone
    BY <2>1 DEF AllAccounted, Accounted, AllDone
  <2> QED
    BY <2>1, <2>2 DEF ZeroMeansDone, NumberIgnored
<1> QED
  BY <1>1, InitX, XInvKept, PTL DEF Spec

-----------------------------------------------------------------------------
(* The two directions of the cache agree. *)

\* No two names have the same ID.
OneToOne == \A m, n \in Names : entries[m] = entries[n] => m = n \/ entries[m] = None

\* What is still to be looked up is not known.
LooksUpUnknown ==
  /\ names_to_lookup \subseteq Names /\ ids_to_lookup \subseteq Ids
  /\ \A n \in names_to_lookup : name2id[n] = Absent
  /\ \A u \in ids_to_lookup : id2name[u] = Absent

\* What the cache may have wrong: an entry whose deletion was not answered, and
\* the old name of one whose change was not, until the call is repeated.
Bound(u) == \E m \in Names : entries[m] = u
Gone(n, u) == request.command = "delete" /\ entries[n] = None /\ ~Bound(u)
Moved(n, u) ==
  /\ request.command \in {"rename", "chown"} /\ entries[n] = None
  /\ pc = "report" \/ (OperationDue /\ u = IdOf(item.who) /\ Bound(u))

CacheIsTrue ==
  rivals = 0 /\ pc # "ended" =>
    \A n \in Names, u \in Ids :
      name2id[n] = u => entries[n] = u \/ Gone(n, u) \/ Moved(n, u)

\* What is to be shown are IDs.
RInv ==
  /\ results \in Seq([of : Ids, show : SUBSET Ids])
  /\ pc \in {"report", "member", "display"} => results # <<>>

\* The inductive invariant: the two maps can only come to differ when a look-up
\* brings a name or an ID of which the cache has an old partner, and there is
\* none, as long as nobody else changes the database.
MInv ==
  /\ KInv /\ XInv /\ RInv /\ request \in Requests /\ rivals \in Nat
  /\ OneToOne /\ LooksUpUnknown /\ MapsAgree /\ CacheIsTrue

\* The same of two maps on the way from one state to the next.
Agreeing(m) ==
  /\ m \in MapsRecords /\ m.error = FALSE
  /\ \A n \in Names, u \in Ids : m.name2id[n] = u <=> m.id2name[u] = n

\* What main() of each command evicts and shows.
LEMMA MainIs ==
  ASSUME request.command \in DOMAIN Command
  PROVE  /\ "id" \in main.evicts <=> request.command \in {"chown", "delete", "rename"}
         /\ "new name" \in main.evicts <=> request.command \in {"createuser", "creategroup"}
         /\ "new id" \in main.evicts <=> request.command \in {"createuser", "creategroup"}
         /\ main.lists <=> request.command \in {"examine", "listowned"}
         /\ main.shows_name => request.command \in {"chown", "delete"}
         /\ "PRPERM" \in main.caught /\ request.command \in {"rename", "chown"} =>
              request.command = "chown"
         /\ "PREXIST" \in main.caught /\ request.command \in {"rename", "chown"} =>
              request.command = "rename"
<1>1. /\ Plain.evicts = {} /\ Plain.lists = FALSE /\ Plain.shows_name = FALSE /\ Plain.caught = {}
      /\ DOMAIN Plain = {"checks", "shows_name", "evicts", "caught", "stops", "lists"}
  BY DEF Plain
<1>2. /\ adduser.evicts = {} /\ adduser.lists = FALSE /\ adduser.shows_name = FALSE
      /\ removeuser.evicts = {} /\ removeuser.lists = FALSE /\ removeuser.shows_name = FALSE
      /\ setmax.evicts = {} /\ setmax.lists = FALSE /\ setmax.shows_name = FALSE
      /\ setfields.evicts = {} /\ setfields.lists = FALSE /\ setfields.shows_name = FALSE
      /\ examine.evicts = {} /\ examine.lists = TRUE /\ examine.shows_name = FALSE
      /\ listowned.evicts = {} /\ listowned.lists = TRUE /\ listowned.shows_name = FALSE
  BY <1>1 DEF adduser, removeuser, setmax, setfields, examine, listowned
<1>3. /\ createuser.evicts = {"new name", "new id"} /\ createuser.lists = FALSE /\ createuser.shows_name = FALSE
      /\ creategroup.evicts = {"new name", "new id"} /\ creategroup.lists = FALSE /\ creategroup.shows_name = FALSE
      /\ chown.evicts = {"id"} /\ chown.lists = FALSE /\ chown.caught = {"PRNOENT", "PRPERM"}
      /\ delete.evicts = {"id"} /\ delete.lists = FALSE
      /\ rename.evicts = {"id"} /\ rename.lists = FALSE /\ rename.shows_name = FALSE
      /\ rename.caught = {"PREXIST", "PRNOENT"}
  BY <1>1 DEF createuser, creategroup, chown, delete, rename
<1>4. \A c \in DOMAIN Command :
        /\ c \in {"adduser", "removeuser", "createuser", "creategroup", "chown",
              "delete", "rename", "setfields", "setmax", "examine", "listowned",
              "listentries", "listmax"}
        /\ c = "adduser" => Command[c] = adduser
        /\ c = "removeuser" => Command[c] = removeuser
        /\ c = "createuser" => Command[c] = createuser
        /\ c = "creategroup" => Command[c] = creategroup
        /\ c = "chown" => Command[c] = chown
        /\ c = "delete" => Command[c] = delete
        /\ c = "rename" => Command[c] = rename
        /\ c = "setfields" => Command[c] = setfields
        /\ c = "setmax" => Command[c] = setmax
        /\ c = "examine" => Command[c] = examine
        /\ c = "listowned" => Command[c] = listowned
        /\ c \in {"listentries", "listmax"} => Command[c] = Plain
  BY DEF Command, listentries, listmax
<1>5. main = Command[request.command]
  BY DEF main
<1> HIDE DEF main
<1>6. CASE request.command \in {"createuser", "creategroup"}
  <2>1. main = createuser \/ main = creategroup
    BY <1>4, <1>5, <1>6
  <2>2. main.evicts = {"new name", "new id"} /\ main.lists = FALSE /\ main.shows_name = FALSE
    BY <1>3, <2>1
  <2> QED
    BY <1>6, <2>2
<1>7. CASE request.command \in {"chown", "delete", "rename"}
  <2>1. /\ request.command = "chown" => main = chown
        /\ request.command = "delete" => main = delete
        /\ request.command = "rename" => main = rename
    BY <1>4, <1>5
  <2>2. main.evicts = {"id"} /\ main.lists = FALSE
    BY <1>3, <1>7, <2>1
  <2>3. /\ request.command = "rename" => main.shows_name = FALSE
        /\ request.command = "chown" => main.caught = {"PRNOENT", "PRPERM"}
        /\ request.command = "rename" => main.caught = {"PREXIST", "PRNOENT"}
    BY <1>3, <2>1
  <2> QED
    BY <1>7, <2>2, <2>3
<1>8. CASE request.command \in {"adduser", "removeuser", "setfields", "setmax", "examine",
                                "listowned", "listentries", "listmax"}
  BY <1>1, <1>2, <1>4, <1>5, <1>8
<1> QED
  BY <1>4, <1>6, <1>7, <1>8

\* The item at hand has what its command needs.
LEMMA ItemIs ==
  ASSUME XInv, request \in Requests
  PROVE  /\ request.command \in DOMAIN Command
         /\ item.who \in Names \cup Ids \cup {Absent}
         /\ request.command \in {"chown", "delete", "rename", "setfields", "examine", "listowned"} =>
              item.who \in Names \cup Ids
         /\ request.command = "chown" => item.whom \in Names \cup Ids
         /\ request.command \in {"createuser", "creategroup"} => item.new_name \in Names
         /\ item.new_id \in Ids \cup {Absent}
<1>1. request \in Request /\ Complete(request)
  BY PtsAssumption
<1>2. at \in DOMAIN request.items
  BY ItemsOnly
<1>3. item \in Item
  BY <1>1, <1>2 DEF Request, item
<1> QED
  BY <1>1, <1>2, <1>3 DEF Request, Complete, Item, Operand, item

\* An operand that has been looked up and found has an ID, and so, when the
\* operation is due, has the entry it is for.
LEMMA KnownHasId ==
  ASSUME KInv, pc = "item", NamesNeeded = {}, ~Unknown,
         NEW o \in Operands(item), o \in Names \cup Ids
  PROVE  IdOf(o) \in Ids
<1>1. CASE o \in Names
  <2>1. name2id[o] # Absent /\ name2id[o] # None
    BY <1>1 DEF NamesNeeded, Unknown, IdOf
  <2> QED
    BY <1>1, <2>1 DEF KInv, IdOf
<1>2. CASE o \notin Names
  BY <1>2 DEF IdOf
<1> QED
  BY <1>1, <1>2

LEMMA WhoHasId ==
  ASSUME KInv, XInv, request \in Requests, OperationDue, item.who # Absent
  PROVE  IdOf(item.who) \in Ids
<1>1. item.who \in Names \cup Ids /\ item.who \in Operands(item)
  BY ItemIs DEF Operands
<1> QED
  BY <1>1, KnownHasId DEF OperationDue

\* An ID exists if a name is bound to it.
LEMMA ExistsIsBound == ASSUME NEW u \in Ids PROVE Exists(u) <=> Bound(u)
  BY NameOfIs, Apart DEF Exists, Bound, NameOf

\* Evicting an ID takes it out of both maps, if they agree.
LEMMA EvictIdAgrees ==
  ASSUME NEW m, Agreeing(m), NEW u \in Ids
  PROVE  Agreeing(EvictId(m, u)) /\ EvictId(m, u).id2name[u] = Absent
<1> DEFINE n == m.id2name[u]
           N == IF n = None THEN m.name2id ELSE [m.name2id EXCEPT ![n] = Absent]
           I == [m.id2name EXCEPT ![u] = Absent]
           E == m.error \/ (n # None /\ m.name2id[n] = Absent)
<1>1. CASE m.id2name[u] = Absent
  BY <1>1 DEF EvictId
<1>2. CASE m.id2name[u] # Absent
  <2>1. /\ m.name2id \in [Names -> Ids \cup {None, Absent}]
        /\ m.id2name \in [Ids -> Names \cup {None, Absent}] /\ m.error = FALSE
        /\ \A k \in Names, v \in Ids : m.name2id[k] = v <=> m.id2name[v] = k
    BY DEF Agreeing, MapsRecords
  <2>2. n = None \/ (n \in Names /\ m.name2id[n] = u)
    BY <1>2, <2>1
  <2>3. E = FALSE
    BY <2>1, <2>2, Apart
  <2>4. \A k \in Names, v \in Ids : N[k] = v <=> I[v] = k
    BY <2>1, <2>2, Apart
  <2>5. EvictId(m, u).name2id = N /\ EvictId(m, u).id2name = I /\ EvictId(m, u).error = E
    BY <1>2 DEF EvictId, Agreeing, MapsRecords
  <2>6. EvictId(m, u) \in MapsRecords
    BY EvictIdForgets DEF Agreeing, Forgets
  <2>7. I[u] = Absent
    BY <2>1
  <2> HIDE DEF n, N, I, E
  <2> QED
    BY <2>3, <2>4, <2>5, <2>6, <2>7 DEF Agreeing
<1> QED
  BY <1>1, <1>2

\* So does evicting a name.
LEMMA EvictNameAgrees ==
  ASSUME NEW m, Agreeing(m), NEW n \in Names
  PROVE  Agreeing(EvictName(m, n))
<1> DEFINE u == m.name2id[n]
           N == [m.name2id EXCEPT ![n] = Absent]
           I == IF u = None THEN m.id2name ELSE [m.id2name EXCEPT ![u] = Absent]
           E == m.error \/ (u # None /\ m.id2name[u] = Absent)
<1>1. CASE m.name2id[n] = Absent
  BY <1>1 DEF EvictName
<1>2. CASE m.name2id[n] # Absent
  <2>1. /\ m.name2id \in [Names -> Ids \cup {None, Absent}]
        /\ m.id2name \in [Ids -> Names \cup {None, Absent}] /\ m.error = FALSE
        /\ \A k \in Names, v \in Ids : m.name2id[k] = v <=> m.id2name[v] = k
    BY DEF Agreeing, MapsRecords
  <2>2. u = None \/ (u \in Ids /\ m.id2name[u] = n)
    BY <1>2, <2>1
  <2>3. E = FALSE
    BY <2>1, <2>2, Apart
  <2>4. \A k \in Names, v \in Ids : N[k] = v <=> I[v] = k
    BY <2>1, <2>2, Apart
  <2>5. EvictName(m, n).name2id = N /\ EvictName(m, n).id2name = I /\ EvictName(m, n).error = E
    BY <1>2 DEF EvictName, Agreeing, MapsRecords
  <2>6. EvictName(m, n) \in MapsRecords
    BY EvictNameForgets DEF Agreeing, Forgets
  <2> HIDE DEF u, N, I, E
  <2> QED
    BY <2>3, <2>4, <2>5, <2>6 DEF Agreeing
<1> QED
  BY <1>1, <1>2

\* What is evicted after a success leaves two maps that agree.
LEMMA EvictedAgrees ==
  ASSUME MInv, rivals = 0, OperationDue, NEW id \in Ids
  PROVE  /\ Agreeing(Evicted(id))
         /\ request.command \in {"chown", "delete", "rename"} =>
              Evicted(id).id2name[IdOf(item.who)] = Absent
<1> DEFINE one == IF "new name" \in main.evicts THEN EvictName(Maps, item.new_name) ELSE Maps
           two == IF "new id" \in main.evicts THEN EvictId(one, NewId(id)) ELSE one
           who == IdOf(item.who)
<1>0. KInv /\ XInv /\ request \in Requests /\ MapsAgree
  BY DEF MInv
<1>1. Agreeing(Maps)
  BY <1>0 DEF Agreeing, Maps, MapsRecords, MapsAgree, KInv
<1>2. "new name" \in main.evicts => item.new_name \in Names
  BY <1>0, ItemIs, MainIs
<1>3. "id" \in main.evicts => who \in Ids
  <2> SUFFICES ASSUME "id" \in main.evicts PROVE who \in Ids
    OBVIOUS
  <2>1. item.who \in Names \cup Ids
    BY <1>0, ItemIs, MainIs
  <2> QED
    BY <1>0, <2>1, WhoHasId, Apart
<1>4. Agreeing(one)
  BY <1>1, <1>2, EvictNameAgrees
<1> HIDE DEF one
<1>5. Agreeing(two)
  <2>1. NewId(id) \in Ids
    BY <1>0, ItemIs DEF NewId
  <2> QED
    BY <1>4, <2>1, EvictIdAgrees
<1>6. Evicted(id) = IF "id" \in main.evicts THEN EvictId(two, who) ELSE two
  BY DEF Evicted, one
<1>7. request.command \in {"chown", "delete", "rename"} => "id" \in main.evicts
  BY <1>0, ItemIs, MainIs
<1> HIDE DEF two, who
<1>8. CASE "id" \in main.evicts
  BY <1>3, <1>5, <1>6, <1>8, EvictIdAgrees DEF who
<1>9. CASE "id" \notin main.evicts
  BY <1>5, <1>6, <1>7, <1>9
<1> QED
  BY <1>8, <1>9

\* What comes first in a sequence.
LEMMA HeadIn == ASSUME NEW S, NEW s \in Seq(S), s # <<>> PROVE Head(s) \in S
  OBVIOUS

\* The empty sequence is one of everything.
LEMMA EmptyIn == ASSUME NEW S PROVE <<>> \in Seq(S)
  OBVIOUS

\* The IDs whose names are needed.
LEMMA ShowsIds ==
  ASSUME KInv, XInv, RInv, request \in Requests, NamesNeeded = {}
  PROVE  IdsToShow \subseteq Ids
<1>1. CASE pc = "item"
  <2>1. CASE main.shows_name /\ ~Unknown
    <3>1. request.command \in {"chown", "delete"}
      BY <2>1, ItemIs, MainIs
    <3>2. item.who \in Names \cup Ids /\ item.who \in Operands(item)
      BY <3>1, ItemIs, Apart DEF Operands
    <3>3. IdOf(item.who) \in Ids
      BY <1>1, <2>1, <3>2, KnownHasId
    <3> QED
      BY <1>1, <3>3 DEF IdsToShow
  <2>2. CASE ~(main.shows_name /\ ~Unknown)
    BY <1>1, <2>2 DEF IdsToShow
  <2> QED
    BY <2>1, <2>2
<1>2. CASE pc \in {"report", "display"}
  <2>1. results \in Seq([of : Ids, show : SUBSET Ids]) /\ results # <<>>
    BY <1>2 DEF RInv
  <2>2. Head(results) \in [of : Ids, show : SUBSET Ids]
    BY <2>1, HeadIn
  <2> QED
    BY <1>2, <2>2 DEF IdsToShow
<1>3. CASE pc \notin {"item", "report", "display"}
  BY <1>3 DEF IdsToShow
<1> QED
  BY <1>1, <1>2, <1>3

\* What is shown after the loop is not empty.
LEMMA ShowKeeps ==
  ASSUME NEW res \in Seq([of : Ids, show : SUBSET Ids]), Show(res), results' = res
  PROVE  RInv'
<1>1. pc' = "ended" \/ (pc' \in {"member", "display"} /\ res # <<>>)
  BY DEF Show, End
<1> QED
  BY <1>1 DEF RInv

LEMMA NextItemShows ==
  ASSUME NEW res \in Seq([of : Ids, show : SUBSET Ids]), pc = "item", NextItem(res)
  PROVE  RInv'
<1>1. results' = res
  BY DEF NextItem
<1>2. CASE Show(res)
  BY <1>1, <1>2, ShowKeeps
<1>3. CASE UNCHANGED pc
  BY <1>1, <1>3 DEF RInv
<1> QED
  BY <1>2, <1>3 DEF NextItem

LEMMA RInvKept == MInv /\ [Next]_vars => RInv'
<1> SUFFICES ASSUME MInv, [Next]_vars PROVE RInv'
  OBVIOUS
<1> DEFINE R == [of : Ids, show : SUBSET Ids]
<1>0. KInv /\ XInv /\ request \in Requests /\ RInv /\ results \in Seq(R)
  BY DEF MInv, RInv
<1>1. CASE UNCHANGED <<results, pc>>
  BY <1>0, <1>1 DEF RInv
<1>2. CASE UNCHANGED results /\ pc' = "ended"
  BY <1>0, <1>2 DEF RInv
<1>3. ASSUME pc = "item", GoOnAfterError PROVE RInv'
  BY <1>0, <1>3, ShowKeeps, NextItemShows DEF GoOnAfterError
<1>4. CASE LookUpNames \/ LookUpIds \/ Rival
  BY <1>1, <1>4 DEF LookUpNames, LookUpIds, Rival, control
<1>5. CASE UnknownOperand
  BY <1>2, <1>3, <1>5 DEF UnknownOperand, Unknown, End
<1>6. CASE ListedBefore
  BY <1>0, <1>6, NextItemShows DEF ListedBefore, AlreadyListed
<1>7. CASE Succeed
  <2>1. /\ pc = "item" /\ OperationDue
        /\ \/ UNCHANGED results /\ pc' = "ended"
           \/ main.lists /\ \E ids \in SUBSET Ids :
                LET own == IF request.command = "listowned" THEN {IdOf(item.who)} ELSE {}
                IN NextItem(Append(results, Result(ids \cup own)))
           \/ NextItem(results)
    BY <1>7 DEF Succeed, OperationDue, End
  <2>2. CASE main.lists /\ \E ids \in SUBSET Ids :
                LET own == IF request.command = "listowned" THEN {IdOf(item.who)} ELSE {}
                IN NextItem(Append(results, Result(ids \cup own)))
    <3>1. item.who \in Names \cup Ids
      BY <1>0, <2>2, ItemIs, MainIs
    <3>2. IdOf(item.who) \in Ids
      BY <1>0, <2>1, <3>1, WhoHasId, Apart
    <3>3. PICK ids \in SUBSET Ids : NextItem(Append(results, Result(ids)))
      BY <2>2, <3>2
    <3>4. Append(results, Result(ids)) \in Seq(R)
      BY <1>0, <3>2 DEF Result
    <3> QED
      BY <2>1, <3>3, <3>4, NextItemShows
  <2>3. CASE NextItem(results)
    BY <1>0, <2>1, <2>3, NextItemShows
  <2> QED
    BY <1>2, <2>1, <2>2, <2>3
<1>8. CASE Fail
  <2>1. PICK answer \in Aborts :
        /\ pc = "item" /\ OperationDue
        /\ \/ UNCHANGED results /\ pc' = "ended"
           \/ /\ ToReport(answer) # {}
              /\ pc' = "report" /\ results' = <<Result(ToReport(answer))>>
           \/ GoOnAfterError
    BY <1>8 DEF Fail, OperationDue, End
  <2>2. CASE ToReport(answer) # {} /\ pc' = "report" /\ results' = <<Result(ToReport(answer))>>
    <3>1. request.command \in {"chown", "rename"}
      BY <2>2 DEF ToReport
    <3>2. IdOf(item.who) \in Ids
      BY <1>0, <2>1, <3>1, ItemIs, WhoHasId, Apart
    <3>3. request.command = "chown" => IdOf(item.whom) \in Ids
      <4> SUFFICES ASSUME request.command = "chown" PROVE IdOf(item.whom) \in Ids
        OBVIOUS
      <4>1. item.whom \in Names \cup Ids /\ item.whom \in Operands(item)
        BY <1>0, ItemIs, Apart DEF Operands
      <4> QED
        BY <1>0, <2>1, <4>1, KnownHasId DEF OperationDue
    <3>4. ToReport(answer) \subseteq Ids
      BY <3>2, <3>3 DEF ToReport
    <3>5. Result(ToReport(answer)) \in R
      BY <3>2, <3>4 DEF Result
    <3> QED
      BY <2>2, <3>5 DEF RInv
  <2> QED
    BY <1>2, <1>3, <2>1, <2>2
<1>9. CASE Report
  BY <1>2, <1>9 DEF Report, End
<1>10. CASE AskMembership
  BY <1>0, <1>10 DEF AskMembership, End, RInv
<1>11. CASE Display
  <2>1. results' = Tail(results) /\ Show(results') /\ results # <<>>
    BY <1>0, <1>11 DEF Display, RInv
  <2>2. Tail(results) \in Seq(R)
    BY <1>0, <2>1
  <2> QED
    BY <2>1, <2>2, ShowKeeps
<1>12. CASE NotCarriedOut \/ AnswerLost
  BY <1>1, <1>2, <1>12 DEF NotCarriedOut, AnswerLost, GiveUpServer, End
<1>13. CASE UNCHANGED vars
  BY <1>1, <1>13 DEF vars, control
<1> QED
  BY <1>4, <1>5, <1>6, <1>7, <1>8, <1>9, <1>10, <1>11, <1>12, <1>13 DEF Next, Run

\* What a call that succeeds does to the names, when who is the entry it is for
\* and id the ID of one that is made.
Changed(who, id) ==
  \/ UNCHANGED entries
  \/ /\ request.command \in {"createuser", "creategroup"}
     /\ item.new_name \in Names /\ entries[item.new_name] = None /\ ~Bound(id)
     /\ Bind(item.new_name, id)
  \/ /\ request.command \in {"rename", "chown"} /\ who \in Ids
     /\ Bound(who)
     /\ \E m \in Names : (entries[m] = None \/ entries[m] = who) /\ Bind(m, who)
  \/ request.command = "delete" /\ who \in Ids /\ Unbind(who)

LEMMA ServedChanges ==
  ASSUME MInv, OperationDue, NEW id \in Ids, Served("ok", id)
  PROVE  Changed(IdOf(item.who), id)
<1> DEFINE who == IdOf(item.who)
<1>0. KInv /\ XInv /\ request \in Requests
  BY DEF MInv
<1>1. request.command \in {"chown", "delete", "rename"} => who \in Ids
  BY <1>0, ItemIs, WhoHasId, Apart
<1>2. request.command \in {"createuser", "creategroup"} => item.new_name \in Names
  BY <1>0, ItemIs
<1> HIDE DEF who
<1>3. CASE UNCHANGED database
  BY <1>3 DEF database, Changed
<1>4. CASE request.command = "adduser" /\ PR_AddToGroup(who, IdOf(item.whom), "ok")
  BY <1>4 DEF PR_AddToGroup, database, Changed
<1>5. CASE request.command = "removeuser" /\ PR_RemoveFromGroup(who, IdOf(item.whom), "ok")
  BY <1>5 DEF PR_RemoveFromGroup, database, Changed
<1>6. CASE /\ request.command \in {"createuser", "creategroup"}
           /\ PR_NewEntry(item.new_name, id, "ok") \/ PR_INewEntry(item.new_name, id, "ok")
  <2>1. entries[item.new_name] = None /\ ~Exists(id) /\ Bind(item.new_name, id)
    BY <1>6 DEF PR_NewEntry, PR_INewEntry
  <2> QED
    BY <1>2, <1>6, <2>1, ExistsIsBound DEF Changed
<1>7. CASE request.command \in {"rename", "chown"} /\ PR_ChangeEntry(who, item.new_name, "ok")
  <2>1. /\ Exists(who)
        /\ \E m \in Names : (entries[m] = None \/ entries[m] = who) /\ Bind(m, who)
    BY <1>7 DEF PR_ChangeEntry
  <2> QED
    BY <1>1, <1>7, <2>1, ExistsIsBound DEF Changed, who
<1>8. CASE request.command = "delete" /\ PR_Delete(who, "ok")
  <2>1. Unbind(who)
    BY <1>8 DEF PR_Delete
  <2> QED
    BY <1>1, <1>8, <2>1 DEF Changed, who
<1>9. CASE PR_ListEntry(who, "ok")
  BY <1>3, <1>9 DEF PR_ListEntry
<1> QED
  BY <1>3, <1>4, <1>5, <1>6, <1>7, <1>8, <1>9 DEF Served, who

\* Binding a name, or unbinding an ID, keeps IDs to one name.
LEMMA BindKeepsOneToOne ==
  ASSUME KInv, OneToOne, NEW u \in Ids,
         (\E n \in Names : Bind(n, u)) \/ Unbind(u)
  PROVE  OneToOne'
<1>1. CASE Unbind(u)
  BY <1>1, Apart DEF Unbind, OneToOne, KInv
<1>2. CASE \E n \in Names : Bind(n, u)
  <2>1. PICK n \in Names : Bind(n, u)
    BY <1>2
  <2>2. \A m \in Names : entries'[m] = IF m = n THEN u ELSE IF entries[m] = u THEN None ELSE entries[m]
    BY <2>1 DEF Bind
  <2> QED
    BY <2>2, Apart DEF OneToOne
<1> QED
  BY <1>1, <1>2

\* What the cache has of the entries that a call does not change stays as true as
\* it was; of the entry it is for, it may have become the old name.
AsTrue(n, u, who) ==
  \/ entries'[n] = u
  \/ request.command = "delete" /\ entries'[n] = None /\ ~Bound(u)'
  \/ /\ request.command \in {"rename", "chown"} /\ u = who
     /\ entries'[n] = None /\ Bound(u)'

LEMMA StaysTrue ==
  ASSUME MInv, rivals = 0, OperationDue, NEW id \in Ids, Changed(IdOf(item.who), id),
         NEW n \in Names, NEW u \in Ids, name2id[n] = u
  PROVE  AsTrue(n, u, IdOf(item.who))
<1> DEFINE who == IdOf(item.who)
<1>0. KInv /\ OneToOne
  BY DEF MInv
<1>1. pc = "item"
  BY DEF OperationDue
<1>2. \/ entries[n] = u
      \/ request.command = "delete" /\ entries[n] = None /\ ~Bound(u)
      \/ /\ request.command \in {"rename", "chown"} /\ u = who
         /\ entries[n] = None /\ Bound(u)
  BY <1>1 DEF MInv, CacheIsTrue, Gone, Moved
<1> HIDE DEF who
<1>3. CASE UNCHANGED entries
  BY <1>2, <1>3 DEF AsTrue, Bound, who
<1>4. CASE /\ request.command \in {"createuser", "creategroup"}
           /\ item.new_name \in Names /\ entries[item.new_name] = None /\ ~Bound(id)
           /\ Bind(item.new_name, id)
  <2>1. entries[n] = u
    BY <1>2, <1>4
  <2>2. entries'[n] = u
    BY <1>4, <2>1, Apart DEF Bind, Bound
  <2> QED
    BY <2>2 DEF AsTrue
<1>5. CASE /\ request.command \in {"rename", "chown"} /\ who \in Ids /\ Bound(who)
           /\ \E m \in Names : (entries[m] = None \/ entries[m] = who) /\ Bind(m, who)
  <2>1. PICK m \in Names : (entries[m] = None \/ entries[m] = who) /\ Bind(m, who)
    BY <1>5
  <2>2. \A k \in Names : entries'[k] = IF k = m THEN who ELSE IF entries[k] = who THEN None ELSE entries[k]
    BY <2>1 DEF Bind
  <2>3. \E k \in Names : entries'[k] = who
    BY <2>2
  <2>4. CASE u = who
    <3>1. entries[n] = None \/ entries[n] = who
      BY <1>2, <2>4
    <3>2. entries'[n] = who \/ entries'[n] = None
      BY <2>2, <3>1
    <3> QED
      BY <1>5, <2>3, <2>4, <3>2 DEF AsTrue, Bound, who
  <2>5. CASE u # who
    <3>1. entries[n] = u
      BY <1>2, <1>5, <2>5
    <3>2. entries'[n] = u
      BY <2>1, <2>2, <2>5, <3>1, Apart
    <3> QED
      BY <3>2 DEF AsTrue
  <2> QED
    BY <2>4, <2>5
<1>6. CASE request.command = "delete" /\ who \in Ids /\ Unbind(who)
  <2>1. \A k \in Names : entries'[k] = IF entries[k] = who THEN None ELSE entries[k]
    BY <1>6 DEF Unbind
  <2>2. CASE u = who
    <3>1. entries[n] = None \/ entries[n] = who
      BY <1>2, <1>6, <2>2
    <3>2. entries'[n] = None
      BY <2>1, <3>1
    <3>3. ~Bound(u)'
      BY <1>6, <2>1, <2>2, Apart DEF Bound
    <3> QED
      BY <1>6, <3>2, <3>3 DEF AsTrue
  <2>3. CASE u # who
    <3>1. CASE entries[n] = u
      BY <2>1, <2>3, <3>1 DEF AsTrue
    <3>2. CASE entries[n] = None /\ ~Bound(u)
      <4>1. entries'[n] = None
        BY <2>1, <3>2
      <4>2. ~Bound(u)'
        BY <2>1, <3>2, Apart DEF Bound
      <4> QED
        BY <1>6, <4>1, <4>2 DEF AsTrue
    <3> QED
      BY <1>2, <1>6, <3>1, <3>2
  <2> QED
    BY <2>2, <2>3
<1> QED
  BY <1>3, <1>4, <1>5, <1>6 DEF Changed, who

\* Where a look-up is made, the cache can only have wrong what no longer exists, or,
\* for a report, names that do not exist.
LEMMA LookUpAgrees ==
  ASSUME MInv, LookUpNames \/ LookUpIds
  PROVE  MInv'
<1>0. /\ KInv /\ XInv /\ RInv /\ request \in Requests /\ rivals \in Nat /\ OneToOne
      /\ LooksUpUnknown /\ MapsAgree /\ CacheIsTrue
  BY DEF MInv
<1>1. UNCHANGED <<entries, request, at, pc, results, exitcode, end, named, acted, done, rivals>>
  BY DEF LookUpNames, LookUpIds, database, control, history
<1>2. KInv' /\ XInv' /\ RInv'
  BY <1>0, KInvKept, XInvKept, RInvKept DEF Next, Run
<1>3. pc # "ended" /\ ~OperationDue
  BY DEF LookUpNames, LookUpIds, NamesNeeded, IdsNeeded, IdsToShow, OperationDue
<1>4. request' \in Requests /\ rivals' \in Nat /\ OneToOne'
  BY <1>0, <1>1 DEF OneToOne
<1>5. rivals = 0 => \A n \in Names, u \in Ids :
        name2id[n] = u =>
          \/ entries[n] = u
          \/ request.command = "delete" /\ entries[n] = None /\ ~Bound(u)
          \/ request.command \in {"rename", "chown"} /\ entries[n] = None /\ pc = "report"
  BY <1>0, <1>3 DEF CacheIsTrue, Gone, Moved
<1>6. CASE LookUpNames
  <2>1. PICK batch \in SUBSET Names, found \in SUBSET Ids :
        /\ batch = names_to_lookup \cup NamesNeeded
        /\ found = {entries[n] : n \in batch} \ {None}
        /\ name2id' = [n \in Names |-> IF n \in batch THEN entries[n] ELSE name2id[n]]
        /\ id2name' = [u \in Ids |-> IF u \in found THEN NameOf(u) ELSE id2name[u]]
        /\ ids_to_lookup' = ids_to_lookup \ found
        /\ names_to_lookup' = {}
    <3> DEFINE B == names_to_lookup \cup NamesNeeded
               F == {entries[n] : n \in B} \ {None}
    <3>1. B \in SUBSET Names
      BY <1>0 DEF LooksUpUnknown, NamesNeeded
    <3>2. F \in SUBSET Ids
      BY <1>0, <3>1 DEF KInv
    <3>3. /\ name2id' = [n \in Names |-> IF n \in B THEN entries[n] ELSE name2id[n]]
          /\ id2name' = [u \in Ids |-> IF u \in F THEN NameOf(u) ELSE id2name[u]]
          /\ ids_to_lookup' = ids_to_lookup \ F
          /\ names_to_lookup' = {}
      BY <1>6 DEF LookUpNames, Reply
    <3> QED
      BY <3>1, <3>2, <3>3
  <2>2. pc = "item" /\ \A n \in batch : name2id[n] = Absent
    BY <1>0, <1>6, <2>1 DEF LookUpNames, NamesNeeded, LooksUpUnknown
  <2>3. LooksUpUnknown'
    BY <1>0, <2>1 DEF LooksUpUnknown
  <2>4. ASSUME rivals = 0
        PROVE  /\ \A n \in Names, u \in Ids : name2id'[n] = u <=> id2name'[u] = n
               /\ \A n \in Names, u \in Ids : name2id'[n] = u => entries[n] = u \/ name2id[n] = u
    <3> SUFFICES ASSUME NEW n \in Names, NEW u \in Ids
                 PROVE  /\ name2id'[n] = u <=> id2name'[u] = n
                        /\ name2id'[n] = u => entries[n] = u \/ name2id[n] = u
      OBVIOUS
    <3>1. name2id[n] = u <=> id2name[u] = n
      BY <1>0, <2>4 DEF MapsAgree
    <3>2. u \in found => NameOf(u) \in Names /\ entries[NameOf(u)] = u
      BY <2>1, NameOfIs, ExistsIsBound DEF Exists, Bound
    <3>3. CASE n \in batch
      <4>1. name2id'[n] = entries[n] /\ name2id[n] = Absent
        BY <2>1, <2>2, <3>3
      <4>2. id2name[u] # n
        BY <3>1, <4>1, Apart
      <4>3. CASE entries[n] = u
        <5>1. u \in found
          BY <2>1, <3>3, <4>3, Apart
        <5>2. NameOf(u) = n
          BY <1>0, <3>2, <4>3, <5>1, Apart DEF OneToOne
        <5>3. id2name'[u] = n
          BY <2>1, <5>1, <5>2
        <5> QED
          BY <4>1, <4>3, <5>3
      <4>4. CASE entries[n] # u
        <5>1. id2name'[u] # n
          BY <2>1, <3>2, <4>2, <4>4
        <5> QED
          BY <4>1, <4>4, <5>1
      <4> QED
        BY <4>3, <4>4
    <3>4. CASE n \notin batch
      <4>1. name2id'[n] = name2id[n]
        BY <2>1, <3>4
      <4>2. CASE u \in found
        <5>1. PICK m \in batch : entries[m] = u
          BY <2>1, <4>2
        <5>2. n # m /\ entries[n] # u
          BY <1>0, <3>4, <4>2, <5>1, Apart DEF OneToOne
        <5>3. name2id[n] # u
          BY <1>5, <2>2, <2>4, <5>1, <5>2 DEF Bound
        <5>4. id2name'[u] # n
          BY <2>1, <3>2, <4>2, <5>2
        <5> QED
          BY <4>1, <5>3, <5>4
      <4>3. CASE u \notin found
        <5>1. id2name'[u] = id2name[u]
          BY <2>1, <4>3
        <5> QED
          BY <3>1, <4>1, <5>1
      <4> QED
        BY <4>2, <4>3
    <3> QED
      BY <3>3, <3>4
  <2>5. MapsAgree'
    BY <1>0, <1>1, <2>4 DEF MapsAgree
  <2>6. CacheIsTrue'
    BY <1>1, <1>5, <2>2, <2>4 DEF CacheIsTrue, Gone, Bound
  <2> QED
    BY <1>2, <1>4, <2>3, <2>5, <2>6 DEF MInv
<1>7. CASE LookUpIds
  <2>1. PICK batch \in SUBSET Ids, found \in SUBSET Names :
        /\ batch = ids_to_lookup \cup IdsNeeded
        /\ found = {NameOf(u) : u \in batch} \ {None}
        /\ id2name' = [u \in Ids |-> IF u \in batch THEN NameOf(u) ELSE id2name[u]]
        /\ name2id' = [n \in Names |-> IF n \in found THEN entries[n] ELSE name2id[n]]
        /\ names_to_lookup' = names_to_lookup \ found
        /\ ids_to_lookup' = {}
    <3> DEFINE B == ids_to_lookup \cup IdsNeeded
               F == {NameOf(u) : u \in B} \ {None}
    <3>1. B \in SUBSET Ids
      BY <1>0, ShowsIds DEF LooksUpUnknown, IdsNeeded
    <3>2. F \in SUBSET Names
      BY <3>1, NameOfIs
    <3>3. /\ id2name' = [u \in Ids |-> IF u \in B THEN NameOf(u) ELSE id2name[u]]
          /\ name2id' = [n \in Names |-> IF n \in F THEN entries[n] ELSE name2id[n]]
          /\ names_to_lookup' = names_to_lookup \ F
          /\ ids_to_lookup' = {}
      BY <1>7 DEF LookUpIds
    <3> QED
      BY <3>1, <3>2, <3>3
  <2>2. \A u \in batch : id2name[u] = Absent
    BY <1>0, <2>1 DEF IdsNeeded, LooksUpUnknown
  <2>3. LooksUpUnknown'
    BY <1>0, <2>1 DEF LooksUpUnknown
  <2>4. ASSUME rivals = 0
        PROVE  /\ \A n \in Names, u \in Ids : name2id'[n] = u <=> id2name'[u] = n
               /\ \A n \in Names, u \in Ids : name2id'[n] = u => entries[n] = u \/ name2id[n] = u
    <3> SUFFICES ASSUME NEW n \in Names, NEW u \in Ids
                 PROVE  /\ name2id'[n] = u <=> id2name'[u] = n
                        /\ name2id'[n] = u => entries[n] = u \/ name2id[n] = u
      OBVIOUS
    <3>1. name2id[n] = u <=> id2name[u] = n
      BY <1>0, <2>4 DEF MapsAgree
    <3>2. CASE u \in batch
      <4>1. id2name'[u] = NameOf(u) /\ id2name[u] = Absent
        BY <2>1, <2>2, <3>2
      <4>2. name2id[n] # u
        BY <3>1, <4>1, Apart
      <4>3. CASE NameOf(u) = n
        <5>1. n \in found /\ entries[n] = u
          BY <2>1, <3>2, <4>3, NameOfIs, Apart
        <5> QED
          BY <2>1, <4>1, <4>3, <5>1
      <4>4. CASE NameOf(u) # n
        <5>1. entries[n] # u
          <6> SUFFICES ASSUME entries[n] = u PROVE FALSE
            OBVIOUS
          <6>1. NameOf(u) \in Names /\ entries[NameOf(u)] = u
            BY NameOfIs, ExistsIsBound DEF Exists, Bound
          <6> QED
            BY <1>0, <4>4, <6>1, Apart DEF OneToOne
        <5> QED
          BY <2>1, <4>1, <4>2, <4>4, <5>1
      <4> QED
        BY <4>3, <4>4
    <3>3. CASE u \notin batch
      <4>1. id2name'[u] = id2name[u]
        BY <2>1, <3>3
      <4>2. CASE n \in found
        <5>1. PICK v \in batch : n = NameOf(v)
          BY <2>1, <4>2
        <5>2. entries[n] = v /\ u # v /\ id2name[v] = Absent
          BY <2>2, <3>3, <5>1, NameOfIs
        <5>3. name2id[n] # u
          BY <1>5, <2>4, <5>1, <5>2, Apart
        <5>4. name2id'[n] = v
          BY <2>1, <4>2, <5>2
        <5> QED
          BY <3>1, <4>1, <5>2, <5>3, <5>4
      <4>3. CASE n \notin found
        <5>1. name2id'[n] = name2id[n]
          BY <2>1, <4>3
        <5> QED
          BY <3>1, <4>1, <5>1
      <4> QED
        BY <4>2, <4>3
    <3> QED
      BY <3>2, <3>3
  <2>5. MapsAgree'
    BY <1>0, <1>1, <2>4 DEF MapsAgree
  <2>6. CacheIsTrue'
    <3> SUFFICES ASSUME rivals = 0, NEW n \in Names, NEW u \in Ids, name2id'[n] = u
                 PROVE  (entries[n] = u \/ Gone(n, u) \/ Moved(n, u))'
      BY <1>1 DEF CacheIsTrue
    <3>1. entries[n] = u \/ name2id[n] = u
      BY <2>4
    <3> QED
      BY <1>1, <1>5, <3>1 DEF Gone, Moved, Bound
  <2> QED
    BY <1>2, <1>4, <2>3, <2>5, <2>6 DEF MInv
<1> QED
  BY <1>6, <1>7

\* When nothing is due and nothing is reported, the cache has nothing wrong but what
\* no longer exists.
LEMMA Settled ==
  ASSUME MInv, rivals = 0, pc \notin {"report", "ended"}, ~OperationDue,
         NEW n \in Names, NEW u \in Ids, name2id[n] = u
  PROVE  entries[n] = u \/ Gone(n, u)
  BY DEF MInv, CacheIsTrue, Moved

\* And so it stays as long as names and cache do.
LEMMA SettledStays ==
  ASSUME MInv, pc \notin {"report", "ended"}, ~OperationDue,
         UNCHANGED <<entries, name2id, request, rivals>>
  PROVE  CacheIsTrue'
<1> SUFFICES ASSUME rivals = 0, NEW n \in Names, NEW u \in Ids, name2id[n] = u
             PROVE  (entries[n] = u \/ Gone(n, u) \/ Moved(n, u))'
  BY DEF CacheIsTrue
<1>1. entries[n] = u \/ Gone(n, u)
  BY Settled
<1> QED
  BY <1>1 DEF Gone, Bound

\* Steps of the command that change neither the names nor the cache.
LEMMA CacheKept ==
  ASSUME MInv, Next, CacheIsTrue', end' # "KeyError",
         UNCHANGED <<entries, name2id, id2name, names_to_lookup, ids_to_lookup, request, rivals>>
  PROVE  MInv'
<1>1. KInv' /\ XInv' /\ RInv'
  BY KInvKept, XInvKept, RInvKept DEF MInv
<1>2. request' \in Requests /\ rivals' \in Nat /\ OneToOne' /\ LooksUpUnknown'
  BY DEF MInv, OneToOne, LooksUpUnknown
<1>3. MapsAgree'
  BY DEF MInv, MapsAgree
<1> QED
  BY <1>1, <1>2, <1>3 DEF MInv

\* A call that succeeds.
LEMMA SucceedAgrees ==
  ASSUME MInv, Succeed
  PROVE  MInv'
<1> DEFINE who == IdOf(item.who)
<1>0. /\ KInv /\ XInv /\ RInv /\ request \in Requests /\ rivals \in Nat /\ OneToOne
      /\ LooksUpUnknown /\ MapsAgree /\ CacheIsTrue
  BY DEF MInv
<1>1. PICK id \in Ids :
      /\ Served("ok", id)
      /\ name2id' = Evicted(id).name2id /\ id2name' = Evicted(id).id2name
      /\ IF Evicted(id).error THEN End("KeyError") /\ UNCHANGED ids_to_lookup
         ELSE \/ /\ main.lists
                 /\ \E ids \in SUBSET Ids :
                      ids_to_lookup' = ids_to_lookup \cup {u \in ids : id2name[u] = Absent}
              \/ UNCHANGED ids_to_lookup
      /\ ~Evicted(id).error => \E res : NextItem(res)
  BY DEF Succeed
<1>2. OperationDue /\ pc = "item" /\ UNCHANGED <<request, rivals, names_to_lookup>>
  BY DEF Succeed, OperationDue
<1>3. KInv' /\ XInv' /\ RInv' /\ request' \in Requests /\ rivals' \in Nat
  BY <1>0, <1>2, KInvKept, XInvKept, RInvKept DEF Next, Run
<1>4. Changed(who, id)
  BY <1>1, <1>2, ServedChanges
<1>5. OneToOne'
  <2>1. CASE UNCHANGED entries
    BY <1>0, <2>1 DEF OneToOne
  <2>2. CASE \E u \in Ids : (\E n \in Names : Bind(n, u)) \/ Unbind(u)
    BY <1>0, <2>2, BindKeepsOneToOne
  <2> QED
    BY <1>4, <2>1, <2>2 DEF Changed
<1>6. Forgets(Maps, Evicted(id))
  BY <1>0, EvictedForgets
<1>7. /\ \A n \in Names : name2id'[n] = name2id[n] \/ name2id'[n] = Absent
      /\ \A u \in Ids : id2name'[u] = id2name[u] \/ id2name'[u] = Absent
  BY <1>1, <1>6 DEF Forgets, Maps
<1>8. LooksUpUnknown'
  <2>1. ids_to_lookup' \subseteq Ids /\ \A u \in ids_to_lookup' : id2name[u] = Absent
    BY <1>0, <1>1 DEF LooksUpUnknown
  <2> QED
    BY <1>0, <1>2, <1>7, <2>1 DEF LooksUpUnknown
<1>9. ASSUME rivals = 0
      PROVE  /\ \A n \in Names, u \in Ids : name2id'[n] = u <=> id2name'[u] = n
             /\ end' # "KeyError"
             /\ request.command \in {"chown", "delete", "rename"} => id2name'[who] = Absent
  <2>1. /\ Agreeing(Evicted(id))
        /\ request.command \in {"chown", "delete", "rename"} =>
             Evicted(id).id2name[who] = Absent
    BY <1>2, <1>9, EvictedAgrees
  <2>2. \E res : NextItem(res)
    BY <1>1, <2>1 DEF Agreeing
  <2>3. end' # "KeyError"
    BY <1>0, <1>2, <2>2 DEF NextItem, Show, End, XInv
  <2> QED
    BY <1>1, <2>1, <2>3 DEF Agreeing
<1>10. MapsAgree'
  BY <1>2, <1>9 DEF MapsAgree
<1>11. CacheIsTrue'
  <2> SUFFICES ASSUME rivals = 0, NEW n \in Names, NEW u \in Ids, name2id'[n] = u
               PROVE  (entries[n] = u \/ Gone(n, u))'
    BY <1>2 DEF CacheIsTrue
  <2>1. name2id[n] = u
    BY <1>7, Apart
  <2>2. AsTrue(n, u, who)
    BY <1>2, <1>4, <2>1, StaysTrue
  <2>3. request.command \in {"rename", "chown"} => u # who
    BY <1>9, Apart
  <2> HIDE DEF who
  <2> QED
    BY <1>2, <2>2, <2>3 DEF AsTrue, Gone, Bound
<1> QED
  BY <1>3, <1>5, <1>8, <1>10, <1>11 DEF MInv

\* A call that the server carries out without being heard: the old name of the entry
\* may stay in the cache until the call is repeated.
LEMMA AnswerLostAgrees ==
  ASSUME MInv, AnswerLost
  PROVE  MInv'
<1> DEFINE who == IdOf(item.who)
<1>0. /\ KInv /\ XInv /\ RInv /\ request \in Requests /\ rivals \in Nat /\ OneToOne
      /\ LooksUpUnknown /\ MapsAgree /\ CacheIsTrue
  BY DEF MInv
<1>1. PICK id \in Ids : Served("ok", id)
  BY DEF AnswerLost
<1>2. /\ OperationDue /\ pc = "item"
      /\ UNCHANGED <<request, at, results, name2id, id2name, names_to_lookup, ids_to_lookup, rivals>>
      /\ (pc' = "ended" /\ end' = "CellError") \/ UNCHANGED <<pc, end>>
  BY DEF AnswerLost, OperationDue, GiveUpServer, End, cache, maps
<1>3. KInv' /\ XInv' /\ RInv' /\ request' \in Requests /\ rivals' \in Nat
  BY <1>0, <1>2, KInvKept, XInvKept, RInvKept DEF Next, Run
<1>4. Changed(who, id)
  BY <1>1, <1>2, ServedChanges
<1>5. OneToOne'
  <2>1. CASE UNCHANGED entries
    BY <1>0, <2>1 DEF OneToOne
  <2>2. CASE \E u \in Ids : (\E n \in Names : Bind(n, u)) \/ Unbind(u)
    BY <1>0, <2>2, BindKeepsOneToOne
  <2> QED
    BY <1>4, <2>1, <2>2 DEF Changed
<1>6. LooksUpUnknown' /\ MapsAgree'
  BY <1>0, <1>2 DEF LooksUpUnknown, MapsAgree
<1>7. CacheIsTrue'
  <2> SUFFICES ASSUME rivals = 0, pc' # "ended", NEW n \in Names, NEW u \in Ids, name2id[n] = u
               PROVE  (entries[n] = u \/ Gone(n, u) \/ Moved(n, u))'
    BY <1>2 DEF CacheIsTrue
  <2>1. AsTrue(n, u, who)
    BY <1>2, <1>4, StaysTrue
  <2>2. UNCHANGED <<pc, item, main>>
    BY <1>2 DEF item, main
  <2>3. OperationDue' /\ who' = who
    BY <1>2, <2>2 DEF OperationDue, NamesNeeded, IdsNeeded, IdsToShow, Unknown, AlreadyListed,
                      IdOf, Operands
  <2> HIDE DEF who
  <2> QED
    BY <1>2, <2>1, <2>3 DEF AsTrue, Gone, Moved, Bound, who
<1> QED
  BY <1>3, <1>5, <1>6, <1>7 DEF MInv

\* A call that the server refuses: the entry whose old name is in the cache exists, so
\* that the command ends or reports.
LEMMA FailAgrees ==
  ASSUME MInv, Fail
  PROVE  MInv'
<1> DEFINE who == IdOf(item.who)
<1>0. /\ KInv /\ XInv /\ RInv /\ request \in Requests /\ rivals \in Nat /\ OneToOne
      /\ LooksUpUnknown /\ MapsAgree /\ CacheIsTrue
  BY DEF MInv
<1>1. PICK answer \in Aborts, id \in Ids :
      /\ Served(answer, id)
      /\ \/ End("Abort") /\ UNCHANGED <<ids_to_lookup, id2name>>
         \/ /\ answer \in main.caught /\ IdIsUnknown(answer)
            /\ \/ ToReport(answer) # {} /\ pc' = "report" /\ UNCHANGED end
               \/ ToReport(answer) = {} /\ GoOnAfterError
  BY DEF Fail
<1>2. OperationDue /\ pc = "item" /\ UNCHANGED <<request, rivals, name2id, names_to_lookup>>
  BY DEF Fail, OperationDue, history
<1>3. KInv' /\ XInv' /\ RInv' /\ request' \in Requests /\ rivals' \in Nat
  BY <1>0, <1>2, KInvKept, XInvKept, RInvKept DEF Next, Run
<1>4. UNCHANGED entries
  BY <1>1 DEF Served, Aborts, PR_AddToGroup, PR_RemoveFromGroup, PR_NewEntry, PR_INewEntry,
              PR_ChangeEntry, PR_Delete, PR_ListEntry, database
<1>5. \/ UNCHANGED <<ids_to_lookup, id2name>>
      \/ /\ request.command \in {"setfields", "examine"} /\ who \in Ids
         /\ ids_to_lookup' = ids_to_lookup \ {who}
         /\ id2name' = IF id2name[who] = Absent THEN [id2name EXCEPT ![who] = None] ELSE id2name
  <2>1. request.command \in {"setfields", "examine"} => who \in Ids
    BY <1>0, <1>2, ItemIs, WhoHasId, Apart
  <2> QED
    BY <1>1, <2>1 DEF IdIsUnknown
<1>6. OneToOne' /\ LooksUpUnknown'
  BY <1>0, <1>2, <1>4, <1>5 DEF OneToOne, LooksUpUnknown, KInv
<1>7. end' # "KeyError"
  <2>1. end = ""
    BY <1>0, <1>2 DEF XInv
  <2> QED
    BY <1>1, <2>1 DEF GoOnAfterError, NextItem, Show, End
<1>8. MapsAgree'
  <2> SUFFICES ASSUME rivals = 0, NEW n \in Names, NEW u \in Ids
               PROVE  name2id[n] = u <=> id2name'[u] = n
    BY <1>2, <1>7 DEF MapsAgree
  <2>1. name2id[n] = u <=> id2name[u] = n
    BY <1>0 DEF MapsAgree
  <2>2. id2name'[u] = id2name[u] \/ (id2name[u] = Absent /\ id2name'[u] = None)
    BY <1>0, <1>5 DEF KInv
  <2> QED
    BY <2>1, <2>2, Apart
<1>9. CacheIsTrue'
  <2> SUFFICES ASSUME rivals = 0, pc' # "ended", NEW n \in Names, NEW u \in Ids, name2id[n] = u
               PROVE  (entries[n] = u \/ Gone(n, u) \/ Moved(n, u))'
    BY <1>2 DEF CacheIsTrue
  <2>1. entries[n] = u \/ Gone(n, u) \/ Moved(n, u)
    BY <1>0, <1>2 DEF CacheIsTrue
  <2>2. CASE entries[n] = u \/ Gone(n, u)
    BY <1>2, <1>4, <2>2 DEF Gone, Bound
  <2>3. CASE Moved(n, u)
    <3>1. request.command \in {"rename", "chown"} /\ entries[n] = None /\ u = who /\ Exists(who)
      BY <1>2, <2>3, ExistsIsBound DEF Moved
    <3>2. answer \in main.caught
      BY <1>1 DEF End
    <3>3. answer \in {"PRPERM", "PREXIST"}
      BY <1>1, <3>1 DEF Served, PR_ChangeEntry, Aborts
    <3>4. ToReport(answer) # {}
      BY <1>0, <3>1, <3>2, <3>3, ItemIs, MainIs DEF ToReport
    <3>5. pc' = "report"
      BY <1>1, <3>4 DEF End
    <3> QED
      BY <1>2, <1>4, <3>1, <3>5 DEF Moved
  <2> QED
    BY <2>1, <2>2, <2>3
<1> QED
  BY <1>3, <1>6, <1>8, <1>9 DEF MInv

\* Every step keeps it.
LEMMA MInvKept == MInv /\ [Next]_vars => MInv'
<1> SUFFICES ASSUME MInv, [Next]_vars PROVE MInv'
  OBVIOUS
<1>0. /\ KInv /\ XInv /\ RInv /\ request \in Requests /\ rivals \in Nat /\ OneToOne
      /\ LooksUpUnknown /\ MapsAgree /\ CacheIsTrue
  BY DEF MInv
<1>1. CASE LookUpNames \/ LookUpIds
  BY <1>1, LookUpAgrees
<1>2. CASE Succeed
  BY <1>2, SucceedAgrees
<1>3. CASE Fail
  BY <1>3, FailAgrees
<1>4. CASE AnswerLost
  BY <1>4, AnswerLostAgrees
<1>5. CASE UnknownOperand \/ ListedBefore \/ AskMembership \/ Display
  <2>1. /\ pc \notin {"report", "ended"} /\ ~OperationDue /\ end = ""
        /\ UNCHANGED <<entries, name2id, id2name, names_to_lookup, ids_to_lookup, request, rivals>>
    BY <1>0, <1>5 DEF UnknownOperand, Unknown, ListedBefore, AlreadyListed, AskMembership, Display,
                      OperationDue, database, cache, maps, XInv
  <2>2. end' # "KeyError"
    BY <1>5, <2>1 DEF UnknownOperand, ListedBefore, AskMembership, Display, GoOnAfterError,
                      NextItem, Show, End
  <2> QED
    BY <1>5, <2>1, <2>2, SettledStays, CacheKept DEF Next, Run
<1>6. CASE Report
  <2>1. /\ pc' = "ended" /\ end' = "normal"
        /\ UNCHANGED <<entries, name2id, id2name, names_to_lookup, ids_to_lookup, request, rivals>>
    BY <1>6 DEF Report, End, database, cache, maps
  <2> QED
    BY <1>6, <2>1, CacheKept DEF Next, Run, CacheIsTrue
<1>7. CASE NotCarriedOut
  <2>1. /\ (pc' = "ended" /\ end' = "CellError") \/ UNCHANGED <<pc, end>>
        /\ UNCHANGED <<entries, name2id, id2name, names_to_lookup, ids_to_lookup, request, rivals>>
        /\ UNCHANGED <<at, results>> /\ pc # "ended" /\ end = ""
    BY <1>0, <1>7 DEF NotCarriedOut, GiveUpServer, End, database, cache, maps, CallDue, XInv,
                      NamesNeeded, IdsNeeded, IdsToShow, OperationDue
  <2>2. CASE pc' = "ended"
    BY <1>7, <2>1, <2>2, CacheKept DEF Next, Run, CacheIsTrue
  <2>3. CASE UNCHANGED <<pc, end>>
    <3>1. UNCHANGED <<item, main>>
      BY <2>1 DEF item, main
    <3>2. OperationDue' = OperationDue /\ IdOf(item.who)' = IdOf(item.who)
      BY <2>1, <2>3, <3>1 DEF OperationDue, NamesNeeded, IdsNeeded, IdsToShow, Unknown,
                              AlreadyListed, IdOf, Operands
    <3>3. CacheIsTrue'
      BY <1>0, <2>1, <2>3, <3>2 DEF CacheIsTrue, Gone, Moved, Bound
    <3> QED
      BY <1>7, <2>1, <2>3, <3>3, CacheKept DEF Next, Run
  <2> QED
    BY <2>1, <2>2, <2>3
<1>8. CASE Rival
  <2>1. /\ rivals' = rivals + 1
        /\ UNCHANGED <<request, name2id, id2name, names_to_lookup, ids_to_lookup>>
        /\ \E u \in Ids : (\E n \in Names : Bind(n, u)) \/ Unbind(u)
    BY <1>8 DEF Rival, cache, maps
  <2>2. OneToOne'
    BY <1>0, <2>1, BindKeepsOneToOne
  <2>3. rivals' \in Nat /\ rivals' # 0
    BY <1>0, <2>1
  <2>4. MapsAgree' /\ CacheIsTrue'
    BY <2>3 DEF MapsAgree, CacheIsTrue
  <2>5. KInv' /\ XInv' /\ RInv' /\ LooksUpUnknown' /\ request' \in Requests
    BY <1>0, <1>8, <2>1, KInvKept, XInvKept, RInvKept DEF Next, LooksUpUnknown
  <2> QED
    BY <2>2, <2>3, <2>4, <2>5 DEF MInv
<1>9. CASE UNCHANGED vars
  <2>1. UNCHANGED <<entries, name2id, id2name, names_to_lookup, ids_to_lookup, request, rivals,
                    at, pc, results, end>>
    BY <1>9 DEF vars, database, cache, maps, control, history
  <2>2. UNCHANGED <<item, main>>
    BY <2>1 DEF item, main
  <2>3. OperationDue' = OperationDue /\ IdOf(item.who)' = IdOf(item.who)
    BY <2>1, <2>2 DEF OperationDue, NamesNeeded, IdsNeeded, IdsToShow, Unknown,
                      AlreadyListed, IdOf, Operands
  <2>4. CacheIsTrue'
    BY <1>0, <2>1, <2>3 DEF CacheIsTrue, Gone, Moved, Bound
  <2>5. KInv' /\ XInv' /\ RInv'
    BY <1>0, KInvKept, XInvKept, RInvKept
  <2>6. OneToOne' /\ LooksUpUnknown' /\ MapsAgree' /\ request' \in Requests /\ rivals' \in Nat
    BY <1>0, <2>1 DEF OneToOne, LooksUpUnknown, MapsAgree
  <2> QED
    BY <2>4, <2>5, <2>6 DEF MInv
<1> QED
  BY <1>1, <1>2, <1>3, <1>4, <1>5, <1>6, <1>7, <1>8, <1>9 DEF Next, Run

\* Two empty maps agree.
LEMMA InitM == Init => MInv
<1> SUFFICES ASSUME Init PROVE MInv
  OBVIOUS
<1>1. /\ KInv /\ XInv
  BY InitK, InitX
<1>2. /\ name2id = [n \in Names |-> Absent] /\ id2name = [u \in Ids |-> Absent]
      /\ \A m, n \in Names : entries[m] = entries[n] => m = n \/ entries[m] = None
      /\ request \in Requests /\ rivals = 0 /\ pc = "item" /\ results = <<>> /\ end = ""
      /\ names_to_lookup \subseteq Names /\ ids_to_lookup \subseteq Ids
  BY DEF Init
<1>3. /\ results \in Seq([of : Ids, show : SUBSET Ids])
      /\ pc \notin {"report", "member", "display"} /\ rivals \in Nat
  BY <1>2, EmptyIn
<1>4. RInv /\ OneToOne /\ LooksUpUnknown
  BY <1>2, <1>3 DEF RInv, OneToOne, LooksUpUnknown
<1>5. \A n \in Names, u \in Ids : name2id[n] # u /\ id2name[u] # n
  BY <1>2, Apart
<1>6. MapsAgree /\ CacheIsTrue
  BY <1>2, <1>5 DEF MapsAgree, CacheIsTrue
<1> QED
  BY <1>1, <1>2, <1>3, <1>4, <1>6 DEF MInv

\* The two directions of the cache agree as long as nobody else changes the
\* database, for every database and command line and any number of servers, whatever
\* is refused, not answered or repeated; so no eviction raises a KeyError.
THEOREM MapsAlwaysAgree == Spec => []MapsAgree
<1>1. MInv => MapsAgree
  BY DEF MInv
<1> QED
  BY <1>1, InitM, MInvKept, PTL DEF Spec

-----------------------------------------------------------------------------
(* A failure has a reason. *)

\* Nothing got lost and nobody interfered, and there are no results to be shown.
Undisturbed == lost = {} /\ rivals = 0 /\ ~main.lists
SomeUndone == \E k \in DOMAIN request.items : k \notin done

\* The inductive invariant: the items done are before the one at hand, and an
\* error is reported only with an item that was passed over.
YInv ==
  Undisturbed =>
    /\ pc = "item" =>
         /\ results = <<>> /\ \A k \in done : k < at
         /\ exitcode # 0 => \E k \in DOMAIN request.items : k < at /\ k \notin done
    /\ pc = "report" => SomeUndone
    /\ pc \notin {"member", "display"}
    /\ pc = "ended" => (end = "normal" /\ exitcode = 0) \/ SomeUndone

\* Going on to the next item, or to the end.
LEMMA NextItemExplains ==
  ASSUME XInv, Undisturbed, pc = "item", \A k \in done : k < at,
         NextItem(<<>>), UNCHANGED request, done \subseteq DOMAIN request.items,
         done' \subseteq done \cup {at},
         exitcode' # 0 => \E k \in DOMAIN request.items : k <= at /\ k \notin done'
  PROVE  YInv'
<1>1. PICK n \in Nat : n = Len(request.items)
  BY DEF XInv
<1>2. at \in Nat /\ at <= n /\ at >= 1 /\ DOMAIN request.items = 1 .. n
  BY <1>1 DEF XInv
<1>3. \A k \in done' : k <= at /\ k \in 1 .. n
  BY <1>2
<1>4. CASE at < n
  <2>1. at' = at + 1 /\ pc' = "item" /\ results' = <<>>
    BY <1>1, <1>4 DEF NextItem
  <2>2. \A k \in 1 .. n : k <= at => k < at'
    BY <1>2, <2>1
  <2>3. \A k \in done' : k < at'
    BY <1>3, <2>2
  <2>4. exitcode' # 0 => \E k \in DOMAIN request.items : k < at' /\ k \notin done'
    BY <1>2, <2>2
  <2> QED
    BY <2>1, <2>3, <2>4 DEF YInv
<1>5. CASE ~(at < n)
  <2>1. pc' = "ended" /\ end' = "normal"
    BY <1>1, <1>5 DEF NextItem, Show, End
  <2>2. exitcode' # 0 => \E k \in DOMAIN request.items : k \notin done'
    OBVIOUS
  <2> QED
    BY <2>1, <2>2 DEF YInv, SomeUndone
<1> QED
  BY <1>4, <1>5

\* An end that leaves the item at hand undone.
LEMMA UndoneExplains ==
  ASSUME XInv, YInv, Undisturbed, pc \in {"item", "report"}, pc' \in {"ended", "report"},
         UNCHANGED <<request, at, done>>
  PROVE  YInv'
<1>1. at \in DOMAIN request.items
  BY ItemsOnly
<1>2. CASE pc = "item"
  <2>1. \A k \in done : k < at
    BY <1>2 DEF YInv
  <2>2. at \in Nat
    BY DEF XInv
  <2>3. at \notin done
    BY <2>1, <2>2
  <2> QED
    BY <1>1, <2>3 DEF YInv, SomeUndone
<1>3. CASE pc = "report"
  BY <1>3 DEF YInv, SomeUndone
<1> QED
  BY <1>2, <1>3

\* An error with the item at hand, when the loop goes on or ends.
LEMMA ErrorExplains ==
  ASSUME XInv, YInv, Undisturbed, pc = "item", GoOnAfterError, UNCHANGED <<request, done>>
  PROVE  YInv'
<1>1. results = <<>> /\ \A k \in done : k < at
  BY DEF YInv
<1>2. at \in DOMAIN request.items /\ at <= at /\ at \notin done
  <2>1. at \in DOMAIN request.items
    BY ItemsOnly
  <2>2. at \in Nat
    BY DEF XInv
  <2> QED
    BY <1>1, <2>1, <2>2
<1>3. CASE NextItem(results)
  BY <1>1, <1>2, <1>3, NextItemExplains, ItemsOnly
<1>4. CASE Show(results) /\ UNCHANGED at
  BY <1>1, <1>4, UndoneExplains DEF Show, End
<1> QED
  BY <1>3, <1>4 DEF GoOnAfterError

\* Every step keeps it.
LEMMA YInvKept == MInv /\ YInv /\ [Next]_vars => YInv'
<1> SUFFICES ASSUME MInv, YInv, [Next]_vars, Undisturbed' PROVE YInv'
  BY DEF YInv
<1>0. XInv /\ request \in Requests /\ rivals \in Nat /\ done \subseteq DOMAIN request.items
  BY ItemsOnly DEF MInv
<1>1. UNCHANGED <<request, main>>
  BY DEF Next, Run, LookUpNames, LookUpIds, UnknownOperand, ListedBefore, Succeed, Fail, Report,
         AskMembership, Display, NotCarriedOut, AnswerLost, Rival, vars, main
<1>2. ~AnswerLost /\ ~Rival
  BY <1>0 DEF AnswerLost, Rival, Undisturbed
<1>3. Undisturbed
  BY <1>1, <1>2 DEF Next, Run, LookUpNames, LookUpIds, UnknownOperand, ListedBefore, Succeed, Fail,
                    Report, AskMembership, Display, NotCarriedOut, vars, history, Undisturbed
<1>4. CASE UNCHANGED <<pc, results, at, exitcode, end, done>>
  BY <1>1, <1>3, <1>4 DEF YInv, SomeUndone
<1>5. CASE LookUpNames \/ LookUpIds
  BY <1>4, <1>5 DEF LookUpNames, LookUpIds, control, history
<1>6. CASE UnknownOperand
  <2>1. pc = "item" /\ UNCHANGED done
    BY <1>6 DEF UnknownOperand, Unknown, history
  <2>2. GoOnAfterError \/ (pc' = "ended" /\ UNCHANGED at)
    BY <1>6 DEF UnknownOperand, End
  <2> QED
    BY <1>0, <1>1, <1>3, <2>1, <2>2, ErrorExplains, UndoneExplains
<1>7. CASE ListedBefore
  <2>1. request.command = "examine"
    BY <1>7 DEF ListedBefore, AlreadyListed
  <2> QED
    BY <1>0, <1>3, <2>1, ItemIs, MainIs DEF Undisturbed
<1>8. CASE Succeed
  <2>1. /\ pc = "item" /\ done \subseteq done' /\ done' \subseteq done \cup {at}
        /\ UNCHANGED exitcode /\ (End("KeyError") \/ NextItem(results))
    BY <1>3, <1>8 DEF Succeed, OperationDue, Undisturbed, CarriedOut
  <2>2. end' # "KeyError"
    BY MInvKept, <1>3, <1>1 DEF MInv, MapsAgree, Undisturbed
  <2>3. /\ results = <<>> /\ \A k \in done : k < at
        /\ exitcode # 0 => \E k \in DOMAIN request.items : k < at /\ k \notin done
    BY <1>3, <2>1 DEF YInv
  <2>4. exitcode' # 0 => \E k \in DOMAIN request.items : k <= at /\ k \notin done'
    <3> SUFFICES ASSUME exitcode # 0 PROVE \E k \in DOMAIN request.items : k <= at /\ k \notin done'
      BY <2>1
    <3>1. PICK k \in DOMAIN request.items : k < at /\ k \notin done
      BY <2>3
    <3>2. at \in Nat /\ Len(request.items) \in Nat /\ DOMAIN request.items = 1 .. Len(request.items)
      BY <1>0 DEF XInv
    <3>3. k <= at /\ k # at
      BY <3>1, <3>2
    <3> QED
      BY <2>1, <3>1, <3>3
  <2> QED
    BY <1>0, <1>1, <1>3, <2>1, <2>2, <2>3, <2>4, NextItemExplains DEF End
<1>9. CASE Fail
  <2>1. pc = "item" /\ UNCHANGED done
    BY <1>9 DEF Fail, OperationDue, history
  <2>2. GoOnAfterError \/ (pc' \in {"ended", "report"} /\ UNCHANGED at)
    BY <1>9 DEF Fail, End
  <2> QED
    BY <1>0, <1>1, <1>3, <2>1, <2>2, ErrorExplains, UndoneExplains
<1>10. CASE Report
  <2>1. pc = "report" /\ pc' = "ended" /\ UNCHANGED <<at, done>>
    BY <1>10 DEF Report, End, history
  <2> QED
    BY <1>0, <1>1, <1>3, <2>1, UndoneExplains
<1>11. CASE AskMembership \/ Display
  BY <1>3, <1>11 DEF AskMembership, Display, YInv
<1>12. CASE NotCarriedOut
  <2>1. UNCHANGED <<at, results, exitcode, done>>
    BY <1>12 DEF NotCarriedOut, history
  <2>2. CASE UNCHANGED <<pc, end>>
    BY <1>4, <2>1, <2>2
  <2>3. CASE pc' = "ended"
    <3>1. pc \in {"item", "report", "member", "display"}
      BY <1>12 DEF NotCarriedOut, CallDue, NamesNeeded, IdsNeeded, IdsToShow, OperationDue
    <3>2. pc \in {"item", "report"}
      BY <1>3, <3>1 DEF YInv
    <3> QED
      BY <1>0, <1>1, <1>3, <2>1, <2>3, <3>2, UndoneExplains
  <2> QED
    BY <1>12, <2>2, <2>3 DEF NotCarriedOut, GiveUpServer, End
<1>13. CASE UNCHANGED vars
  BY <1>4, <1>13 DEF vars, control, history
<1> QED
  BY <1>2, <1>5, <1>6, <1>7, <1>8, <1>9, <1>10, <1>11, <1>12, <1>13 DEF Next, Run

\* The exit code tells the truth: zero means that all has been carried out, but that
\* a user createuser was told the ID of may have got another, and a failure although all has
\* been carried out has one of the reasons listed.
THEOREM ExitAlwaysTrue == Spec => []ExitTellsTruth
<1>1. Init => YInv
  <2> SUFFICES ASSUME Init PROVE YInv
    OBVIOUS
  <2>1. pc = "item" /\ results = <<>> /\ done = {} /\ exitcode = 0
    BY DEF Init
  <2> QED
    BY <2>1 DEF YInv
<1>2. XInv /\ YInv /\ MInv => ExitTellsTruth
  <2> SUFFICES ASSUME XInv, YInv, rivals \in Nat, pc = "ended" PROVE ExitTellsTruth
    BY DEF ExitTellsTruth, MInv
  <2>1. end = "normal" /\ exitcode = 0 =>
          \A k \in DOMAIN request.items : k \in done \/ (NumberIgnored(k) /\ Entered(k))
    BY DEF XInv, AllAccounted, Accounted
  <2>2. ASSUME AllDone, ~(end = "normal" /\ exitcode = 0), ~main.lists
        PROVE  lost # {} \/ rivals > 0
    <3>1. ~SomeUndone
      BY <2>2 DEF AllDone, SomeUndone
    <3>2. ~Undisturbed
      BY <2>2, <3>1 DEF YInv
    <3> QED
      BY <2>2, <3>2 DEF Undisturbed
  <2> QED
    BY <2>1, <2>2 DEF ExitTellsTruth
<1> QED
  BY <1>1, <1>2, InitX, InitM, XInvKept, MInvKept, YInvKept, PTL DEF Spec
=============================================================================
