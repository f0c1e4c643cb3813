----------------------------- MODULE PtsAdmin -----------------------------
(***************************************************************************)
(* One run of a `pts` command that changes or lists entries of the         *)
(* protection database: it resolves names and IDs through its cache of the *)
(* database (prcache), makes one call for each item of its command line,   *)
(* and moves on to the next server when a call fails (call_pt_server).     *)
(* Other administrators change the same database meanwhile.                *)
(*                                                                         *)
(* The commands share their shape, so each is data: which tests, evictions *)
(* and exception clauses its main() has.  Names and IDs are model values.  *)
(* The cache of groups is in GroupExpand: no command here fills it.        *)
(***************************************************************************)
EXTENDS Naturals, Sequences, FiniteSets

CONSTANTS
  Names, Ids,
  None,          \* Python's None: an entry that does not exist
  Absent,        \* a key that is not in a dict, an argument that is not given
  Servers,       \* how many servers the cell has
  Requests,      \* bound: the command lines, see Request
  Memberships,   \* bound: who is in which group when the command starts
  MaxRivals      \* bound: what other administrators do during the command

VARIABLES
  entries,       \* the database: the ID of each name
  member,        \* the database: who is in which group
  request,       \* command, "force" in params, and the items of its loops
  at,            \* the item main() is at
  pc,            \* the part of main() that runs
  results,       \* what main() will show: IDs whose names it needs
  name2id, id2name, names_to_lookup, ids_to_lookup,     \* prcache
  ptserver_index,                                       \* cell: 1 is the first
  exitcode,      \* output.exitcode
  end,           \* how main() ended: normally or with which exception
  named,         \* history: <<name, id>> that have been in the database
  acted,         \* history: <<operand, id>> that calls have been made for
  done,          \* history: the items the servers have carried out as they were told
  lost,          \* history: those whose answer did not arrive
  rivals         \* history: changes made by others

database == <<entries, member>>
maps == <<name2id, id2name>>
cache == <<maps, names_to_lookup, ids_to_lookup>>
control == <<at, pc, results, exitcode, end>>
history == <<acted, done, lost>>
vars == <<database, request, control, cache, ptserver_index, named, history, rivals>>

-----------------------------------------------------------------------------
(* The commands. *)

\* The tests, evictions and except clauses of a main().  checks: None is looked
\* for; shows_name: id_to_name() is asked before the call; evicts: what of the
\* cache goes after a success; stops: a caught abort ends the loop, unless
\* -force; lists: results are shown after the loop.
Plain == [checks |-> TRUE, shows_name |-> FALSE, evicts |-> {}, caught |-> {},
          stops |-> TRUE, lists |-> FALSE]

adduser == [Plain EXCEPT !.caught = {"PRIDEXIST"}]
removeuser == [Plain EXCEPT !.caught = {"PRNOENT"}]
createuser == [Plain EXCEPT !.caught = {"PREXIST", "PRIDEXIST"},
                            !.evicts = {"new name", "new id"}]
\* The owner is used unchecked.
creategroup == [createuser EXCEPT !.checks = FALSE]
chown == [Plain EXCEPT !.shows_name = TRUE, !.evicts = {"id"},
                       !.caught = {"PRNOENT", "PRPERM"}]
delete == [Plain EXCEPT !.shows_name = TRUE, !.evicts = {"id"},
                        !.caught = {"PRNOENT", "PRPERM"}]
rename == [Plain EXCEPT !.evicts = {"id"}, !.caught = {"PREXIST", "PRNOENT"}]
setfields == [Plain EXCEPT !.checks = FALSE, !.stops = FALSE,
                           !.caught = {"PRNOENT", "PRPERM"}]
setmax == [Plain EXCEPT !.caught = {"PRPERM"}]
examine == [setfields EXCEPT !.lists = TRUE]
listowned == [Plain EXCEPT !.caught = {"PRNOENT", "PRPERM"}, !.lists = TRUE]
listentries == Plain
listmax == Plain

Command ==
  [adduser |-> adduser, removeuser |-> removeuser, createuser |-> createuser,
   creategroup |-> creategroup, chown |-> chown, delete |-> delete,
   rename |-> rename, setfields |-> setfields, setmax |-> setmax,
   examine |-> examine, listowned |-> listowned, listentries |-> listentries,
   listmax |-> listmax]

main == Command[request.command]

\* An item: up to two operands, which may be names or stringified IDs, and for
\* an entry that is made or renamed its new name and ID.
Operand == Names \cup Ids
Item == [who : Operand \cup {Absent}, whom : Operand \cup {Absent},
         new_name : Names \cup {Absent}, new_id : Ids \cup {Absent}]
Request == [command : DOMAIN Command, force : BOOLEAN, items : Seq(Item)]

Operands(i) == {i.who, i.whom} \ {Absent}

\* What the parser demands: an entry to be acted on and the group or owner that
\* goes with it, and a name for an entry that is made.
Complete(r) ==
  \A k \in DOMAIN r.items :
    /\ r.command \notin {"createuser", "creategroup", "setmax", "listentries", "listmax"} =>
         r.items[k].who # Absent
    /\ r.command \in {"adduser", "removeuser", "chown"} => r.items[k].whom # Absent
    /\ r.command \in {"createuser", "creategroup"} => r.items[k].new_name # Absent

ASSUME PtsAssumption ==
  /\ Names \cap Ids = {} /\ {None, Absent} \cap (Names \cup Ids) = {}
  /\ None # Absent
  /\ Servers \in Nat \ {0} /\ MaxRivals \in Nat
  /\ Requests \subseteq Request
  /\ Memberships \subseteq SUBSET (Ids \X Ids)
  /\ \A r \in Requests : r.items # <<>> /\ Complete(r)

TypeOK ==
  /\ entries \in [Names -> Ids \cup {None}]
  /\ member \subseteq Ids \X Ids
  /\ request \in Requests
  /\ at \in 1 .. Len(request.items)
  /\ pc \in {"item", "report", "member", "display", "ended"}
  /\ results \in Seq([of : Ids, show : SUBSET Ids])
  /\ name2id \in [Names -> Ids \cup {None, Absent}]
  /\ id2name \in [Ids -> Names \cup {None, Absent}]
  /\ names_to_lookup \subseteq Names
  /\ ids_to_lookup \subseteq Ids
  /\ ptserver_index \in 1 .. Servers + 1
  /\ exitcode \in {0, 1}
  /\ end \in {"", "normal", "CellError", "KeyError", "TypeError", "Abort"}
  /\ named \subseteq Names \X Ids
  /\ acted \subseteq Operand \X Ids
  /\ done \subseteq DOMAIN request.items
  /\ lost \subseteq DOMAIN request.items
  /\ rivals \in 0 .. MaxRivals

\* precache_name_or_id() of everything on the command line, by those that do.
Precached(r) ==
  IF r.command \in {"rename", "creategroup"} THEN {}
  ELSE UNION {Operands(r.items[k]) : k \in DOMAIN r.items}

Pairs == {p \in Names \X Ids : entries[p[1]] = p[2]}

Init ==
  /\ entries \in [Names -> Ids \cup {None}]
  /\ \A m, n \in Names : entries[m] = entries[n] => m = n \/ entries[m] = None
  /\ member \in Memberships
  /\ request \in Requests
  /\ at = 1 /\ pc = "item" /\ results = <<>>
  /\ name2id = [n \in Names |-> Absent]
  /\ id2name = [u \in Ids |-> Absent]
  /\ names_to_lookup = Precached(request) \cap Names
  /\ ids_to_lookup = Precached(request) \cap Ids
  /\ ptserver_index = 1
  /\ exitcode = 0 /\ end = ""
  /\ named = Pairs /\ acted = {} /\ done = {} /\ lost = {}
  /\ rivals = 0

-----------------------------------------------------------------------------
(* Looking up: do_look_up_pr_names() and do_look_up_pr_ids(). *)

item == request.items[at]

\* name_or_id_to_id(), of what has been looked up.
IdOf(operand) == IF operand \in Names THEN name2id[operand] ELSE operand

NamesNeeded ==
  {n \in Operands(item) \cap Names : pc = "item" /\ name2id[n] = Absent}

Unknown == pc = "item" /\ \E o \in Operands(item) : IdOf(o) = None

\* The IDs id_to_name() is about to be asked for.
IdsToShow ==
  CASE pc = "item" -> IF main.shows_name /\ ~Unknown THEN {IdOf(item.who)} ELSE {}
    [] pc \in {"report", "display"} -> Head(results).show
    [] OTHER -> {}
IdsNeeded ==
  {u \in IF NamesNeeded = {} THEN IdsToShow ELSE {} : id2name[u] = Absent}

NameOf(u) == IF \E n \in Names : entries[n] = u
             THEN CHOOSE n \in Names : entries[n] = u ELSE None

\* What PR_NameToID returns for a name of a batch, by its place in the list.
ReplyShifted(n, batch) ==                            \* mutant: another's place
  IF batch = {n} THEN entries[n] ELSE entries[CHOOSE m \in batch \ {n} : TRUE]
Reply(n, batch) == entries[n]

\* PR_NameToID of a batch; the anonymous ID stands for a name that is unknown.
LookUpNames ==
  /\ NamesNeeded # {}
  /\ LET batch == names_to_lookup \cup NamesNeeded
         found == {Reply(n, batch) : n \in batch} \ {None}
     IN /\ name2id' = [n \in Names |-> IF n \in batch THEN Reply(n, batch)
                                             ELSE name2id[n]]
        /\ id2name' = [u \in Ids |-> IF u \in found THEN NameOf(u) ELSE id2name[u]]
        /\ ids_to_lookup' = ids_to_lookup \ found
        /\ names_to_lookup' = {}
  /\ UNCHANGED <<database, request, control, ptserver_index, named, history, rivals>>

\* PR_IDToName of a batch; an ID that is unknown comes back as a number.
LookUpIds ==
  /\ IdsNeeded # {}
  /\ LET batch == ids_to_lookup \cup IdsNeeded
         found == {NameOf(u) : u \in batch} \ {None}
     IN /\ id2name' = [u \in Ids |-> IF u \in batch THEN NameOf(u) ELSE id2name[u]]
        /\ name2id' = [n \in Names |-> IF n \in found THEN entries[n] ELSE name2id[n]]
        /\ names_to_lookup' = names_to_lookup \ found
        /\ ids_to_lookup' = {}
  /\ UNCHANGED <<database, request, control, ptserver_index, named, history, rivals>>

-----------------------------------------------------------------------------
(* Evicting. *)

\* evict_id() and evict_name() delete what an entry of one map names in the
\* other: a KeyError if it is not there.
EvictIdOnly(m, u) == [m EXCEPT !.id2name[u] = Absent] \* mutant: one direction
EvictId(m, u) ==
  IF m.id2name[u] = Absent THEN m
  ELSE LET n == m.id2name[u] IN
    [m EXCEPT !.id2name[u] = Absent,
              !.name2id = IF n = None THEN @ ELSE [@ EXCEPT ![n] = Absent],
              !.error = @ \/ (n # None /\ m.name2id[n] = Absent)]

EvictName(m, n) ==
  IF m.name2id[n] = Absent THEN m
  ELSE LET u == m.name2id[n] IN
    [m EXCEPT !.name2id[n] = Absent,
              !.id2name = IF u = None THEN @ ELSE [@ EXCEPT ![u] = Absent],
              !.error = @ \/ (u # None /\ m.id2name[u] = Absent)]

Maps == [name2id |-> name2id, id2name |-> id2name, error |-> FALSE]

\* What a success has new_id be: the ID on the command line if there is one, and
\* only else the one the server says the entry has.
NewId(id) == IF item.new_id = Absent THEN id ELSE item.new_id

\* The maps after a success; id is the ID of the entry that was made.
Evicted(id) ==
  LET one == IF "new name" \in main.evicts THEN EvictName(Maps, item.new_name) ELSE Maps
      two == IF "new id" \in main.evicts THEN EvictId(one, NewId(id)) ELSE one
  IN IF "id" \in main.evicts THEN EvictId(two, IdOf(item.who)) ELSE two

-----------------------------------------------------------------------------
(* The servers, which are not in the repository: of each call, what the     *)
(* commands rely on.                                                        *)

Exists(u) == NameOf(u) # None
Bind(n, u) == entries' = [m \in Names |-> IF m = n THEN u
                                          ELSE IF entries[m] = u THEN None ELSE entries[m]]
Unbind(u) ==
  /\ entries' = [m \in Names |-> IF entries[m] = u THEN None ELSE entries[m]]
  /\ member' = {p \in member : u \notin {p[1], p[2]}}

PR_AddToGroup(u, g, answer) ==
  LET pair == <<u, g>> IN
  \/ answer = "PRNOENT" /\ ~(Exists(u) /\ Exists(g)) /\ UNCHANGED database
  \/ answer = "PRIDEXIST" /\ pair \in member /\ UNCHANGED database
  \/ /\ answer = "ok" /\ Exists(u) /\ Exists(g) /\ pair \notin member
     /\ member' = member \cup {pair} /\ UNCHANGED entries

PR_RemoveFromGroup(u, g, answer) ==
  LET pair == <<u, g>> IN
  \/ answer = "PRNOENT" /\ pair \notin member /\ UNCHANGED database
  \/ /\ answer = "ok" /\ pair \in member
     /\ member' = member \ {pair} /\ UNCHANGED entries

\* An entry gets an ID of the server's choice; the second argument is a flag.
PR_NewEntry(n, u, answer) ==
  \/ answer = "PREXIST" /\ entries[n] # None /\ UNCHANGED database
  \/ /\ answer = "ok" /\ entries[n] = None /\ ~Exists(u)
     /\ Bind(n, u) /\ UNCHANGED member

\* An entry gets the given ID.
PR_INewEntry(n, u, answer) ==
  \/ answer = "PREXIST" /\ entries[n] # None /\ UNCHANGED database
  \/ answer = "PRIDEXIST" /\ Exists(u) /\ UNCHANGED database
  \/ /\ answer = "ok" /\ entries[n] = None /\ ~Exists(u)
     /\ Bind(n, u) /\ UNCHANGED member

\* Changing the owner of a group changes the prefix of its name.
PR_ChangeEntry(u, n, answer) ==
  \/ answer = "PRNOENT" /\ ~Exists(u) /\ UNCHANGED database
  \/ answer = "PREXIST" /\ n # Absent /\ entries[n] # None /\ UNCHANGED database
  \/ /\ answer = "ok" /\ Exists(u)
     /\ \E m \in Names : /\ m = n \/ n = Absent
                         /\ entries[m] = None \/ (n = Absent /\ entries[m] = u)
                         /\ Bind(m, u)
     /\ UNCHANGED member

PR_Delete(u, answer) ==
  \/ answer = "PRNOENT" /\ ~Exists(u) /\ UNCHANGED database
  \/ answer = "ok" /\ Exists(u) /\ Unbind(u)

\* Calls about an entry that change nothing of what is modelled.
PR_ListEntry(u, answer) ==
  /\ answer = IF Exists(u) THEN "ok" ELSE "PRNOENT"
  /\ UNCHANGED database

Served(answer, id) ==
  LET command == request.command
      u == IdOf(item.who)
      g == IdOf(item.whom)
  IN
  \/ answer = "PRPERM" /\ UNCHANGED database
  \/ command = "adduser" /\ PR_AddToGroup(u, g, answer)
  \/ command = "removeuser" /\ PR_RemoveFromGroup(u, g, answer)
  \/ command = "createuser" /\ PR_NewEntry(item.new_name, id, answer)
  \/ /\ command = "creategroup" /\ item.new_id = Absent
     /\ PR_NewEntry(item.new_name, id, answer)
  \/ /\ command = "creategroup" /\ item.new_id = id
     /\ PR_INewEntry(item.new_name, id, answer)
  \/ command \in {"rename", "chown"} /\ PR_ChangeEntry(u, item.new_name, answer)
  \/ command = "delete" /\ PR_Delete(u, answer)
  \/ command \in {"setfields", "examine", "listowned"} /\ PR_ListEntry(u, answer)
  \/ /\ command \in {"setmax", "listentries", "listmax"}
     /\ answer = "ok" /\ UNCHANGED database

\* createuser hands the ID it was given to PR_NewEntry, for which it is a flag.
NumberIgnored(k) == request.command = "createuser" /\ request.items[k].new_id # Absent

\* The user has been made all the same, under another ID.
Entered(k) == \E u \in Ids : <<request.items[k].new_name, u>> \in named

\* What the success of a call has carried out as it was told.
CarriedOut(id) == {k \in {at} : NumberIgnored(k) => id = item.new_id}

Aborts == {"PRNOENT", "PRPERM", "PREXIST", "PRIDEXIST"}

-----------------------------------------------------------------------------
(* The loop of main() over its items. *)

End(how) == pc' = "ended" /\ end' = how

\* After the loop the results are shown; examine asks about each first.
Show(res) ==
  IF res = <<>> THEN End("normal")
  ELSE /\ pc' = IF request.command = "examine" THEN "member" ELSE "display"
       /\ UNCHANGED end

NextItem(res) ==
  /\ results' = res
  /\ IF at < Len(request.items) THEN at' = at + 1 /\ UNCHANGED <<pc, end>>
     ELSE UNCHANGED at /\ Show(res)

\* error()
ErrorUnnoticed == UNCHANGED exitcode                 \* mutant: exit code not set
Error == exitcode' = 1

\* A caught abort, or an unknown name.
GoOnAfterError ==
  IF main.stops /\ ~request.force
  THEN Show(results) /\ UNCHANGED <<at, results>>
  ELSE NextItem(results)

\* "User or group doesn't exist": or None is handed to the call, which wants
\* an integer.
UnknownOperand ==
  /\ NamesNeeded = {} /\ Unknown
  /\ IF main.checks THEN Error /\ GoOnAfterError
     ELSE End("TypeError") /\ UNCHANGED <<at, results, exitcode>>
  /\ UNCHANGED <<database, request, cache, ptserver_index, named, history, rivals>>

\* examine lists no entry twice.
AlreadyListed ==
  /\ request.command = "examine" /\ pc = "item" /\ NamesNeeded = {}
  /\ \E k \in DOMAIN results : results[k].of = IdOf(item.who)

ListedBefore ==
  /\ AlreadyListed
  /\ NextItem(results)
  /\ done' = done \cup {at}
  /\ UNCHANGED <<database, request, exitcode, cache, ptserver_index, named,
                 acted, lost, rivals>>

OperationDue ==
  /\ pc = "item" /\ NamesNeeded = {} /\ IdsNeeded = {}
  /\ ~Unknown /\ ~AlreadyListed

Acted == acted \cup {<<o, IdOf(o)>> : o \in Operands(item)}

\* What a call returned that is to be shown: owner and creator, or what is owned.
Result(ids) == [of |-> IdOf(item.who), show |-> ids]

Succeed ==
  /\ OperationDue
  /\ \E id \in Ids :
       /\ Served("ok", id)
       /\ LET m == Evicted(id) IN
          /\ name2id' = m.name2id /\ id2name' = m.id2name
          /\ IF m.error THEN End("KeyError") /\ UNCHANGED <<at, results, ids_to_lookup>>
             ELSE IF main.lists
             THEN \E ids \in SUBSET Ids :
                    LET own == IF request.command = "listowned" THEN {IdOf(item.who)} ELSE {}
                    IN /\ NextItem(Append(results, Result(ids \cup own)))
                       /\ ids_to_lookup' = ids_to_lookup \cup
                                             {u \in ids : id2name[u] = Absent}
             ELSE NextItem(results) /\ UNCHANGED ids_to_lookup
       /\ done' = done \cup CarriedOut(id)
  /\ named' = named \cup Pairs'
  /\ acted' = Acted
  /\ UNCHANGED <<request, exitcode, names_to_lookup, ptserver_index, lost, rivals>>

\* What the message about an abort needs to look up: chown and rename only.
ToReport(answer) ==
  CASE request.command = "chown" /\ answer = "PRPERM" -> {IdOf(item.who), IdOf(item.whom)}
    [] request.command = "rename" /\ answer = "PREXIST" -> {IdOf(item.who)}
    [] OTHER -> {}

\* id_is_unknown()
IdIsUnknown(answer) ==
  IF answer = "PRNOENT" /\ request.command \in {"setfields", "examine"}
  THEN LET u == IdOf(item.who) IN
       /\ ids_to_lookup' = ids_to_lookup \ {u}
       /\ id2name' = IF id2name[u] = Absent THEN [id2name EXCEPT ![u] = None] ELSE id2name
  ELSE UNCHANGED <<ids_to_lookup, id2name>>

Fail ==
  /\ OperationDue
  /\ \E answer \in Aborts, id \in Ids :
       /\ Served(answer, id)
       /\ IF answer \notin main.caught
          THEN End("Abort") /\ UNCHANGED <<at, results, exitcode, ids_to_lookup, id2name>>
          ELSE /\ Error
               /\ IdIsUnknown(answer)
               /\ IF ToReport(answer) # {}
                  THEN /\ pc' = "report" /\ results' = <<Result(ToReport(answer))>>
                       /\ UNCHANGED <<at, end>>
                  ELSE GoOnAfterError
  /\ UNCHANGED <<request, name2id, names_to_lookup, ptserver_index, named, history, rivals>>

Report ==
  /\ pc = "report" /\ IdsNeeded = {}
  /\ End("normal")
  /\ UNCHANGED <<database, request, at, results, exitcode, cache, ptserver_index,
                 named, history, rivals>>

\* examine: PR_IsAMemberOf, whose aborts nobody catches.
AskMembership ==
  /\ pc = "member"
  /\ \/ pc' = "display" /\ UNCHANGED end
     \/ End("Abort")
  /\ UNCHANGED <<database, request, at, results, exitcode, cache, ptserver_index,
                 named, history, rivals>>

Display ==
  /\ pc = "display" /\ IdsNeeded = {}
  /\ results' = Tail(results)
  /\ Show(results')
  /\ UNCHANGED <<database, request, at, exitcode, cache, ptserver_index, named,
                 history, rivals>>

-----------------------------------------------------------------------------
(* call_pt_server(): the next server, until there are none left. *)

NextServerForEver(i) == IF i = Servers THEN 1 ELSE i + 1   \* mutant: wraps around
NextServer(i) == i + 1

GiveUpServer ==
  /\ ptserver_index' = NextServer(ptserver_index)
  /\ IF ptserver_index' > Servers THEN End("CellError") ELSE UNCHANGED <<pc, end>>

CallDue == NamesNeeded # {} \/ IdsNeeded # {} \/ OperationDue \/ pc = "member"

\* The server is down, or not synchronised, or the request is lost.
NotCarriedOut ==
  /\ CallDue
  /\ GiveUpServer
  /\ UNCHANGED <<database, request, at, results, exitcode, cache, named, history, rivals>>

\* An OSError that comes after the server has done what it was asked.
AnswerLost ==
  /\ OperationDue
  /\ \E id \in Ids : Served("ok", id) /\ done' = done \cup CarriedOut(id)
  /\ GiveUpServer
  /\ named' = named \cup Pairs'
  /\ acted' = Acted /\ lost' = lost \cup {at}
  /\ UNCHANGED <<request, at, results, exitcode, cache, rivals>>

Run ==
  \/ LookUpNames \/ LookUpIds
  \/ UnknownOperand \/ ListedBefore \/ Succeed \/ Fail \/ Report
  \/ AskMembership \/ Display
  \/ NotCarriedOut \/ AnswerLost

\* Another administrator makes, renames or deletes an entry.
Rival ==
  /\ pc # "ended" /\ rivals < MaxRivals
  /\ \E u \in Ids :
       \/ \E n \in Names : entries[n] = None /\ Bind(n, u) /\ UNCHANGED member
       \/ Exists(u) /\ Unbind(u)
  /\ rivals' = rivals + 1
  /\ named' = named \cup Pairs'
  /\ UNCHANGED <<request, control, cache, ptserver_index, history>>

Next == Run \/ Rival

Spec == Init /\ [][Next]_vars /\ WF_vars(Run)

-----------------------------------------------------------------------------
(* Properties. *)

\* Whatever others do to the database, a call is made for the entry that had
\* the given name at some time since the command began, and what the cache
\* says of a name or an ID was true at some time since then.
ActsOnNamed ==
  /\ \A p \in acted : p[1] \in Names => p \in named
  /\ \A n \in Names : name2id[n] \in Ids => <<n, name2id[n]>> \in named
  /\ \A u \in Ids : id2name[u] \in Names => <<id2name[u], u>> \in named

\* As long as nobody else changes the database, the two directions of the
\* cache agree, whatever is looked up, evicted, refused or repeated; and so no
\* eviction fails.  (Another administrator can make `pts delete` raise a
\* KeyError after it has deleted an entry.)
MapsAgree ==
  rivals = 0 =>
    /\ \A n \in Names, u \in Ids : name2id[n] = u <=> id2name[u] = n
    /\ end # "KeyError"

AllDone == done = DOMAIN request.items

\* The exit code tells the truth: zero means that every item has been carried
\* out, but that a user createuser was told the ID of may have got another, and a failure
\* although they all have means that an answer was lost (the call was then
\* repeated on another server), that others interfered, or that only showing the
\* results failed.
ExitTellsTruth ==
  pc = "ended" =>
    /\ end = "normal" /\ exitcode = 0 =>
         \A k \in DOMAIN request.items : k \in done \/ (NumberIgnored(k) /\ Entered(k))
    /\ AllDone /\ ~(end = "normal" /\ exitcode = 0) /\ ~main.lists =>
         lost # {} \/ rivals > 0

\* What createuser says of itself ("Create a user or machine entry", with "-id
\* <user id>+") and prints ("User <name> has id <id>"): when it has ended with
\* zero, and nobody else has changed anything, each user has the ID it was given
\* on the command line.  The code violates it: the ID is passed as the flag of
\* PR_NewEntry.
UserGetsId ==
  pc = "ended" /\ end = "normal" /\ exitcode = 0 /\ rivals = 0 =>
    \A k \in DOMAIN request.items :
      NumberIgnored(k) => entries[request.items[k].new_name] = request.items[k].new_id

\* Each command ends, even if no server ever answers.
Ends == <>(pc = "ended")
=============================================================================
