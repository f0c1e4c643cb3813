---------------------------- MODULE GroupExpand ----------------------------
(***************************************************************************)
(* `pts membership -expandgroups`: the groups that were asked for and all  *)
(* groups in them are loaded into the protection cache, and then each is   *)
(* expanded, recursively, into all that is in it (pr_group.expand, with    *)
(* its memory of expansions made before).  Groups may contain each other.  *)
(* Of a group the users in its expansion are displayed; of a user the      *)
(* groups in the expansions of the groups the user is in.                  *)
(*                                                                         *)
(* A group's ID is negative and a user's positive; here they are the sets  *)
(* Groups and Users.  Names, and the cache of them, are left out, and so   *)
(* is the -supergroups switch.                                             *)
(***************************************************************************)
EXTENDS Integers, Sequences

CONSTANTS
  Groups, Users,
  RequestLists,  \* bound: what is asked for on the command line
  DeniedSets,    \* bound: the IDs the server will not list
  Nobody         \* not an ID

Ids == Groups \cup Users
None == {Nobody}                                     \* no expansion yet

ASSUME GroupExpandAssumption ==
  /\ Groups \cap Users = {}
  /\ RequestLists \subseteq Seq(Ids)
  /\ DeniedSets \subseteq SUBSET Ids
  /\ Nobody \notin Ids

VARIABLES
  members,    \* the protection database: what is in each group
  denied,     \* the IDs the server answers with AbortPRPERM or AbortPRNOENT
  force,      \* "force" in params
  pc,         \* the part of main() that runs, see TypeOK
  names,      \* params["nameorid"] still to be looked up
  requests,   \* requests
  loaded,     \* prcache.__groups.keys()
  needing,    \* groups_needing_expansion
  expanded,   \* pr_group.__expanded_members of each group
  stack,      \* the activations of expand(), the innermost first
  shown       \* the requests that have been displayed, and as what

dbVars == <<members, denied, force>>
vars == <<dbVars, pc, names, requests, loaded, needing, expanded, stack, shown>>

Frames == [id : Ids, expansion : SUBSET Ids, todo : SUBSET Groups]

TypeOK ==
  /\ members \in [Groups -> SUBSET Ids]
  /\ denied \in DeniedSets
  /\ force \in BOOLEAN
  /\ pc \in {"look_up", "load", "display", "expand", "done", "raised"}
  /\ names \in Seq(Ids) /\ requests \in Seq(Ids)
  /\ loaded \subseteq Groups \ denied /\ needing \subseteq Groups
  /\ expanded \in [Groups -> (SUBSET Ids) \cup {None}]
  /\ stack \in Seq(Frames)
  /\ shown \in Seq([id : Ids, expansion : SUBSET Ids])

Init ==
  /\ members \in [Groups -> SUBSET Ids]
  /\ denied \in DeniedSets
  /\ force \in (IF denied = {} THEN {FALSE} ELSE BOOLEAN)
  /\ pc = "look_up"
  /\ names \in RequestLists /\ requests = <<>>
  /\ loaded = {} /\ needing = {}
  /\ expanded = [g \in Groups |-> None]
  /\ stack = <<>> /\ shown = <<>>

InSeq(x, s) == \E k \in DOMAIN s : s[k] = x

\* memberships[u]: PR_ListElements of a user lists the groups the user is in.
MemberOf(u) == {g \in Groups : u \in members[g]}
Listed(id) == IF id \in Groups THEN members[id] ELSE MemberOf(id)

-----------------------------------------------------------------------------
(* Looking up what was asked for. *)

\* The groups one request loads: the group, or the groups of the user.
Wanted(id) == IF id \in Groups THEN {id} ELSE MemberOf(id)

LookUp ==
  /\ pc = "look_up" /\ names # <<>>
  /\ LET id == Head(names) IN
     \/ /\ InSeq(id, requests)
        /\ names' = Tail(names)
        /\ UNCHANGED <<requests, loaded>>
     \/ /\ ~InSeq(id, requests)
        /\ ({id} \cup Wanted(id)) \cap denied = {}
        /\ loaded' = loaded \cup Wanted(id)
        /\ requests' = Append(requests, id)
        /\ names' = Tail(names)
     \/ \* AbortPRNOENT, AbortPRPERM: the groups before the one denied are loaded
        /\ ~InSeq(id, requests)
        /\ ({id} \cup Wanted(id)) \cap denied # {}
        /\ \E some \in SUBSET (IF id \in denied THEN {} ELSE Wanted(id) \ denied) :
             loaded' = loaded \cup some
        /\ names' = IF force THEN Tail(names) ELSE <<>>
        /\ UNCHANGED requests
  /\ UNCHANGED <<dbVars, pc, needing, expanded, stack, shown>>

LookUpDone ==
  /\ pc = "look_up" /\ names = <<>>
  /\ needing' = loaded                               \* known_groups()
  /\ pc' = "load"
  /\ UNCHANGED <<dbVars, names, requests, loaded, expanded, stack, shown>>

-----------------------------------------------------------------------------
(* Loading all groups that will be needed. *)

NewGroupsAll(gid) == members[gid] \cap Groups        \* mutant: loaded ones too
NewGroups(gid) == {m \in members[gid] \cap Groups : m \notin loaded'}

LoadGroup(gid) ==
  /\ pc = "load"
  /\ gid \in needing
  /\ \/ /\ gid \in denied                            \* nothing catches this
        /\ pc' = "raised"
        /\ UNCHANGED <<needing, loaded>>
     \/ /\ gid \notin denied
        /\ loaded' = loaded \cup {gid}
        /\ needing' = (needing \ {gid}) \cup NewGroups(gid)
        /\ UNCHANGED pc
  /\ UNCHANGED <<dbVars, names, requests, expanded, stack, shown>>

LoadDone ==
  /\ pc = "load" /\ needing = {}
  /\ pc' = "display"
  /\ UNCHANGED <<dbVars, names, requests, loaded, needing, expanded, stack, shown>>

-----------------------------------------------------------------------------
(* Displaying the requests one after the other, each expanded. *)

DisplayNext ==
  /\ pc = "display" /\ requests # <<>>
  /\ pc' = "expand"
  /\ LET id == Head(requests) IN
     IF id \in Groups /\ expanded[id] # None
       THEN /\ stack' = <<[id |-> id, expansion |-> expanded[id], todo |-> {}]>>
            /\ UNCHANGED expanded
       ELSE /\ stack' = <<[id |-> id, expansion |-> Listed(id),
                           todo |-> Listed(id) \cap Groups]>>
            /\ expanded' = IF id \in Groups THEN [expanded EXCEPT ![id] = {}]
                                            ELSE expanded
  /\ UNCHANGED <<dbVars, names, requests, loaded, needing, shown>>

DisplayDone ==
  /\ pc = "display" /\ requests = <<>>
  /\ pc' = "done"
  /\ UNCHANGED <<dbVars, names, requests, loaded, needing, expanded, stack, shown>>

\* expand() of a group in the group: its expansion is known, if only as the
\* empty set that is to prevent recursion loops ...
Known(gid) == expanded[gid] # None

ExpandKnown(gid) ==
  /\ pc = "expand" /\ gid \in Head(stack).todo
  /\ Known(gid)
  /\ stack' = <<[Head(stack) EXCEPT !.expansion = @ \cup expanded[gid],
                                    !.todo = @ \ {gid}]>> \o Tail(stack)
  /\ loaded' = loaded \cup {gid}                     \* id_to_group_object()
  /\ UNCHANGED <<dbVars, pc, names, requests, needing, expanded, shown>>

\* ... or has to be worked out first.
ExpansionShared(gid) ==                              \* mutant: one set for all
  Head(stack).expansion \cup members[gid]
Expansion(gid) == members[gid]

SubgroupsNotMet(gid) ==                              \* mutant: met before, left out
  {m \in members[gid] \cap Groups : expanded[m] = None}
Subgroups(gid) == members[gid] \cap Groups

ExpandNew(gid) ==
  /\ pc = "expand" /\ gid \in Head(stack).todo
  /\ ~Known(gid)
  /\ loaded' = loaded \cup {gid}                     \* id_to_group_object()
  /\ expanded' = [expanded EXCEPT ![gid] = {}]
  /\ stack' = <<[id |-> gid, expansion |-> Expansion(gid),
                 todo |-> Subgroups(gid)]>> \o stack
  /\ UNCHANGED <<dbVars, pc, names, requests, needing, shown>>

\* A group has been expanded: its expansion is kept, and goes to the caller.
Return ==
  /\ pc = "expand" /\ Head(stack).todo = {}
  /\ LET top == Head(stack)
         rest == Tail(stack) IN
     /\ expanded' = IF top.id \in Groups
                    THEN [expanded EXCEPT ![top.id] = top.expansion] ELSE expanded
     /\ \/ /\ rest = <<>>
           /\ stack' = rest
           /\ shown' = Append(shown, [id |-> top.id, expansion |-> top.expansion])
           /\ requests' = Tail(requests)
           /\ pc' = "display"
        \/ /\ rest # <<>>
           /\ stack' = <<[Head(rest) EXCEPT !.expansion = @ \cup top.expansion,
                                            !.todo = @ \ {top.id}]>> \o Tail(rest)
           /\ UNCHANGED <<shown, requests, pc>>
  /\ UNCHANGED <<dbVars, names, loaded, needing>>

-----------------------------------------------------------------------------
Next ==
  \/ LookUp \/ LookUpDone
  \/ \E gid \in Groups : LoadGroup(gid)
  \/ LoadDone
  \/ DisplayNext \/ DisplayDone
  \/ \E gid \in Groups : ExpandKnown(gid) \/ ExpandNew(gid)
  \/ Return

Spec == Init /\ [][Next]_vars

\* One thread that runs on: the loops' bounds are the question.
FairSpec == Spec /\ WF_vars(Next)

-----------------------------------------------------------------------------
(* What is displayed: "if m > 0", "if m < 0". *)

Displayed(k) == shown[k].expansion \cap (IF shown[k].id \in Groups THEN Users ELSE Groups)

-----------------------------------------------------------------------------
(* Properties. *)

\* What is in a group, directly or through groups: the least set that holds its
\* members and, with each group, the members of the group.
Closed(S) == \A g \in S \cap Groups : members[g] \subseteq S
Reach(gid) ==
  {x \in Ids : \A S \in SUBSET Ids : members[gid] \subseteq S /\ Closed(S) => x \in S}

Acyclic == \A g \in Groups : g \notin Reach(g)

\* Nobody is shown, or anything remembered, to be in a group who is not.
NeverTooMuch ==
  /\ \A k \in DOMAIN shown : shown[k].id \in Groups => Displayed(k) \subseteq Reach(shown[k].id)
  /\ \A g \in Groups : expanded[g] # None => expanded[g] \subseteq Reach(g)

\* If groups do not contain each other every user in a group is shown to be in it.
AcyclicIsComplete ==
  Acyclic => \A k \in DOMAIN shown :
    shown[k].id \in Groups => Reach(shown[k].id) \cap Users \subseteq Displayed(k)

\* What is displayed of a user has the heading "Expanded Groups (name) is a member
\* of": the user is in every group under it, directly or through groups.
GroupsOf(u) == {g \in Groups : u \in Reach(g)}
UserIsInThem ==
  \A k \in DOMAIN shown : shown[k].id \in Users => Displayed(k) \subseteq GroupsOf(shown[k].id)

\* And these are all the groups that the user is in.
AllGroupsOfUser ==
  \A k \in DOMAIN shown : shown[k].id \in Users => GroupsOf(shown[k].id) \subseteq Displayed(k)

\* Once something is shown nothing more is asked of the server: a group that
\* could not be listed is noticed before.
ShowsWithoutServer == [][pc = "expand" => loaded' = loaded]_vars

\* expand() recurses into no group it is working on already.
NoReentry ==
  \A j, k \in DOMAIN stack : stack[j].id = stack[k].id => j = k

\* The command ends: neither the loading nor the expansion of groups that
\* contain each other goes on for ever.
Ends == <>(pc \in {"done", "raised"})
=============================================================================
