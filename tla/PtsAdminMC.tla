---------------------------- MODULE PtsAdminMC ----------------------------
(* Command lines for PtsAdmin: every command, with up to four items.       *)
EXTENDS PtsAdmin

CONSTANTS a, b, u1, u2

MCNames == {a, b}
MCIds == {u1, u2}
MCMemberships == {{}, {<<u1, u2>>}}

One(who) == [who |-> who, whom |-> Absent, new_name |-> Absent, new_id |-> Absent]
Pair(who, whom) == [One(who) EXCEPT !.whom = whom]
New(who, n, u) == [One(who) EXCEPT !.new_name = n, !.new_id = u]

Lines(command, seqs) ==
  {[command |-> command, force |-> f, items |-> s] : f \in BOOLEAN, s \in seqs}

MCRequests ==
  Lines("delete", {<<One(a), One(b)>>, <<One(a), One(u1)>>, <<One(a), One(u2), One(u1), One(b)>>})
  \cup Lines("setfields", {<<One(a), One(u2)>>})
  \cup Lines("examine", {<<One(a), One(u1)>>})
  \cup Lines("listowned", {<<One(b), One(u1)>>})
  \cup Lines("adduser", {<<Pair(a, b), Pair(a, u1)>>, <<Pair(u1, u2)>>})
  \cup Lines("removeuser", {<<Pair(a, b), Pair(u2, b)>>})
  \cup Lines("createuser", {<<New(Absent, a, Absent), New(Absent, b, u1)>>, <<New(Absent, b, u1)>>})
  \cup Lines("creategroup", {<<New(a, b, u1)>>, <<New(Absent, a, u2), New(Absent, b, Absent)>>})
  \cup Lines("rename", {<<New(a, b, Absent)>>, <<New(u1, b, Absent)>>})
  \cup Lines("chown", {<<Pair(a, b)>>, <<Pair(u1, u2)>>})
  \cup Lines("setmax", {<<One(Absent), One(Absent)>>})
  \cup Lines("listmax", {<<One(Absent)>>})
  \cup Lines("listentries", {<<One(Absent)>>})
=============================================================================
