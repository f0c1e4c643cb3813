---------------------------- MODULE SuiteProofs ----------------------------
(***************************************************************************)
(* What holds of the command suites whatever is typed: of `vos create` for *)
(* any number of clients at it, any names and any number of RPCs gone      *)
(* wrong; of the command line and its completion for any command set with  *)
(* proper tables of arguments, any words and any number of them.           *)
(*                                                                         *)
(* Volumes: a volume ID is handed to one client only (Distinct), so that   *)
(* no client's transaction or cleanup touches another's volume, and what a *)
(* client knows of its own volume stays true (Own).  An entry of the VLDB  *)
(* is its maker's (Owners), who deletes the volume under it only if the    *)
(* answer to its making was lost.                                          *)
(*                                                                         *)
(* Lines: the words before the next one have been given away.  The first   *)
(* ones are those of the arguments in their places (PlaceInv), after which *)
(* come only switches and what follows them (FrontInv, SwitchInv); what    *)
(* was found is what was found by place and by switch, and none of it      *)
(* twice (ResultInv).  A line that is as the manual says is therefore      *)
(* never refused while it is read (ExitInv).                               *)
(*                                                                         *)
(* Completion: the helper's two recursive readings of a line have closed   *)
(* forms.  After a line that the parser takes no switch is a word of       *)
(* another one (CanonIs), and the switch in force at a word is the last    *)
(* one before it if that still takes words (ReadingIs): the group that the *)
(* parser gave to it.                                                      *)
(***************************************************************************)
EXTENDS VosCreate, Completion, FiniteSetTheorems, NaturalsInduction, WellFoundedInduction, TLAPS


-----------------------------------------------------------------------------
(* The inductive invariant. *)

\* The steps before a client has its volume ID, and before there is a volume, an
\* entry of it; and those in which there is a volume with an entry.
Unnumbered == {"XListPartitions", "GetEntryByName", "NewRWId"}
Unmade == {"NewROId", "NewBackId", "CreateVolume"}
Unentered == TryBody
Entered == {"EndTrans", "ok"}
Cleanup == {"DeleteVolume", "EndTransOnError"}

\* A control-C has taken the client past its cleanup, or past the rest of it.
Missed(c) == interrupted[c] \cap TryBody # {}
CutShort(c) == "DeleteVolume" \in interrupted[c]

\* What a client relies on while it is at it, and what it leaves behind.
Own(c) ==
  /\ rw_id[c] # NoId => rw_id[c] < next_id
  /\ pc[c] \in Unnumbered => rw_id[c] = NoId
  /\ pc[c] \in Unmade \cup Unentered \cup Entered \cup Cleanup => rw_id[c] # NoId
  /\ pc[c] \in Unentered \cup Entered \cup Cleanup => volid[c] = rw_id[c]
  /\ pc[c] \in Unmade => rw_id[c] \notin volumes /\ rw_id[c] \notin trans
  /\ pc[c] \in Unmade \cup Unentered => \A n \in Names : vldb[n] # rw_id[c]
  /\ pc[c] \in Unentered \cup Entered => rw_id[c] \in volumes
  /\ pc[c] \in Entered => vldb[name[c]] = rw_id[c]
  /\ pc[c] = "ok" => rw_id[c] \notin trans
  /\ pc[c] = "DeleteVolume" =>
       \A n \in Names : vldb[n] = rw_id[c] => "CreateEntry" \in lost[c]
  /\ rw_id[c] \in volumes =>
       \/ pc[c] \in Unentered \cup {"DeleteVolume"}
       \/ vldb[name[c]] = rw_id[c]
       \/ "DeleteVolume" \in refused[c] \/ "CreateVolume" \in lost[c]
       \/ Missed(c)
  /\ rw_id[c] \in trans =>
       \/ pc[c] \in Unentered \cup Cleanup \cup {"EndTrans"}
       \/ "CreateVolume" \in lost[c]
       \/ "EndTrans" \in refused[c] \/ "EndTransOnError" \in refused[c]
       \/ Missed(c) \/ CutShort(c)

Distinct ==
  \A c, d \in Clients : c # d /\ rw_id[c] # NoId => rw_id[c] # rw_id[d]

Owners ==
  \A n \in Names : vldb[n] # NoId =>
    /\ vldb[n] < next_id
    /\ \E c \in Clients :
         /\ name[c] = n /\ rw_id[c] = vldb[n]
         /\ rw_id[c] \in volumes \/ "CreateEntry" \in lost[c]

IInv == TypeOK /\ Distinct /\ Owners /\ \A c \in Clients : Own(c)

-----------------------------------------------------------------------------
(* One client's step. *)

\* Where an exception takes a client, and what is remembered of it.
Thrown(c, from) ==
  /\ pc' = [pc EXCEPT ![c] = pc'[c]]
  /\ pc'[c] \in {"DeleteVolume", "EndTransOnError", "failed"}
  /\ pc'[c] = "DeleteVolume" => from \in TryBody
  /\ pc'[c] = "EndTransOnError" => from = "DeleteVolume"
  /\ \/ interrupted' = [interrupted EXCEPT ![c] = @ \cup {from}]
     \/ /\ interrupted' = interrupted
        /\ from \in TryBody => pc'[c] = "DeleteVolume"
        /\ from = "DeleteVolume" => pc'[c] = "EndTransOnError"

\* That is what an exception does.
LEMMA Errors ==
  ASSUME TypeOK, NEW c \in Clients, Raised(c)
  PROVE  Thrown(c, pc[c])
<1>1. PICK e \in Exceptions :
        /\ \E next \in Handlers(pc[c], e) : GoTo(c, next)
        /\ interrupted' = IF e = "KeyboardInterrupt"
                            THEN [interrupted EXCEPT ![c] = @ \cup {pc[c]}] ELSE interrupted
  BY DEF Raised
<1>2. PICK next \in Handlers(pc[c], e) : GoTo(c, next)
  BY <1>1
<1>3. pc' = [pc EXCEPT ![c] = next] /\ pc'[c] = next
  BY <1>2 DEF GoTo, TypeOK
<1>4. /\ next \in {"DeleteVolume", "EndTransOnError", "failed"}
      /\ next = "DeleteVolume" => pc[c] \in TryBody /\ e = "Exception"
      /\ next = "EndTransOnError" => pc[c] = "DeleteVolume"
      /\ next = "failed" => pc[c] \notin TryBody \cup {"DeleteVolume"} \/ e = "KeyboardInterrupt"
  BY DEF Handlers, TryBody
<1>5. e = "KeyboardInterrupt" \/ interrupted' = interrupted
  BY <1>1
<1> QED
  BY <1>1, <1>3, <1>4, <1>5 DEF Thrown, TryBody, Exceptions

\* That a client has missed its cleanup stays so, and comes of nothing else.
LEMMA MissedKept ==
  ASSUME TypeOK, NEW c \in Clients, Thrown(c, pc[c]) \/ UNCHANGED interrupted
  PROVE  /\ Missed(c) => Missed(c)'
         /\ CutShort(c) => CutShort(c)'
         /\ pc[c] \in TryBody /\ Thrown(c, pc[c]) /\ pc'[c] # "DeleteVolume" => Missed(c)'
         /\ pc[c] = "DeleteVolume" /\ Thrown(c, pc[c]) /\ pc'[c] = "failed" => CutShort(c)'
<1>1. CASE UNCHANGED interrupted
  BY <1>1 DEF TypeOK, Thrown, Missed, CutShort
<1>2. CASE Thrown(c, pc[c]) /\ interrupted' # interrupted
  <2>1. interrupted' = [interrupted EXCEPT ![c] = @ \cup {pc[c]}]
    BY <1>2 DEF Thrown
  <2>2. interrupted'[c] = interrupted[c] \cup {pc[c]}
    BY <2>1 DEF TypeOK
  <2> QED
    BY <2>2 DEF Missed, CutShort
<1> QED
  BY <1>1, <1>2

\* It keeps the types.
LEMMA TypesKept ==
  ASSUME TypeOK, NEW c \in Clients, Own(c), Step(c)
  PROVE  TypeOK'
<1> USE VosCreateAssumption DEF TypeOK, Answered, Lost, GoTo, Ended, clientVars, vlVars, volVars, historyVars
<1>1. CASE Refused(c)
  BY <1>1, Errors DEF Refused, Steps, TryBody, Thrown
<1>2. CASE XListPartitions(c)
  BY <1>2, Errors DEF XListPartitions, Steps, TryBody, Thrown
<1>3. CASE GetEntryByName(c)
  BY <1>3, Errors DEF GetEntryByName, Steps, TryBody, Thrown
<1>4. CASE NewRWId(c)
  BY <1>4, Errors DEF NewRWId, Steps, TryBody, Thrown
<1>5. CASE NewSpareId(c)
  BY <1>5, Errors DEF NewSpareId, Steps, TryBody, Thrown
<1>6. CASE CreateVolume(c)
  <2>1. /\ rw_id[c] \in 0 .. next_id - 1 /\ next_id' = next_id
        /\ volumes' = volumes \cup {rw_id[c]} /\ trans' = trans \cup {rw_id[c]}
    BY <1>6 DEF CreateVolume, Own, Unmade
  <2>2. volumes' \subseteq 0 .. next_id' - 1 /\ trans' \subseteq 0 .. next_id' - 1
    BY <2>1
  <2> QED
    BY <1>6, <2>1, <2>2, Errors DEF CreateVolume, Steps, TryBody, Thrown
<1>7. CASE SetInfo(c)
  BY <1>7, Errors DEF SetInfo, Steps, TryBody, Thrown
<1>8. CASE SetFlags(c)
  BY <1>8, Errors DEF SetFlags, Steps, TryBody, Thrown
<1>9. CASE CreateEntry(c)
  BY <1>9, Errors DEF CreateEntry, Steps, TryBody, Thrown
<1>10. CASE EndTrans(c)
  <2>1. /\ volumes' \subseteq 0 .. next_id' - 1
        /\ trans' \subseteq 0 .. next_id' - 1
    BY <1>10 DEF EndTrans, Own, Unmade
  <2> QED
    BY <1>10, <2>1, Errors DEF EndTrans, Steps, TryBody, Thrown
<1>11. CASE DeleteVolume(c)
  <2>1. /\ volumes' \subseteq 0 .. next_id' - 1
        /\ trans' \subseteq 0 .. next_id' - 1
    BY <1>11 DEF DeleteVolume, Deleted, Own, Unmade
  <2> QED
    BY <1>11, <2>1, Errors DEF DeleteVolume, Deleted, Steps, TryBody, Thrown
<1>12. CASE EndTransOnError(c)
  <2>1. /\ volumes' \subseteq 0 .. next_id' - 1
        /\ trans' \subseteq 0 .. next_id' - 1
    BY <1>12 DEF EndTransOnError, Own, Unmade
  <2> QED
    BY <1>12, <2>1, Errors DEF EndTransOnError, Steps, TryBody, Thrown
<1> QED
  BY <1>1, <1>2, <1>3, <1>4, <1>5, <1>6, <1>7, <1>8, <1>9, <1>10, <1>11, <1>12 DEF Step

\* It changes nothing but what is the client's own, takes a volume ID that nobody
\* has had, and makes or ends only its own volume, transaction and entry.
Effect(c) ==
  /\ name' = name
  /\ \A d \in Clients \ {c} :
       /\ pc'[d] = pc[d] /\ rw_id'[d] = rw_id[d] /\ volid'[d] = volid[d]
       /\ refused'[d] = refused[d] /\ lost'[d] = lost[d] /\ interrupted'[d] = interrupted[d]
  /\ lost[c] \subseteq lost'[c] /\ refused[c] \subseteq refused'[c]
  /\ next_id' \in Nat /\ next_id <= next_id'
  /\ \/ rw_id'[c] = rw_id[c]
     \/ pc[c] = "NewRWId" /\ rw_id'[c] = next_id /\ next_id < next_id'
  /\ \A id \in Nat : id # rw_id[c] =>
       (id \in volumes <=> id \in volumes') /\ (id \in trans <=> id \in trans')
  /\ rw_id[c] \in volumes => rw_id[c] \in volumes' \/ pc[c] = "DeleteVolume"
  /\ \A n \in Names :
       \/ vldb'[n] = vldb[n]
       \/ /\ pc[c] = "CreateEntry" /\ n = name[c]
          /\ vldb[n] = NoId /\ vldb'[n] = rw_id[c] /\ volumes' = volumes

LEMMA StepEffect ==
  ASSUME TypeOK, NEW c \in Clients, Own(c), Step(c)
  PROVE  Effect(c)
<1> USE DEF TypeOK, Effect, Answered, Lost, GoTo, Thrown, vlVars, volVars, historyVars
<1>1. CASE Refused(c)
  BY <1>1, Errors DEF Refused
<1>2. CASE XListPartitions(c)
  BY <1>2, Errors DEF XListPartitions
<1>3. CASE GetEntryByName(c)
  BY <1>3, Errors DEF GetEntryByName
<1>4. CASE NewRWId(c)
  BY <1>4, Errors DEF NewRWId
<1>5. CASE NewSpareId(c)
  BY <1>5, Errors DEF NewSpareId
<1>6. CASE CreateVolume(c)
  BY <1>6, Errors DEF CreateVolume
<1>7. CASE SetInfo(c)
  BY <1>7, Errors DEF SetInfo
<1>8. CASE SetFlags(c)
  BY <1>8, Errors DEF SetFlags
<1>9. CASE CreateEntry(c)
  BY <1>9, Errors DEF CreateEntry
<1>10. CASE EndTrans(c)
  BY <1>10, Errors DEF EndTrans, Own, Entered, Cleanup
<1>11. CASE DeleteVolume(c)
  BY <1>11, Errors DEF DeleteVolume, Deleted, Own, Entered, Cleanup
<1>12. CASE EndTransOnError(c)
  BY <1>12, Errors DEF EndTransOnError, Own, Entered, Cleanup
<1> QED
  BY <1>1, <1>2, <1>3, <1>4, <1>5, <1>6, <1>7, <1>8, <1>9, <1>10, <1>11, <1>12 DEF Step

\* What the client relies on is still so.
LEMMA OwnKept ==
  ASSUME TypeOK, TypeOK', NEW c \in Clients, Own(c), Step(c),
         \A n \in Names : vldb[n] # NoId => vldb[n] < next_id
  PROVE  Own(c)'
<1> USE VosCreateAssumption
    DEF TypeOK, Own, Answered, Lost, GoTo, Ended, Unnumbered, Unmade, Unentered, Entered, Cleanup,
        TryBody, vlVars, volVars, historyVars
<1>0. \/ Raised(c) /\ Thrown(c, pc[c])
      \/ UNCHANGED historyVars
  BY Errors DEF Step, Refused, XListPartitions, GetEntryByName, NewRWId, NewSpareId, CreateVolume,
       SetInfo, SetFlags, CreateEntry, EndTrans, DeleteVolume, EndTransOnError
<1>m. /\ Missed(c) => Missed(c)'
      /\ CutShort(c) => CutShort(c)'
      /\ pc[c] \in TryBody /\ Thrown(c, pc[c]) /\ pc'[c] # "DeleteVolume" => Missed(c)'
      /\ pc[c] = "DeleteVolume" /\ Thrown(c, pc[c]) /\ pc'[c] = "failed" => CutShort(c)'
  <2>1. Thrown(c, pc[c]) \/ UNCHANGED interrupted
    BY <1>0
  <2> QED
    BY <2>1, MissedKept
<1>t. Raised(c) => Thrown(c, pc[c])
  BY Errors
<1>1. CASE Refused(c)
  BY <1>1, <1>m, <1>t DEF Thrown, Refused, Steps
<1>2. CASE XListPartitions(c)
  BY <1>2, <1>m, <1>t DEF Thrown, XListPartitions
<1>3. CASE GetEntryByName(c)
  BY <1>3, <1>m, <1>t DEF Thrown, GetEntryByName
<1>4. CASE NewRWId(c)
  BY <1>4, <1>m, <1>t DEF Thrown, NewRWId
<1>5. CASE NewSpareId(c)
  BY <1>5, <1>m, <1>t DEF Thrown, NewSpareId
<1>6. CASE CreateVolume(c)
  BY <1>6, <1>m, <1>t DEF Thrown, CreateVolume
<1>7. CASE SetInfo(c)
  BY <1>7, <1>m, <1>t DEF Thrown, SetInfo
<1>8. CASE SetFlags(c)
  BY <1>8, <1>m, <1>t DEF Thrown, SetFlags
<1>9. CASE CreateEntry(c)
  BY <1>9, <1>m, <1>t DEF Thrown, CreateEntry
<1>10. CASE EndTrans(c)
  BY <1>10, <1>m, <1>t DEF Thrown, EndTrans
<1>11. CASE DeleteVolume(c)
  BY <1>11, <1>m, <1>t DEF Thrown, DeleteVolume, Deleted
<1>12. CASE EndTransOnError(c)
  BY <1>12, <1>m, <1>t DEF Thrown, EndTransOnError
<1> QED
  BY <1>1, <1>2, <1>3, <1>4, <1>5, <1>6, <1>7, <1>8, <1>9, <1>10, <1>11, <1>12 DEF Step

\* And so is what every other client relies on.
LEMMA OthersKept ==
  ASSUME TypeOK, TypeOK', Distinct, NEW c \in Clients, Effect(c), Own(c),
         NEW d \in Clients, d # c, Own(d)
  PROVE  Own(d)'
<1>1. /\ name'[d] = name[d] /\ pc'[d] = pc[d] /\ rw_id'[d] = rw_id[d]
      /\ volid'[d] = volid[d] /\ refused'[d] = refused[d] /\ lost'[d] = lost[d]
      /\ interrupted'[d] = interrupted[d]
  BY DEF Effect
<1>2. next_id \in Nat /\ next_id' \in Nat /\ next_id <= next_id' /\ rw_id[d] \in Nat \cup {NoId}
  BY DEF Effect, TypeOK
<1>3. CASE rw_id[d] = NoId
  <2>1. /\ volumes' \subseteq 0 .. next_id' - 1 /\ trans' \subseteq 0 .. next_id' - 1
        /\ \A id \in 0 .. next_id' - 1 : id \in Nat
    <3>1. volumes' \subseteq 0 .. next_id' - 1 /\ trans' \subseteq 0 .. next_id' - 1
      BY Zenon DEF TypeOK
    <3>2. \A id \in 0 .. next_id' - 1 : id \in Nat
      BY <1>2
    <3> QED
      BY <3>1, <3>2
  <2>2. NoId \notin volumes' /\ NoId \notin trans'
    BY <2>1, VosCreateAssumption
  <2>3. pc[d] \notin Unmade \cup Unentered \cup Entered \cup Cleanup
    BY <1>3 DEF Own
  <2> QED
    BY <1>1, <1>3, <2>2, <2>3 DEF Own, Missed, CutShort, Entered, Cleanup
<1>4. CASE rw_id[d] # NoId
  <2>1. rw_id[d] \in Nat /\ rw_id[d] # rw_id[c]
    BY <1>2, <1>4 DEF Distinct
  <2>2. /\ rw_id[d] \in volumes <=> rw_id[d] \in volumes'
        /\ rw_id[d] \in trans <=> rw_id[d] \in trans'
    BY <2>1 DEF Effect
  <2>3. \A n \in Names : vldb'[n] = rw_id[d] <=> vldb[n] = rw_id[d]
    BY <1>4, <2>1 DEF Effect
  <2>4. name[d] \in Names
    BY DEF TypeOK
  <2>5. rw_id[d] < next_id'
    BY <1>2, <1>4, <2>1 DEF Own
  <2> QED
    BY <1>1, <1>4, <2>2, <2>3, <2>4, <2>5 DEF Own, Missed, CutShort
<1> QED
  BY <1>3, <1>4

\* No volume ID is handed out twice.
LEMMA DistinctKept ==
  ASSUME TypeOK, Distinct, NEW c \in Clients, Effect(c), \A d \in Clients : Own(d)
  PROVE  Distinct'
<1> SUFFICES ASSUME NEW d \in Clients, NEW e \in Clients, d # e, rw_id'[d] # NoId
             PROVE  rw_id'[d] # rw_id'[e]
  BY DEF Distinct
<1>1. \A f \in Clients : rw_id[f] \in Nat \cup {NoId} /\ (rw_id[f] # NoId => rw_id[f] < next_id)
  BY DEF TypeOK, Own
<1>2. CASE rw_id'[c] = rw_id[c]
  BY <1>2 DEF Effect, Distinct
<1>3. CASE rw_id'[c] = next_id /\ rw_id'[c] # rw_id[c]
  <2>1. next_id \in Nat /\ next_id # NoId
    BY VosCreateAssumption DEF TypeOK
  <2>2. \A f \in Clients : rw_id[f] # next_id
    BY <1>1, <2>1
  <2>3. CASE d = c
    BY <1>3, <2>2, <2>3 DEF Effect
  <2>4. CASE e = c
    BY <1>3, <2>2, <2>4 DEF Effect
  <2>5. CASE d # c /\ e # c
    BY <2>5 DEF Effect, Distinct
  <2> QED
    BY <2>3, <2>4, <2>5
<1> QED
  BY <1>2, <1>3 DEF Effect

\* An entry has its maker.
LEMMA OwnersKept ==
  ASSUME TypeOK, Distinct, Owners, NEW c \in Clients, Effect(c), \A d \in Clients : Own(d)
  PROVE  Owners'
<1> SUFFICES ASSUME NEW n \in Names, vldb'[n] # NoId
             PROVE  /\ vldb'[n] < next_id'
                    /\ \E o \in Clients :
                         /\ name'[o] = n /\ rw_id'[o] = vldb'[n]
                         /\ rw_id'[o] \in volumes' \/ "CreateEntry" \in lost'[o]
  BY DEF Owners
<1>1. next_id \in Nat /\ next_id' \in Nat /\ next_id <= next_id' /\ name' = name
  BY DEF TypeOK, Effect
<1>2. CASE vldb'[n] = vldb[n]
  <2>1. vldb[n] \in Nat /\ vldb[n] < next_id
    BY <1>2 DEF Owners, TypeOK
  <2>2. PICK o \in Clients : /\ name[o] = n /\ rw_id[o] = vldb[n]
                             /\ rw_id[o] \in volumes \/ "CreateEntry" \in lost[o]
    BY <1>2 DEF Owners
  <2>3. CASE o # c
    <3>1. rw_id'[o] = rw_id[o] /\ lost'[o] = lost[o]
      BY <2>3 DEF Effect
    <3>2. rw_id[o] \in volumes => rw_id[o] \in volumes' \/ (o # c /\ rw_id[o] = rw_id[c])
      BY <2>1, <2>2, <2>3 DEF Effect
    <3>3. CASE rw_id[o] = rw_id[c] /\ rw_id[o] \in volumes /\ rw_id[o] \notin volumes'
      <4>1. FALSE
        BY <2>1, <2>2, <2>3, <3>3, VosCreateAssumption DEF Distinct
      <4> QED
        BY <4>1
    <3> QED
      BY <1>1, <1>2, <2>1, <2>2, <3>1, <3>2, <3>3
  <2>4. CASE o = c
    <3>1. rw_id'[c] = rw_id[c] /\ lost[c] \subseteq lost'[c]
      BY <1>2, <2>2, <2>4 DEF Effect, Own, Unnumbered
    <3>2. pc[c] = "DeleteVolume" => "CreateEntry" \in lost[c]
      BY <2>2, <2>4 DEF Own
    <3>3. rw_id[c] \in volumes => rw_id[c] \in volumes' \/ pc[c] = "DeleteVolume"
      BY DEF Effect
    <3> QED
      BY <1>1, <1>2, <2>1, <2>2, <2>4, <3>1, <3>2, <3>3
  <2> QED
    BY <2>3, <2>4
<1>3. CASE vldb'[n] # vldb[n]
  <2>1. /\ pc[c] = "CreateEntry" /\ n = name[c] /\ vldb'[n] = rw_id[c]
        /\ volumes' = volumes /\ rw_id'[c] = rw_id[c]
    BY <1>3 DEF Effect
  <2>2. rw_id[c] \in volumes /\ rw_id[c] # NoId /\ rw_id[c] < next_id
    BY <2>1 DEF Own, Unentered, TryBody
  <2>3. rw_id[c] \in Nat
    BY <2>2 DEF TypeOK
  <2> QED
    BY <1>1, <2>1, <2>2, <2>3
<1> QED
  BY <1>2, <1>3

-----------------------------------------------------------------------------
(* The invariant. *)

\* Nobody has begun.
LEMMA InvariantHolds == Init => IInv
<1> SUFFICES ASSUME Init PROVE IInv
  OBVIOUS
<1>1. TypeOK
  BY VosCreateAssumption DEF Init, TypeOK, Steps
<1>2. Distinct /\ Owners
  BY DEF Init, Distinct, Owners
<1>3. ASSUME NEW c \in Clients PROVE Own(c)
  BY DEF Init, Own, Unnumbered, Unmade, Unentered, TryBody, Entered, Cleanup
<1> QED
  BY <1>1, <1>2, <1>3 DEF IInv

\* Every step keeps it.
LEMMA InvariantKept == IInv /\ [Next]_vars => IInv'
<1> SUFFICES ASSUME IInv, [Next]_vars PROVE IInv'
  OBVIOUS
<1>1. CASE Next
  <2>1. PICK c \in Clients : Step(c)
    BY <1>1 DEF Next
  <2>2. TypeOK /\ Distinct /\ Owners /\ \A d \in Clients : Own(d)
    BY DEF IInv
  <2>3. TypeOK'
    BY <2>1, <2>2, TypesKept
  <2>4. Effect(c)
    BY <2>1, <2>2, StepEffect
  <2>5. Own(c)'
    BY <2>1, <2>2, <2>3, OwnKept DEF Owners
  <2>6. \A d \in Clients : Own(d)'
    BY <2>2, <2>3, <2>4, <2>5, OthersKept
  <2> QED
    BY <2>2, <2>3, <2>4, <2>6, DistinctKept, OwnersKept DEF IInv
<1>2. CASE UNCHANGED vars
  BY <1>2 DEF IInv, TypeOK, Distinct, Owners, Own, Missed, CutShort, vars, clientVars, vlVars, volVars, historyVars
<1> QED
  BY <1>1, <1>2

\* It holds throughout.
THEOREM Invariance == Spec => []IInv
  BY InvariantHolds, InvariantKept, PTL DEF Spec

-----------------------------------------------------------------------------
(* What follows from it. *)

\* The variables keep to their types; in particular the cleanup has a transaction
\* to clean up.
THEOREM TypeCorrect == Spec => []TypeOK
<1>1. IInv => TypeOK
  BY DEF IInv
<1> QED
  BY <1>1, Invariance, PTL

\* What is reported as created can be used, whoever else creates it.
THEOREM CreatedIsUsable == Spec => []CreatedMeansUsable
<1>1. IInv => CreatedMeansUsable
  BY DEF IInv, Own, Entered, CreatedMeansUsable
<1> QED
  BY <1>1, Invariance, PTL

\* An entry that leads nowhere is due to a lost answer of VL_CreateEntryN.
THEOREM DanglingEntries == Spec => []DanglingEntryExplained
<1>1. IInv => DanglingEntryExplained
  BY DEF IInv, Owners, DanglingEntryExplained
<1> QED
  BY <1>1, Invariance, PTL

\* A volume left without an entry is one the cleanup could not delete, one that
\* the client never learnt of, or one whose making a control-C cut short.
THEOREM Leftovers == Spec => []LeftoverExplained
<1>1. IInv => LeftoverExplained
  BY DEF IInv, Own, Unentered, Missed, TryBody, LeftoverExplained
<1> QED
  BY <1>1, Invariance, PTL

\* A transaction left open is one the client could not end, or never learnt of, or
\* did not get to ending because of a control-C.
THEOREM OpenTransactions == Spec => []OpenTransExplained
<1>1. IInv => OpenTransExplained
  BY DEF IInv, Own, Unentered, Missed, CutShort, TryBody, Cleanup, Ended, OpenTransExplained
<1> QED
  BY <1>1, Invariance, PTL

-----------------------------------------------------------------------------
(* Looking up.                                                                *)

\* A set without two members.
LEMMA NotTwo ==
  ASSUME NEW S, \A x, y \in S : x = y
  PROVE  ~(Cardinality(S) > 1)
<1>1. CASE S = {}
  <2>1. Cardinality({}) = 0
    BY FS_EmptySet
  <2> QED
    BY <1>1, <2>1
<1>2. CASE S # {}
  <2>1. PICK x \in S : TRUE
    BY <1>2
  <2>2. S = {x}
    BY <2>1
  <2>3. Cardinality({x}) = 1
    BY FS_Singleton
  <2> QED
    BY <2>2, <2>3
<1> QED
  BY <1>1, <1>2

\* A word that is a name is found, wherever the names stand that begin with it,
\* as long as there are no two of them before it.
LEMMA LookupExact ==
  ASSUME NEW names, names \in Seq(Range(names)), IsInjective(names), NEW k \in DOMAIN names,
         NEW w, names[k] = w,
         \A m, n \in 1 .. k - 1 :
           IsPrefix(w, names[m]) /\ IsPrefix(w, names[n]) => m = n
  PROVE  Lookup(names, w) = w
<1> DEFINE exact == {n \in DOMAIN names : names[n] = w}
           hits == {n \in 1 .. k : IsPrefix(w, names[n])} \ exact
           until == IF exact = {} THEN Len(names) ELSE CHOOSE n \in exact : TRUE
           all == {n \in 1 .. until : IsPrefix(w, names[n])} \ exact
<1>1. exact = {k}
  BY DEF IsInjective
<1>2. (CHOOSE n \in exact : TRUE) = k
  BY <1>1
<1>3. DOMAIN names = 1 .. Len(names) /\ Len(names) \in Nat
  OBVIOUS
<1>4. hits \subseteq 1 .. k - 1
  BY <1>1, <1>3
<1>5. \A m, n \in hits : m = n
  BY <1>4
<1>6. until = k
  BY <1>1, <1>2
<1>7. all = hits
  BY <1>6
<1>8. Lookup(names, w) = IF Cardinality(all) > 1 THEN Ambiguous
                         ELSE IF exact # {} THEN w
                         ELSE IF all = {} THEN None ELSE names[CHOOSE n \in all : TRUE]
  BY DEF Lookup
<1> HIDE DEF hits, all, exact, until
<1>9. ~(Cardinality(hits) > 1)
  BY <1>5, NotTwo
<1>10. ~(Cardinality(all) > 1)
  BY <1>7, <1>9
<1>11. exact # {}
  BY <1>1
<1> QED
  BY <1>8, <1>10, <1>11

\* A word that only one name begins with is taken for that one.
LEMMA LookupShort ==
  ASSUME NEW names, names \in Seq(Range(names)), NEW w, NEW k \in DOMAIN names,
         \A n \in DOMAIN names : names[n] # w,
         \A n \in DOMAIN names : IsPrefix(w, names[n]) <=> n = k
  PROVE  Lookup(names, w) = names[k]
<1> DEFINE exact == {n \in DOMAIN names : names[n] = w}
           hits == {n \in 1 .. Len(names) : IsPrefix(w, names[n])} \ exact
<1>1. exact = {}
  OBVIOUS
<1>2. DOMAIN names = 1 .. Len(names)
  OBVIOUS
<1>3. hits = {k}
  BY <1>1, <1>2
<1>4. Cardinality(hits) = 1 /\ (CHOOSE n \in hits : TRUE) = k
  BY <1>3, FS_Singleton
<1>5. Lookup(names, w) = IF Cardinality(hits) > 1 THEN Ambiguous
                         ELSE IF exact # {} THEN w
                         ELSE IF hits = {} THEN None ELSE names[CHOOSE n \in hits : TRUE]
  BY <1>1 DEF Lookup
<1>6. hits # {}
  BY <1>3
<1> HIDE DEF hits, exact
<1>7. names[CHOOSE n \in hits : TRUE] = names[k]
  BY <1>4
<1>8. ~(Cardinality(hits) > 1)
  BY <1>4
<1>9. Lookup(names, w) = names[CHOOSE n \in hits : TRUE]
  BY <1>1, <1>5, <1>6, <1>8
<1> QED
  BY <1>7, <1>9

\* What is found is one of the names.
LEMMA LookupFinds ==
  ASSUME NEW names, names \in Seq(Range(names)), NEW w,
         Lookup(names, w) \notin {None, Ambiguous}
  PROVE  Lookup(names, w) \in Range(names)
<1> DEFINE exact == {n \in DOMAIN names : names[n] = w}
           until == IF exact = {} THEN Len(names) ELSE CHOOSE n \in exact : TRUE
           hits == {n \in 1 .. until : IsPrefix(w, names[n])} \ exact
<1>1. Lookup(names, w) = IF Cardinality(hits) > 1 THEN Ambiguous
                         ELSE IF exact # {} THEN w
                         ELSE IF hits = {} THEN None ELSE names[CHOOSE n \in hits : TRUE]
  BY DEF Lookup
<1>2. exact # {} => w \in Range(names)
  BY DEF Range
<1>3. CASE exact = {}
  <2>1. hits \subseteq DOMAIN names
    BY <1>3
  <2>2. hits # {} => (CHOOSE n \in hits : TRUE) \in hits
    OBVIOUS
  <2> HIDE DEF exact, hits
  <2>3. hits # {} => names[CHOOSE n \in hits : TRUE] \in Range(names)
    BY <2>1, <2>2 DEF Range
  <2>4. Lookup(names, w) = names[CHOOSE n \in hits : TRUE] /\ hits # {}
    BY <1>1, <1>3
  <2> QED
    BY <2>3, <2>4
<1> HIDE DEF exact, hits
<1>4. CASE exact # {}
  BY <1>1, <1>2, <1>4
<1> QED
  BY <1>3, <1>4

\* In a proper table the names are such a list, and each is found.
LEMMA TableNames ==
  ASSUME NEW table, ProperTable(table)
  PROVE  /\ DOMAIN table = 1 .. Len(table) /\ Len(table) \in Nat
         /\ NamesOf(table) \in Seq(Range(NamesOf(table)))
         /\ DOMAIN NamesOf(table) = DOMAIN table
         /\ \A k \in DOMAIN table : NamesOf(table)[k] = table[k].name
<1>1. DOMAIN table = 1 .. Len(table) /\ Len(table) \in Nat
  BY DEF ProperTable
<1>2. DOMAIN NamesOf(table) = DOMAIN table
      /\ \A k \in DOMAIN table : NamesOf(table)[k] = table[k].name
  BY DEF NamesOf
<1>3. \A k \in 1 .. Len(table) : NamesOf(table)[k] \in Range(NamesOf(table))
  BY <1>1, <1>2 DEF Range
<1>4. NamesOf(table) = [k \in 1 .. Len(table) |-> NamesOf(table)[k]]
  BY <1>1 DEF NamesOf
<1> QED
  BY <1>1, <1>2, <1>3, <1>4

\* A name of a proper table is found for what it is, and so is its argument.
LEMMA TableLookup ==
  ASSUME NEW table, ProperTable(table), NEW k \in DOMAIN table
  PROVE  /\ Lookup(NamesOf(table), table[k].name) = table[k].name
         /\ Argument(table, table[k].name) = table[k]
<1> DEFINE names == NamesOf(table)
<1>1. names \in Seq(Range(names)) /\ DOMAIN names = DOMAIN table /\ names[k] = table[k].name
  BY TableNames
<1>2. \A n \in DOMAIN table : names[n] = table[n].name
  BY TableNames
<1>3. IsInjective(names)
  BY DEF ProperTable
<1>4. DOMAIN table = 1 .. Len(table) /\ Len(table) \in Nat
  BY TableNames
<1>5. \A m, n \in 1 .. k - 1 :
        IsPrefix(names[k], names[m]) /\ IsPrefix(names[k], names[n]) => m = n
  <2> SUFFICES ASSUME NEW m \in 1 .. k - 1, NEW n \in 1 .. k - 1,
                      IsPrefix(names[k], names[m]), IsPrefix(names[k], names[n])
               PROVE  m = n
    OBVIOUS
  <2>1. m \in DOMAIN table /\ n \in DOMAIN table
    BY <1>4
  <2>2. names[m] = table[m].name /\ names[n] = table[n].name
    BY <1>2, <2>1
  <2> HIDE DEF names
  <2> QED
    BY <1>1, <2>1, <2>2 DEF ProperTable
<1> HIDE DEF names
<1>6. Lookup(names, names[k]) = names[k]
  BY <1>1, <1>3, <1>5, LookupExact
<1>7. \A n \in DOMAIN table : table[n].name = table[k].name => n = k
  BY <1>1, <1>2, <1>3 DEF IsInjective
<1>8. Argument(table, table[k].name) = table[k]
  BY <1>7 DEF Argument
<1> QED
  BY <1>1, <1>6, <1>8 DEF names

-----------------------------------------------------------------------------
(* The words up to the next switch.                                           *)

\* A set of numbers that is not empty has a least member.
LEMMA Least ==
  ASSUME NEW T \in SUBSET Nat, T # {}
  PROVE  \E x \in T : \A y \in T : x <= y
<1>1. PICK x \in T : \A y \in T : ~ (<<y, x>> \in OpToRel(<, Nat))
  BY NatLessThanWellFounded, WFMin
<1>2. \A y \in T : ~ (y < x)
  BY <1>1 DEF OpToRel
<1>3. \A y \in T : x \in Nat /\ y \in Nat /\ ~(y < x) => x <= y
  OBVIOUS
<1> QED
  BY <1>1, <1>2, <1>3

\* The last word of the group that starts at k.
LastOf(k) == IF Upto(k) = 0 THEN Len(words) ELSE Upto(k) - 1

\* It is the word before the next switch, or the last word of the line.
LEMMA LastOfGroup ==
  ASSUME words \in Seq(Words), NEW k \in 1 .. Len(words) + 1
  PROVE  /\ LastOf(k) \in k - 1 .. Len(words)
         /\ \A n \in k .. LastOf(k) : ~IsSwitch(words[n])
         /\ LastOf(k) < Len(words) => IsSwitch(words[LastOf(k) + 1])
<1> DEFINE S == {n \in k .. Len(words) : IsSwitch(words[n])}
<1>1. Upto(k) = IF S # {} THEN Min(S) ELSE 0
  BY DEF Upto, SelectInSubSeq
<1>2. CASE S = {}
  <2>1. LastOf(k) = Len(words)
    BY <1>1, <1>2 DEF LastOf
  <2> QED
    BY <1>2, <2>1
<1>3. CASE S # {}
  <2>1. S \in SUBSET Nat
    OBVIOUS
  <2>2. \E x \in S : \A y \in S : x <= y
    BY <1>3, <2>1, Least
  <2>3. Min(S) \in S /\ \A y \in S : Min(S) <= y
    BY <2>2 DEF Min
  <2>4. Min(S) \in k .. Len(words) /\ IsSwitch(words[Min(S)])
    BY <2>3
  <2>5. Upto(k) = Min(S)
    BY <1>1, <1>3
  <2>6. \A n \in k .. Min(S) - 1 : n \in k .. Len(words) /\ ~(Min(S) <= n)
    BY <2>4
  <2>7. \A n \in k .. Min(S) - 1 : ~IsSwitch(words[n])
    BY <2>3, <2>6
  <2> HIDE DEF S
  <2>8. LastOf(k) = Min(S) - 1 /\ Min(S) \in k .. Len(words)
    BY <2>4, <2>5 DEF LastOf
  <2> QED
    BY <2>4, <2>7, <2>8
<1> QED
  BY <1>2, <1>3

\* The group has the words from k to that one, in their order.
LEMMA GroupIs ==
  ASSUME words \in Seq(Words), NEW k \in 1 .. Len(words) + 1
  PROVE  /\ Group(k) \in Seq(Words)
         /\ Len(Group(k)) = LastOf(k) - k + 1
         /\ \A m \in 1 .. Len(Group(k)) :
              k + m - 1 \in DOMAIN words /\ Group(k)[m] = words[k + m - 1]
<1>1. LastOf(k) \in k - 1 .. Len(words)
  BY LastOfGroup
<1>2. Group(k) = SubSeq(words, k, LastOf(k))
  BY DEF Group, LastOf
<1> HIDE DEF LastOf
<1>3. \A m \in k .. LastOf(k) : m \in 1 .. Len(words)
  BY <1>1
<1>4. SubSeq(words, k, LastOf(k)) = [m \in 1 .. LastOf(k) - k + 1 |-> words[k + m - 1]]
  BY <1>1
<1>5. LastOf(k) - k + 1 \in Nat
  BY <1>1
<1>6. \A m \in 1 .. LastOf(k) - k + 1 : k + m - 1 \in DOMAIN words /\ words[k + m - 1] \in Words
  BY <1>1
<1>7. Group(k) \in Seq(Words)
  BY <1>2, <1>4, <1>5, <1>6
<1>8. Len(Group(k)) = LastOf(k) - k + 1
  BY <1>2, <1>4, <1>5
<1>9. \A m \in 1 .. Len(Group(k)) : Group(k)[m] = words[k + m - 1]
  BY <1>2, <1>4, <1>8
<1> QED
  BY <1>6, <1>7, <1>8, <1>9
-----------------------------------------------------------------------------
(* The command.                                                               *)

\* A set that has not more than one member.
LEMMA NoTwo ==
  ASSUME NEW S, IsFiniteSet(S), ~(Cardinality(S) > 1), NEW x \in S, NEW y \in S
  PROVE  x = y
<1> SUFFICES ASSUME x # y PROVE FALSE
  OBVIOUS
<1>1. IsFiniteSet(S \ {x}) /\ Cardinality(S \ {x}) = Cardinality(S) - 1
  BY FS_RemoveElement
<1>2. y \in S \ {x}
  OBVIOUS
<1>3. Cardinality(S \ {x}) # 0
  BY <1>1, <1>2, FS_EmptySet
<1>4. Cardinality(S \ {x}) \in Nat /\ Cardinality(S) \in Nat
  BY <1>1, FS_CardinalityType
<1> QED
  BY <1>1, <1>3, <1>4

\* The members of a list are finitely many.
LEMMA ListFinite ==
  ASSUME NEW s, s \in Seq(Range(s))
  PROVE  IsFiniteSet(Range(s))
<1>1. DOMAIN s = 1 .. Len(s) /\ Len(s) \in Nat
  OBVIOUS
<1>2. IsFiniteSet(1 .. Len(s))
  BY <1>1, FS_Interval
<1>3. s \in [1 .. Len(s) -> Range(s)]
  BY <1>1
<1>4. \A x \in Range(s) : \E k \in 1 .. Len(s) : s[k] = x
  BY <1>1 DEF Range
<1>5. s \in Surjection(1 .. Len(s), Range(s))
  BY <1>3, <1>4 DEF Surjection
<1> QED
  BY <1>2, <1>5, FS_Surjection

\* The list of commands has all of them, none twice, and few begin with a name.
LEMMA Ordered ==
  ASSUME order \in Orders
  PROVE  /\ order \in Seq(Range(order)) /\ Range(order) = DOMAIN Commands /\ IsInjective(order)
         /\ DOMAIN order = 1 .. Len(order) /\ Len(order) \in Nat
         /\ \A w : IsFiniteSet(Longer(w))
<1>1. order \in Seq(DOMAIN Commands) /\ Range(order) = DOMAIN Commands /\ IsInjective(order)
  BY CommandLineAssumption
<1>2. order \in Seq(Range(order))
  BY <1>1
<1>3. IsFiniteSet(DOMAIN Commands)
  BY <1>1, <1>2, ListFinite
<1>4. \A w : Longer(w) \in SUBSET DOMAIN Commands
  BY DEF Longer
<1>5. \A w : IsFiniteSet(Longer(w))
  BY <1>3, <1>4, FS_Subset
<1> QED
  BY <1>1, <1>2, <1>5

\* A command's name typed in full is found.
LEMMA FullName ==
  ASSUME order \in Orders, typed \in DOMAIN Commands, Cardinality(Longer(typed)) < 2
  PROVE  Lookup(order, typed) = typed
<1>1. typed \in Range(order)
  BY Ordered
<1>2. PICK k \in DOMAIN order : order[k] = typed
  BY <1>1 DEF Range
<1>3. IsFiniteSet(Longer(typed))
  BY Ordered
<1>4. Cardinality(Longer(typed)) \in Nat
  BY <1>3, FS_CardinalityType
<1>5. \A x, y \in Longer(typed) : x = y
  BY <1>3, <1>4, NoTwo
<1>6. ASSUME NEW m \in 1 .. k - 1, NEW n \in 1 .. k - 1,
             IsPrefix(order[k], order[m]), IsPrefix(order[k], order[n])
      PROVE  m = n
  <2>1. m \in DOMAIN order /\ n \in DOMAIN order /\ m # k /\ n # k
    BY <1>2, Ordered
  <2>2. order[m] \in DOMAIN Commands /\ order[n] \in DOMAIN Commands
    BY <2>1, Ordered DEF Range
  <2>3. order[m] # order[k] /\ order[n] # order[k]
    BY <2>1, <1>2, Ordered DEF IsInjective
  <2>4. order[m] \in Longer(typed) /\ order[n] \in Longer(typed)
    BY <1>2, <1>6, <2>2, <2>3 DEF Longer
  <2>5. order[m] = order[n]
    BY <1>5, <2>4
  <2> QED
    BY <2>1, <2>5, Ordered DEF IsInjective
<1>7. Lookup(order, order[k]) = order[k]
  BY <1>2, <1>6, LookupExact, Ordered
<1> QED
  BY <1>2, <1>7

\* So is the only command that begins with what was typed.
LEMMA ShortName ==
  ASSUME order \in Orders, typed \notin DOMAIN Commands, Cardinality(Longer(typed)) = 1,
         NEW c \in Longer(typed)
  PROVE  Lookup(order, typed) = c
<1>1. c \in DOMAIN Commands /\ IsPrefix(typed, c)
  BY DEF Longer
<1>2. c \in Range(order)
  BY <1>1, Ordered
<1>3. PICK k \in DOMAIN order : order[k] = c
  BY <1>2 DEF Range
<1>4. IsFiniteSet(Longer(typed))
  BY Ordered
<1>5. \A x, y \in Longer(typed) : x = y
  BY <1>4, NoTwo
<1>6. \A n \in DOMAIN order : order[n] \in DOMAIN Commands
  BY Ordered DEF Range
<1>7. \A n \in DOMAIN order : order[n] # typed
  BY <1>6
<1>8. ASSUME NEW n \in DOMAIN order, IsPrefix(typed, order[n]) PROVE n = k
  <2>1. order[n] \in Longer(typed)
    BY <1>6, <1>7, <1>8 DEF Longer
  <2>2. order[n] = order[k]
    BY <2>1, <1>3, <1>5
  <2> QED
    BY <2>2, <1>3, Ordered DEF IsInjective
<1>9. \A n \in DOMAIN order : IsPrefix(typed, order[n]) <=> n = k
  BY <1>1, <1>3, <1>8
<1>10. Lookup(order, typed) = order[k]
  BY <1>3, <1>7, <1>9, LookupShort, Ordered
<1> QED
  BY <1>3, <1>10

-----------------------------------------------------------------------------
(* The inductive invariant.                                                   *)

Working == {"parse", "missing", "combine", "cell", "run", "topics"}
TagName(k) == Lookup(NamesOf(args), words[k].text)
Before == {k \in Switches : k < i}       \* the switches that have been taken
Named(n) == {args[k].name : k \in 1 .. n}

\* Where the program is, and that it has a command.
StageInv ==
  /\ order \in Orders /\ words \in Seq(Words)
  /\ stage \in Working \cup {"lookup", "exit"}
  /\ cmd \in DOMAIN Commands \cup {None}
  /\ stage = "lookup" => cmd = None
  /\ stage \in Working => cmd # None /\ Commands[cmd].alias = None
  /\ i \in 1 .. Len(words) + 1 /\ av \in Nat \ {0} /\ need_switch \in BOOLEAN
  /\ cmd = None => i = 1 /\ av = 1 /\ need_switch = FALSE /\ result = <<>>
  /\ cmd # None => av <= Len(args) + 1
  /\ stage \in Working \ {"parse"} => i = Len(words) + 1
  /\ stage \in {"missing", "combine"} => words # <<>>
  /\ exitcode \in {0, 1, 2, 3, 5}

\* The arguments that were found by position: they have the first words.
PlaceInv ==
  /\ need_switch => av > 1
  /\ \A k \in 1 .. av - 1 :
       /\ k < i /\ k \in DOMAIN words /\ ~IsSwitch(words[k])
       /\ k \in DOMAIN args /\ args[k].place # "f"
       /\ TakesMore(k) <=> k = av - 1 /\ need_switch
       /\ result[args[k].name] = IF k = av - 1 /\ need_switch THEN Group(k) ELSE <<words[k]>>

\* There is no word without a place before the next but a switch's.
FrontInv ==
  /\ i <= Len(words) /\ ~IsSwitch(words[i]) => Before = {} /\ ~need_switch /\ i = av
  /\ \A k \in 1 .. i - 1 :
       (\A n \in 1 .. k : ~IsSwitch(words[n])) => k < av \/ need_switch

\* The arguments that were found by switch.
SwitchInv ==
  \A k \in Before : TagName(k) \notin {None, Ambiguous} /\ result[TagName(k)] = Group(k + 1)

\* No argument was found twice.
ResultInv ==
  /\ DOMAIN result = Named(av - 1) \cup {TagName(k) : k \in Before}
  /\ IsFiniteSet(DOMAIN result)
  /\ Cardinality(DOMAIN result) = Cardinality(Before) + av - 1

ParseInv == PlaceInv /\ FrontInv /\ SwitchInv /\ ResultInv

\* Each argument that was found has as many words as it takes.
NumberInv ==
  /\ DOMAIN result \subseteq Range(NamesOf(args))
  /\ \A a \in DOMAIN result :
       CASE Argument(args, a).number = "s" -> Len(result[a]) = 1
         [] Argument(args, a).number = "n" -> result[a] = <<>>
         [] OTHER -> result[a] # <<>>

\* What the end of the program tells of a line that is as the manual says.
ExitInv ==
  stage = "exit" /\ cmd # None /\ (AllTagged \/ InPlace) =>
    /\ how = "usage" => \E c \in Commands[cmd].cant : c \subseteq DOMAIN result
    /\ how = "traceback" => i > Len(words)

LineInv ==
  /\ StageInv /\ RightCommand /\ ExitInv
  /\ cmd # None => NumberInv
  /\ stage \in Working => ParseInv

-----------------------------------------------------------------------------
(* The table of the command, and one more argument that was found.            *)

\* What the proofs use of the command's table: it is proper.
LEMMA Table ==
  ASSUME cmd \in DOMAIN Commands
  PROVE  /\ ProperTable(args) /\ DOMAIN args = 1 .. Len(args) /\ Len(args) \in Nat
         /\ \A k \in DOMAIN args :
              /\ args[k].place \in {"r", "o", "f"} /\ args[k].number \in {"s", "m", "n"}
              /\ args[k].place = "f" <=> args[k].number = "n"
              /\ args[k].name \notin {None, Ambiguous}
              /\ args[k].name \in Range(NamesOf(args))
              /\ Argument(args, args[k].name) = args[k]
              /\ Lookup(NamesOf(args), args[k].name) = args[k].name
         /\ \A k, n \in DOMAIN args : args[k].name = args[n].name => k = n
         /\ \A a \in Range(NamesOf(args)) : \E k \in DOMAIN args : a = args[k].name
<1>1. ProperTable(args)
  BY CommandLineAssumption DEF args
<1>2. DOMAIN args = 1 .. Len(args) /\ Len(args) \in Nat
  BY <1>1, TableNames
<1>3. \A k \in DOMAIN args :
        /\ args[k].place \in {"r", "o", "f"} /\ args[k].number \in {"s", "m", "n"}
        /\ args[k].place = "f" <=> args[k].number = "n"
        /\ args[k].name \notin {None, Ambiguous}
  BY <1>1 DEF ProperTable
<1>4. DOMAIN NamesOf(args) = DOMAIN args /\ \A k \in DOMAIN args : NamesOf(args)[k] = args[k].name
  BY <1>1, TableNames
<1>5. \A k \in DOMAIN args : args[k].name \in Range(NamesOf(args))
  BY <1>4 DEF Range
<1>6. \A k \in DOMAIN args : /\ Argument(args, args[k].name) = args[k]
                             /\ Lookup(NamesOf(args), args[k].name) = args[k].name
  BY <1>1, TableLookup
<1>7. IsInjective(NamesOf(args))
  BY <1>1 DEF ProperTable
<1>8. \A k, n \in DOMAIN args : args[k].name = args[n].name => k = n
  BY <1>4, <1>7 DEF IsInjective
<1>9. \A a \in Range(NamesOf(args)) : \E k \in DOMAIN args : a = args[k].name
  BY <1>4 DEF Range
<1> QED
  BY <1>1, <1>2, <1>3, <1>5, <1>6, <1>8, <1>9

\* What an argument cannot be given.
Bad(a, ws) ==
  \/ a.number = "n" /\ ws # <<>>
  \/ a.number = "s" /\ Len(ws) # 1
  \/ a.number = "m" /\ ws = <<>>
  \/ a.limited /\ \E k \in DOMAIN ws : ws[k].kind = "long"
  \/ a.syntax = "number" /\ \E k \in DOMAIN ws : ws[k].kind # "number"

With(a, ws) == [n \in DOMAIN result \cup {a.name} |-> IF n = a.name THEN ws ELSE result[n]]

\* Words are either refused, and the program ends, or given to the argument.
LEMMA AcceptCases ==
  ASSUME NEW a, NEW ws, NEW next, Accept(a, ws, next)
  PROVE  \/ /\ Bad(a, ws) /\ stage' = "exit" /\ exitcode' \in {1, 2}
            /\ UNCHANGED <<i, result>>
         \/ /\ ~Bad(a, ws) /\ i' = next /\ result' = With(a, ws)
            /\ UNCHANGED <<stage, exitcode, how>>
  BY DEF Accept, Bad, With, Misused, Crash, Exit

\* One more argument that takes what it was given.
LEMMA OneMoreFits ==
  ASSUME cmd \in DOMAIN Commands, NumberInv, NEW k \in DOMAIN args, NEW ws, ~Bad(args[k], ws),
         result' = With(args[k], ws), UNCHANGED cmd
  PROVE  NumberInv'
<1>1. args' = args
  BY DEF args
<1>2. DOMAIN result' = DOMAIN result \cup {args[k].name}
  BY DEF With
<1>3. DOMAIN result' \subseteq Range(NamesOf(args'))
  BY <1>1, <1>2, Table DEF NumberInv
<1>4. ASSUME NEW a \in DOMAIN result'
      PROVE  CASE Argument(args, a).number = "s" -> Len(result'[a]) = 1
               [] Argument(args, a).number = "n" -> result'[a] = <<>>
               [] OTHER -> result'[a] # <<>>
  <2>1. CASE a = args[k].name
    <3>1. result'[a] = ws
      BY <2>1 DEF With
    <3>3. Argument(args, a) = args[k]
      BY <2>1, Table
    <3>2. args[k].number \in {"s", "m", "n"}
      BY Table
    <3> QED
      BY <3>1, <3>2, <3>3 DEF Bad
  <2>2. CASE a # args[k].name
    <3>1. a \in DOMAIN result /\ result'[a] = result[a]
      BY <1>2, <1>4, <2>2 DEF With
    <3> QED
      BY <3>1 DEF NumberInv
  <2> QED
    BY <2>1, <2>2
<1> QED
  BY <1>1, <1>3, <1>4 DEF NumberInv

\* One more name in the result.
LEMMA OneMoreName ==
  ASSUME NEW a, NEW ws, a.name \notin DOMAIN result, IsFiniteSet(DOMAIN result),
         result' = With(a, ws)
  PROVE  /\ IsFiniteSet(DOMAIN result')
         /\ Cardinality(DOMAIN result') = Cardinality(DOMAIN result) + 1
<1>1. DOMAIN result' = DOMAIN result \cup {a.name}
  BY DEF With
<1> QED
  BY <1>1, FS_AddElement

-----------------------------------------------------------------------------
(* The steps.                                                                 *)

\* Whether a line is as the manual says is a matter of words and command alone.
LEMMA LineStays ==
  ASSUME UNCHANGED <<words, cmd>>
  PROVE  /\ args' = args /\ Switches' = Switches
         /\ AllTagged' = AllTagged /\ InPlace' = InPlace
         /\ \A k : /\ Group(k)' = Group(k) /\ LastOf(k)' = LastOf(k)
                   /\ TakesMore(k)' = TakesMore(k) /\ TagName(k)' = TagName(k)
         /\ \A n : Named(n)' = Named(n)
<1>1. args' = args
  BY DEF args
<1>2. \A k : /\ Group(k)' = Group(k) /\ LastOf(k)' = LastOf(k)
             /\ TakesMore(k)' = TakesMore(k) /\ TagName(k)' = TagName(k)
  BY <1>1 DEF Group, Upto, TakesMore, TagName, LastOf
<1>3. Switches' = Switches
  BY DEF Switches
<1>4. \A n : Named(n)' = Named(n)
  BY <1>1 DEF Named
<1>7. Given' = Given /\ Required' = Required
  BY <1>1, <1>3 DEF Given, Required
<1>8. AllTagged' = AllTagged
  BY <1>1, <1>2, <1>3, <1>7 DEF AllTagged
<1>9. InPlace' = InPlace
  BY <1>1, <1>3, <1>7 DEF InPlace
<1> QED
  BY <1>1, <1>2, <1>3, <1>4, <1>8, <1>9

\* A step that takes no word.
LEMMA ParsedStays ==
  ASSUME UNCHANGED <<words, cmd, i, av, need_switch, result>>
  PROVE  /\ ParseInv => ParseInv'
         /\ NumberInv => NumberInv'
<1>1. args' = args /\ Switches' = Switches
  BY LineStays
<1>2. /\ \A k : Group(k)' = Group(k) /\ TakesMore(k)' = TakesMore(k) /\ TagName(k)' = TagName(k)
      /\ \A n : Named(n)' = Named(n)
  BY LineStays
<1>3. Before' = Before
  BY <1>1 DEF Before
<1>4. ParseInv => ParseInv'
  BY <1>1, <1>2, <1>3 DEF ParseInv, PlaceInv, FrontInv, SwitchInv, ResultInv
<1>5. NumberInv => NumberInv'
  BY <1>1 DEF NumberInv
<1> QED
  BY <1>4, <1>5

\* Every command has a proper table, and an alias is one of a proper command.
LEMMA CommandsAre ==
  ASSUME NEW c \in DOMAIN Commands
  PROVE  /\ c \notin {None, Ambiguous} /\ ProperTable(Arguments(c))
         /\ Target(c) \in DOMAIN Commands /\ Commands[Target(c)].alias = None
<1>1. c \notin {None, Ambiguous} /\ ProperTable(Arguments(c))
  BY CommandLineAssumption
<1>2. Commands[c].alias # None =>
        Commands[c].alias \in DOMAIN Commands /\ Commands[Commands[c].alias].alias = None
  BY CommandLineAssumption
<1> QED
  BY <1>1, <1>2 DEF Target

\* The command is found.
LEMMA FindCommandKeeps ==
  ASSUME LineInv, FindCommand
  PROVE  LineInv'
<1> DEFINE found == Lookup(order, typed)
<1>1. /\ stage = "lookup" /\ cmd = None /\ UNCHANGED <<order, typed, words, i, av, need_switch, result>>
      /\ order \in Orders /\ words \in Seq(Words)
      /\ i = 1 /\ av = 1 /\ need_switch = FALSE /\ result = <<>>
  BY DEF LineInv, StageInv, FindCommand, Stay, Parsed
<1>2. /\ found \in {None, Ambiguous} => cmd' = None /\ stage' = "exit" /\ exitcode' = 1
      /\ found \notin {None, Ambiguous} =>
           cmd' = Target(found) /\ stage' = "parse" /\ exitcode' = exitcode
  BY <1>1 DEF FindCommand, Crash, Exit, Target
<1>3. found \notin {None, Ambiguous} => found \in DOMAIN Commands
  BY <1>1, Ordered, LookupFinds
<1>4. RightCommand'
  <2>1. \A w : Longer(w)' = Longer(w)
    BY DEF Longer
  <2>2. ASSUME typed \in DOMAIN Commands, Cardinality(Longer(typed)) < 2
        PROVE  cmd' = Target(typed)
    BY <1>1, <1>2, <2>2, FullName, CommandsAre
  <2>3. ASSUME typed \notin DOMAIN Commands, Cardinality(Longer(typed)) = 1, NEW c \in Longer(typed)
        PROVE  cmd' = Target(c)
    <3>1. found = c /\ c \in DOMAIN Commands
      BY <1>1, <2>3, ShortName DEF Longer
    <3> QED
      BY <1>2, <3>1, CommandsAre
  <2> HIDE DEF found
  <2> QED
    BY <1>1, <2>1, <2>2, <2>3 DEF RightCommand, Target
<1>5. CASE found \in {None, Ambiguous}
  <2>1. StageInv'
    BY <1>1, <1>2, <1>5 DEF LineInv, StageInv, Working
  <2>2. ExitInv'
    BY <1>2, <1>5 DEF ExitInv
  <2> QED
    BY <1>2, <1>4, <1>5, <2>1, <2>2 DEF LineInv, Working
<1>6. CASE found \notin {None, Ambiguous}
  <2>1. cmd' \in DOMAIN Commands /\ cmd' # None /\ Commands[cmd'].alias = None
    BY <1>2, <1>3, <1>6, CommandsAre
  <2>2. Len(args') \in Nat
    BY <2>1, CommandsAre, TableNames DEF args
  <2> HIDE DEF found
  <2>3. StageInv'
    <3>1. 1 \in Nat \ {0} /\ 1 <= Len(args') + 1 /\ 1 \in 1 .. Len(words) + 1
      BY <1>1, <2>2
    <3> QED
      BY <1>1, <1>2, <1>6, <2>1, <3>1 DEF LineInv, StageInv, Working
  <2>4. ParseInv' /\ NumberInv'
    <3>1. words' \in Seq(Words) /\ i' = 1 /\ av' = 1 /\ need_switch' = FALSE /\ result' = <<>>
      BY <1>1
    <3>2. Before' = {}
      BY <3>1 DEF Before, Switches
    <3>3. 1 .. av' - 1 = {} /\ 1 .. i' - 1 = {} /\ av' - 1 = 0 /\ DOMAIN result' = {}
      BY <3>1
    <3>4. PlaceInv' /\ FrontInv' /\ SwitchInv'
      BY <3>1, <3>2, <3>3 DEF PlaceInv, FrontInv, SwitchInv
    <3>5. Named(av - 1)' = {}
      BY <3>3 DEF Named
    <3>6. IsFiniteSet({}) /\ Cardinality({}) = 0
      BY FS_EmptySet
    <3>7. ResultInv'
      BY <3>2, <3>3, <3>5, <3>6 DEF ResultInv
    <3>8. NumberInv'
      BY <3>3 DEF NumberInv
    <3> QED
      BY <3>4, <3>7, <3>8 DEF ParseInv
  <2>5. ExitInv'
    BY <1>2, <1>6 DEF ExitInv
  <2> QED
    BY <1>4, <2>3, <2>4, <2>5 DEF LineInv
<1> QED
  BY <1>5, <1>6

\* What is at a word that is no switch.
Taken == IF TakesMore(av) THEN Group(i) ELSE <<words[i]>>

\* When a word without a switch comes up: none has been taken yet, and the
\* argument next in place is to have it, with what follows or without.
LEMMA AtPlace ==
  ASSUME LineInv, stage = "parse", i <= Len(words), ~IsSwitch(words[i])
  PROVE  /\ cmd \in DOMAIN Commands /\ words \in Seq(Words) /\ i \in 1 .. Len(words)
         /\ Before = {} /\ ~need_switch /\ i = av
         /\ PlaceInv /\ FrontInv /\ SwitchInv /\ ResultInv /\ NumberInv
         /\ LastOf(i) \in i .. Len(words) /\ Len(Group(i)) = LastOf(i) - i + 1
         /\ Taken \in Seq(Words) /\ Len(Taken) \in 1 .. Len(words) - i + 1
         /\ Taken # <<>>
         /\ \A n \in 1 .. Len(Taken) : Taken[n] = words[i + n - 1]
         /\ ~IsSwitch(words[i]) /\ i \in DOMAIN words
<1>1. /\ cmd \in DOMAIN Commands /\ words \in Seq(Words) /\ i \in 1 .. Len(words)
      /\ ParseInv /\ NumberInv
  BY DEF LineInv, StageInv, Working
<1>2. Before = {} /\ ~need_switch /\ i = av
  BY <1>1 DEF ParseInv, FrontInv
<1>3. i \in 1 .. Len(words) + 1 /\ Len(words) \in Nat
  BY <1>1
<1>4. LastOf(i) \in i - 1 .. Len(words) /\ (LastOf(i) < Len(words) => IsSwitch(words[LastOf(i) + 1]))
  BY <1>1, <1>3, LastOfGroup
<1>5. LastOf(i) # i - 1
  BY <1>1, <1>3, <1>4
<1>6. LastOf(i) \in i .. Len(words)
  BY <1>3, <1>4, <1>5
<1>7. /\ Group(i) \in Seq(Words) /\ Len(Group(i)) = LastOf(i) - i + 1
      /\ \A m \in 1 .. Len(Group(i)) : Group(i)[m] = words[i + m - 1]
  BY <1>1, <1>3, GroupIs
<1>8. CASE TakesMore(av)
  <2>1. Taken = Group(i)
    BY <1>8 DEF Taken
  <2>2. Len(Taken) \in 1 .. Len(words) - i + 1
    BY <2>1, <1>3, <1>6, <1>7
  <2>3. Taken # <<>>
    BY <2>2
  <2> QED
    BY <1>1, <1>2, <1>6, <1>7, <2>1, <2>2, <2>3 DEF ParseInv
<1>9. CASE ~TakesMore(av)
  <2>1. Taken = <<words[i]>> /\ words[i] \in Words
    BY <1>1, <1>9 DEF Taken
  <2>2. Taken \in Seq(Words) /\ Len(Taken) = 1 /\ Taken # <<>> /\ Taken[1] = words[i]
    BY <2>1
  <2>3. 1 \in 1 .. Len(words) - i + 1 /\ i + 1 - 1 = i
    BY <1>1
  <2>4. \A n \in 1 .. Len(Taken) : Taken[n] = words[i + n - 1]
    BY <2>2, <2>3
  <2> QED
    BY <1>1, <1>2, <1>6, <1>7, <2>2, <2>3, <2>4 DEF ParseInv
<1> QED
  BY <1>8, <1>9

\* A line that has its words in their places has no other.
LEMMA NoSwitches ==
  ASSUME words \in Seq(Words), InPlace, NEW k \in DOMAIN words
  PROVE  ~IsSwitch(words[k])
  BY DEF InPlace, Switches

\* A line with all its switches starts with one.
LEMMA SwitchFirst ==
  ASSUME LineInv, stage \in Working, AllTagged
  PROVE  av = 1 /\ ~need_switch /\ (i <= Len(words) => IsSwitch(words[i]))
<1>1. words \in Seq(Words) /\ av \in Nat \ {0} /\ i \in 1 .. Len(words) + 1 /\ PlaceInv /\ FrontInv
  BY DEF LineInv, StageInv, ParseInv
<1>2. IsSwitch(words[1])
  BY DEF AllTagged
<1>3. ~(1 \in 1 .. av - 1)
  BY <1>1, <1>2 DEF PlaceInv
<1>4. av = 1 /\ ~need_switch
  BY <1>1, <1>3 DEF PlaceInv
<1>5. ASSUME i <= Len(words), ~IsSwitch(words[i]) PROVE FALSE
  <2>1. i = 1
    BY <1>1, <1>4, <1>5 DEF FrontInv
  <2> QED
    BY <1>2, <1>5, <2>1
<1> QED
  BY <1>4, <1>5

\* The required arguments of a command whose first ones they are.
LEMMA RequiredFirst ==
  ASSUME cmd \in DOMAIN Commands, InPlace
  PROVE  /\ Cardinality(Required) \in Nat \ {0} /\ Cardinality(Required) <= Len(args)
         /\ \A k \in 1 .. Cardinality(Required) : k \in DOMAIN args /\ args[k].place = "r"
         /\ \A k \in 1 .. Cardinality(Required) - 1 : ~TakesMore(k)
         /\ TakesMore(Cardinality(Required)) <=> args[Cardinality(Required)].number = "m"
<1> DEFINE n == Cardinality(Required)
<1>1. DOMAIN args = 1 .. Len(args) /\ Len(args) \in Nat
  BY Table
<1>2. IsFiniteSet(Required)
  <2>1. IsFiniteSet(1 .. Len(args))
    BY <1>1, FS_Interval
  <2>2. Required \in SUBSET (1 .. Len(args))
    BY <1>1 DEF Required
  <2> QED
    BY <2>1, <2>2, FS_Subset
<1>3. n \in Nat /\ n # 0
  BY <1>2, FS_CardinalityType, FS_EmptySet DEF InPlace
<1>4. Required = 1 .. n
  BY DEF InPlace
<1>5. \A k \in 1 .. n : k \in DOMAIN args /\ args[k].place = "r"
  BY <1>4 DEF Required
<1>6. \A k \in DOMAIN args : args[k].place = "r" => k \in 1 .. n
  BY <1>4 DEF Required
<1> HIDE DEF n
<1>7. n \in 1 .. n
  BY <1>3
<1>8. n <= Len(args)
  BY <1>1, <1>5, <1>7
<1>9. ASSUME NEW k \in 1 .. n - 1 PROVE ~TakesMore(k)
  <2>1. k + 1 \in 1 .. n /\ k < n
    BY <1>3
  <2>2. k < Len(args) /\ args[k + 1].place = "r"
    BY <1>1, <1>3, <1>5, <1>8, <2>1
  <2> QED
    BY <2>2 DEF TakesMore
<1>10. TakesMore(n) <=> args[n].number = "m"
  <2>1. ~(n + 1 \in 1 .. n)
    BY <1>3
  <2>2. n < Len(args) => n + 1 \in DOMAIN args
    BY <1>1, <1>3
  <2>3. ~(n < Len(args) /\ args[n + 1].place = "r")
    BY <1>6, <2>1, <2>2
  <2> QED
    BY <2>3 DEF TakesMore
<1> QED
  BY <1>3, <1>5, <1>8, <1>9, <1>10 DEF n

\* What a word has that fits an argument.
LEMMA FitWord ==
  ASSUME NEW a, NEW w, Fit(a, <<w>>)
  PROVE  /\ a.limited => w.kind # "long"
         /\ a.syntax = "number" => w.kind = "number"
         /\ w.kind # "empty"
<1>1. 1 \in DOMAIN <<w>> /\ <<w>>[1] = w
  OBVIOUS
<1> QED
  BY <1>1 DEF Fit

\* If all required arguments are in their places, none of their words is refused.
LEMMA InPlaceFits ==
  ASSUME LineInv, stage = "parse", i <= Len(words), InPlace
  PROVE  /\ ~IsSwitch(words[i]) /\ av \in DOMAIN args /\ args[av].place # "f"
         /\ words[i].kind # "empty" /\ ~Unreadable(Taken) /\ ~Bad(args[av], Taken)
<1> DEFINE n == Cardinality(Required)
<1>1. words \in Seq(Words) /\ i \in 1 .. Len(words) + 1 /\ Len(words) \in Nat
  BY DEF LineInv, StageInv
<1>2. i \in DOMAIN words
  BY <1>1
<1>3. ~IsSwitch(words[i])
  BY <1>1, <1>2, NoSwitches
<1>4. /\ cmd \in DOMAIN Commands /\ ~need_switch /\ i = av /\ PlaceInv
      /\ Len(Taken) \in 1 .. Len(words) - i + 1 /\ Taken \in Seq(Words) /\ Taken # <<>>
      /\ \A m \in 1 .. Len(Taken) : Taken[m] = words[i + m - 1]
  BY <1>3, AtPlace
<1>5. /\ n \in Nat \ {0} /\ n <= Len(args)
      /\ \A k \in 1 .. n : k \in DOMAIN args /\ args[k].place = "r"
      /\ \A k \in 1 .. n - 1 : ~TakesMore(k)
      /\ TakesMore(n) <=> args[n].number = "m"
  BY <1>4, RequiredFirst
<1>6. /\ args[n].number # "m" => Len(words) = n
      /\ \A k \in DOMAIN words : Fit(args[IF k > n THEN n ELSE k], <<words[k]>>)
  BY DEF InPlace
<1> HIDE DEF n
<1>7. av <= n
  <2> SUFFICES ASSUME ~(av <= n) PROVE FALSE
    OBVIOUS
  <2>1. n \in 1 .. av - 1
    BY <1>1, <1>4, <1>5
  <2>2. ~TakesMore(n)
    BY <1>4, <2>1 DEF PlaceInv
  <2>3. Len(words) = n
    BY <1>5, <1>6, <2>2
  <2> QED
    BY <1>1, <1>4, <2>3
<1>8. av \in 1 .. n
  BY <1>1, <1>4, <1>5, <1>7
<1>9. av \in DOMAIN args /\ args[av].place = "r"
  BY <1>5, <1>8
<1>10. TakesMore(av) => av = n
  BY <1>1, <1>4, <1>5, <1>8
<1>11. ASSUME NEW m \in 1 .. Len(Taken)
       PROVE  Fit(args[av], <<Taken[m]>>)
  <2>1. Taken[m] = words[i + m - 1] /\ i + m - 1 \in DOMAIN words
    BY <1>1, <1>4
  <2>2. ~TakesMore(av) => m = 1
    <3> SUFFICES ASSUME ~TakesMore(av) PROVE m = 1
      OBVIOUS
    <3>1. Len(Taken) = 1
      BY DEF Taken
    <3>2. m \in 1 .. 1
      BY <3>1
    <3> QED
      BY <3>2
  <2>3. (IF i + m - 1 > n THEN n ELSE i + m - 1) = av
    BY <1>1, <1>4, <1>5, <1>7, <1>10, <2>2
  <2> QED
    BY <1>6, <2>1, <2>3
<1>12. \A m \in 1 .. Len(Taken) :
         /\ args[av].limited => Taken[m].kind # "long"
         /\ args[av].syntax = "number" => Taken[m].kind = "number"
         /\ Taken[m].kind # "empty"
  BY <1>11, FitWord
<1>13. DOMAIN Taken = 1 .. Len(Taken)
  BY <1>4
<1>14. ~Unreadable(Taken)
  BY <1>12, <1>13 DEF Unreadable
<1>15. args[av].number \in {"s", "m"}
  BY <1>4, <1>9, Table
<1>16. args[av].number = "s" => Len(Taken) = 1
  BY DEF Taken, TakesMore
<1>17. ~Bad(args[av], Taken)
  BY <1>4, <1>12, <1>13, <1>15, <1>16 DEF Bad
<1>18. words[i].kind # "empty"
  <2>1. 1 \in 1 .. Len(Taken) /\ i + 1 - 1 = i
    BY <1>1, <1>4
  <2> QED
    BY <1>4, <1>12, <2>1
<1> QED
  BY <1>3, <1>9, <1>14, <1>17, <1>18

\* What is at a switch, if all have their switches.
LEMMA AllTaggedFits ==
  ASSUME LineInv, stage = "parse", i <= Len(words), AllTagged
  PROVE  /\ IsSwitch(words[i]) /\ words[i].text # <<>> /\ ~Rejected(TagName(i))
         /\ TagName(i) = words[i].text
         /\ ~Unreadable(Group(i + 1)) /\ ~Bad(Argument(args, TagName(i)), Group(i + 1))
         /\ words[i].text = HelpName =>
              \A k \in DOMAIN args : args[k].place = "f" \/ args[k].described
<1>1. /\ words \in Seq(Words) /\ i \in 1 .. Len(words) /\ cmd \in DOMAIN Commands
      /\ ParseInv
  BY DEF LineInv, StageInv, Working
<1>2. IsSwitch(words[i]) /\ av = 1
  BY <1>1, SwitchFirst DEF Working
<1>3. i \in Switches /\ i \in DOMAIN words
  BY <1>1, <1>2 DEF Switches
<1>4. \A k \in Switches : words[k].text \in Range(NamesOf(args))
  BY DEF AllTagged
<1>5. \A k \in Switches : TagName(k) = words[k].text /\ words[k].text \notin {None, Ambiguous}
  BY <1>1, <1>4, Table DEF TagName
<1>6. \A k, n \in Switches : words[k].text = words[n].text => k = n
  <2> DEFINE f == [k \in Switches |-> words[k].text]
  <2>1. IsFiniteSet(Switches)
    <3>1. DOMAIN words = 1 .. Len(words) /\ Len(words) \in Nat
      BY <1>1
    <3>2. IsFiniteSet(1 .. Len(words))
      BY <3>1, FS_Interval
    <3>3. Switches \in SUBSET (1 .. Len(words))
      BY <3>1 DEF Switches
    <3> QED
      BY <3>2, <3>3, FS_Subset
  <2>2. f \in Surjection(Switches, Given)
    BY DEF Given, Surjection
  <2>3. Cardinality(Given) = Cardinality(Switches)
    BY DEF AllTagged
  <2> HIDE DEF f
  <2>4. f \in Injection(Switches, Given)
    BY <2>1, <2>2, <2>3, FS_Surjection
  <2>5. \A k, n \in Switches : f[k] = f[n] => k = n
    BY <2>4 DEF Injection, IsInjective
  <2> QED
    BY <2>5 DEF f
<1>7. words[i].text \notin DOMAIN result
  <2>1. DOMAIN result = Named(av - 1) \cup {TagName(k) : k \in Before}
    BY <1>1 DEF ParseInv, ResultInv
  <2>2. Named(av - 1) = {}
    BY <1>2 DEF Named
  <2>3. \A k \in Before : k \in Switches /\ k # i
    BY <1>1 DEF Before, Switches
  <2>4. \A k \in Before : TagName(k) # words[i].text
    BY <1>3, <1>5, <1>6, <2>3
  <2> QED
    BY <2>1, <2>2, <2>4
<1>8. PICK m \in DOMAIN args : words[i].text = args[m].name
  BY <1>1, <1>3, <1>4, Table
<1>9. Argument(args, words[i].text) = args[m]
  BY <1>1, <1>8, Table
<1>10. /\ Fit(args[m], Group(i + 1))
       /\ Len(Group(i + 1)) \in (CASE args[m].number = "n" -> {0} [] args[m].number = "s" -> {1}
                                   [] args[m].number = "m" -> 1 .. MaxWords)
  BY <1>3, <1>9 DEF AllTagged
<1>11. args[m].number \in {"s", "m", "n"}
  BY <1>1, Table
<1>12. Group(i + 1) \in Seq(Words)
  <2>1. i + 1 \in 1 .. Len(words) + 1
    BY <1>1
  <2> QED
    BY <1>1, <2>1, GroupIs
<1>13. ~Bad(args[m], Group(i + 1))
  <2>1. /\ args[m].number = "n" => Len(Group(i + 1)) = 0
        /\ args[m].number = "s" => Len(Group(i + 1)) = 1
        /\ args[m].number = "m" => Len(Group(i + 1)) \in 1 .. MaxWords
    BY <1>10
  <2>2. Len(Group(i + 1)) = 0 <=> Group(i + 1) = <<>>
    BY <1>12
  <2>3. args[m].number = "m" => Group(i + 1) # <<>>
    BY <2>1, <2>2
  <2> QED
    BY <1>10, <2>1, <2>2, <2>3 DEF Bad, Fit
<1>14. ~Unreadable(Group(i + 1))
  BY <1>10 DEF Fit, Unreadable
<1>15. words[i].text = HelpName =>
         \A k \in DOMAIN args : args[k].place = "f" \/ args[k].described
  <2>1. ProperTable(args)
    BY <1>1, Table
  <2> QED
    BY <1>8, <2>1 DEF ProperTable
<1>16. TagName(i) = words[i].text /\ words[i].text \notin {None, Ambiguous}
  BY <1>3, <1>5
<1>17. ~Rejected(TagName(i)) /\ words[i].text # <<>>
  BY <1>7, <1>16 DEF Rejected, None
<1> QED
  BY <1>2, <1>9, <1>13, <1>14, <1>15, <1>16, <1>17

\* A step of the parser that ends it.
LEMMA RefusalKeeps ==
  ASSUME LineInv, stage = "parse", stage' = "exit", exitcode' \in {0, 1, 2, 3, 5},
         UNCHANGED <<order, typed, words, cmd, i, result>>,
         need_switch' \in BOOLEAN, av' \in Nat \ {0}, av' <= Len(args) + 1,
         (how' = "usage" \/ how' = "traceback") => ~AllTagged /\ ~InPlace
  PROVE  LineInv'
<1>1. args' = args /\ AllTagged' = AllTagged /\ InPlace' = InPlace
  BY LineStays
<1>2. StageInv'
  BY <1>1 DEF LineInv, StageInv, Working
<1>3. RightCommand'
  BY DEF LineInv, RightCommand, Longer
<1>4. ExitInv'
  BY <1>1 DEF ExitInv
<1>5. cmd # None => NumberInv'
  BY <1>1 DEF LineInv, NumberInv
<1> QED
  BY <1>2, <1>3, <1>4, <1>5 DEF LineInv, Working

\* A word goes to the argument in its place.
LEMMA PositionalKeeps ==
  ASSUME LineInv, Positional
  PROVE  LineInv'
<1>1. /\ stage = "parse" /\ i <= Len(words) /\ ~IsSwitch(words[i])
      /\ UNCHANGED <<order, typed, words, cmd>>
  BY DEF Positional, Parsing, Stay
<1>2. /\ cmd \in DOMAIN Commands /\ words \in Seq(Words) /\ i \in 1 .. Len(words)
      /\ Before = {} /\ ~need_switch /\ i = av
      /\ PlaceInv /\ FrontInv /\ SwitchInv /\ ResultInv /\ NumberInv
      /\ LastOf(i) \in i .. Len(words) /\ Len(Group(i)) = LastOf(i) - i + 1
      /\ Len(Taken) \in 1 .. Len(words) - i + 1
      /\ i \in DOMAIN words
  BY <1>1, AtPlace
<1>3. av \in Nat \ {0} /\ av <= Len(args) + 1 /\ cmd # None
  BY <1>1, <1>2 DEF LineInv, StageInv, Working
<1>4. DOMAIN args = 1 .. Len(args) /\ Len(args) \in Nat
  BY <1>2, Table
<1>5. \/ /\ stage' = "exit" /\ exitcode' \in {1, 2} /\ UNCHANGED <<i, result, av, need_switch>>
         /\ \/ words[i].kind = "empty" \/ av > Len(args) \/ args[av].place = "f"
            \/ Unreadable(Taken)
      \/ /\ stage' = "exit" /\ exitcode' \in {1, 2} /\ UNCHANGED <<i, result>>
         /\ Bad(args[av], Taken)
         /\ av' = av + 1 /\ need_switch' = (need_switch \/ TakesMore(av)) /\ ~(av > Len(args))
      \/ /\ UNCHANGED <<stage, exitcode, how>> /\ i' = i + Len(Taken)
         /\ result' = With(args[av], Taken) /\ ~Bad(args[av], Taken)
         /\ av' = av + 1 /\ need_switch' = (need_switch \/ TakesMore(av))
         /\ ~(av > Len(args)) /\ args[av].place # "f"
  <2>1. CASE words[i].kind = "empty" \/ need_switch
    BY <1>2, <2>1 DEF Positional, Crash, Exit, Parsed
  <2>2. CASE ~(words[i].kind = "empty" \/ need_switch) /\ (av > Len(args) \/ args[av].place = "f")
    BY <2>2 DEF Positional, Misused, Exit, Parsed
  <2>3. CASE /\ ~(words[i].kind = "empty" \/ need_switch) /\ ~(av > Len(args) \/ args[av].place = "f")
             /\ Unreadable(Taken)
    BY <2>3 DEF Positional, Crash, Exit, Parsed, Taken
  <2>4. CASE /\ ~(words[i].kind = "empty" \/ need_switch) /\ ~(av > Len(args) \/ args[av].place = "f")
             /\ ~Unreadable(Taken)
    <3>1. /\ av' = av + 1 /\ need_switch' = (need_switch \/ TakesMore(av))
          /\ Accept(args[av], Taken, i + Len(Taken))
      BY <2>4 DEF Positional, Taken
    <3> QED
      BY <2>4, <3>1, AcceptCases
  <2> QED
    BY <2>1, <2>2, <2>3, <2>4
<1>6. CASE stage' = "exit"
  <2>1. ~AllTagged
    BY <1>1, SwitchFirst DEF Working
  <2>2. ~InPlace
    BY <1>1, <1>3, <1>4, <1>5, <1>6, InPlaceFits
  <2>3. /\ exitcode' \in {0, 1, 2, 3, 5} /\ UNCHANGED <<i, result>>
        /\ need_switch' \in BOOLEAN /\ av' \in Nat \ {0} /\ av' <= Len(args) + 1
    <3>1. need_switch \in BOOLEAN
      BY DEF LineInv, StageInv
    <3>5. exitcode' \in {1, 2} /\ UNCHANGED <<i, result>>
      BY <1>1, <1>5, <1>6
    <3>6. need_switch' = need_switch \/ need_switch' = (need_switch \/ TakesMore(av))
      BY <1>1, <1>5
    <3>7. (need_switch \/ TakesMore(av)) \in BOOLEAN
      OBVIOUS
    <3>8. need_switch' \in BOOLEAN
      BY <3>1, <3>6, <3>7
    <3>2. need_switch' \in BOOLEAN /\ exitcode' \in {0, 1, 2, 3, 5} /\ UNCHANGED <<i, result>>
      BY <3>5, <3>8
    <3>3. av' = av \/ (av' = av + 1 /\ ~(av > Len(args)))
      BY <1>1, <1>5
    <3>4. av' \in Nat \ {0} /\ av' <= Len(args) + 1
      BY <1>3, <1>4, <3>3
    <3> QED
      BY <3>2, <3>4
  <2> QED
    BY <1>1, <1>6, <2>1, <2>2, <2>3, RefusalKeeps
<1>7. CASE stage' # "exit"
  <2>1. /\ UNCHANGED <<stage, exitcode, how>> /\ i' = i + Len(Taken)
        /\ result' = With(args[av], Taken) /\ ~Bad(args[av], Taken)
        /\ av' = av + 1 /\ need_switch' = TakesMore(av)
        /\ av \in DOMAIN args /\ args[av].place # "f"
    <3>1. /\ UNCHANGED <<stage, exitcode, how>> /\ i' = i + Len(Taken)
          /\ result' = With(args[av], Taken) /\ ~Bad(args[av], Taken)
          /\ av' = av + 1 /\ need_switch' = (need_switch \/ TakesMore(av))
          /\ ~(av > Len(args)) /\ args[av].place # "f"
      BY <1>5, <1>7
    <3>4. ~need_switch
      BY <1>2
    <3>5. need_switch' = (need_switch \/ TakesMore(av))
      BY <3>1
    <3>6. (need_switch \/ TakesMore(av)) <=> TakesMore(av)
      BY <3>4
    <3>7. TakesMore(av) \in BOOLEAN
      BY DEF TakesMore
    <3>2. need_switch' = TakesMore(av)
      BY <3>5, <3>6, <3>7
    <3>3. av \in DOMAIN args
      BY <1>3, <1>4, <3>1
    <3> QED
      BY <3>1, <3>2, <3>3
  <2>2. /\ args' = args /\ Switches' = Switches
        /\ \A k : Group(k)' = Group(k) /\ TakesMore(k)' = TakesMore(k) /\ TagName(k)' = TagName(k)
        /\ \A n : Named(n)' = Named(n)
    BY <1>1, LineStays
  <2>3. i' \in i + 1 .. Len(words) + 1
    BY <1>2, <2>1, SMTT(60)
  <2>4. /\ TakesMore(av) => i' = LastOf(i) + 1
        /\ ~TakesMore(av) => i' = i + 1
    <3>1. TakesMore(av) => Len(Taken) = LastOf(i) - i + 1
      BY <1>2 DEF Taken
    <3>2. ~TakesMore(av) => Len(Taken) = 1
      BY DEF Taken
    <3>3. i' = i + Len(Taken) /\ i \in 1 .. Len(words) /\ LastOf(i) \in i .. Len(words)
      BY <1>2, <2>1
    <3>4. TakesMore(av) => i' = LastOf(i) + 1
      BY <3>1, <3>3
    <3> QED
      BY <3>2, <3>3, <3>4
  <2>5. /\ \A n \in i .. LastOf(i) : ~IsSwitch(words[n])
        /\ LastOf(i) < Len(words) => IsSwitch(words[LastOf(i) + 1])
    <3>1. i \in 1 .. Len(words) + 1
      BY <1>2
    <3> QED
      BY <1>2, <3>1, LastOfGroup
  <2>6. \A n \in i .. i' - 1 : ~IsSwitch(words[n])
    BY <1>1, <1>2, <2>4, <2>5
  <2>7. Before' = {}
    <3> SUFFICES ASSUME NEW k \in Switches, k < i' PROVE FALSE
      BY <2>2 DEF Before
    <3>1. k \in DOMAIN words /\ IsSwitch(words[k]) /\ k \in 1 .. Len(words)
      BY <1>2 DEF Switches
    <3>2. ~(k < i)
      BY <1>2 DEF Before
    <3>3. k \in i .. i' - 1
      BY <1>2, <2>3, <3>1, <3>2, SMTT(60)
    <3> QED
      BY <2>6, <3>1, <3>3
  <2>8. \A k \in 1 .. av - 1 : k \in DOMAIN args /\ args[k].name # args[av].name
    <3>1. \A k \in 1 .. av - 1 : k \in DOMAIN args /\ k # av
      BY <1>3, <1>4, <2>1
    <3> QED
      BY <1>2, <2>1, <3>1, Table
  <2>9. DOMAIN result = Named(av - 1)
    BY <1>2 DEF ResultInv
  <2>10. args[av].name \notin DOMAIN result
    BY <2>8, <2>9 DEF Named
  <2>11. /\ result'[args[av].name] = Taken
         /\ \A k \in 1 .. av - 1 : result'[args[k].name] = result[args[k].name]
         /\ DOMAIN result' = DOMAIN result \cup {args[av].name}
    <3>1. \A k \in 1 .. av - 1 : args[k].name \in DOMAIN result
      BY <2>9 DEF Named
    <3> QED
      BY <2>1, <2>8, <3>1 DEF With
  <2>12. av' - 1 = av /\ \A k \in 1 .. av : k = av \/ k \in 1 .. av - 1
    BY <1>3, <2>1
  <2>13. PlaceInv'
    <3>1. need_switch' => av' > 1
      BY <1>3, <2>1
    <3>2. ASSUME NEW k \in 1 .. av - 1
          PROVE  /\ k < i' /\ k \in DOMAIN words /\ ~IsSwitch(words[k])
                 /\ k \in DOMAIN args /\ args[k].place # "f"
                 /\ TakesMore(k) <=> k = av /\ need_switch'
                 /\ result'[args[k].name] = IF k = av /\ need_switch' THEN Group(k) ELSE <<words[k]>>
      <4>1. /\ k < i /\ k \in DOMAIN words /\ ~IsSwitch(words[k])
            /\ k \in DOMAIN args /\ args[k].place # "f"
            /\ ~TakesMore(k)
            /\ result[args[k].name] = <<words[k]>>
        BY <1>2 DEF PlaceInv
      <4>2. k < i'
        BY <1>2, <2>3, <3>2, <4>1
      <4>3. k # av
        BY <1>3, <3>2
      <4> QED
        BY <2>11, <4>1, <4>2, <4>3
    <3>3. /\ av < i' /\ av \in DOMAIN words /\ ~IsSwitch(words[av])
          /\ av \in DOMAIN args /\ args[av].place # "f"
          /\ TakesMore(av) <=> need_switch'
          /\ result'[args[av].name] = IF need_switch' THEN Group(av) ELSE <<words[av]>>
      BY <1>1, <1>2, <2>1, <2>3, <2>11 DEF Taken
    <3>4. \A k \in 1 .. av :
            /\ k < i' /\ k \in DOMAIN words /\ ~IsSwitch(words[k])
            /\ k \in DOMAIN args /\ args[k].place # "f"
            /\ TakesMore(k) <=> k = av /\ need_switch'
            /\ result'[args[k].name] = IF k = av /\ need_switch' THEN Group(k) ELSE <<words[k]>>
      BY <2>12, <3>2, <3>3
    <3> QED
      BY <1>1, <2>2, <2>12, <3>1, <3>4 DEF PlaceInv
  <2>14. FrontInv'
    <3>1. i' <= Len(words) /\ ~IsSwitch(words[i']) => ~need_switch' /\ i' = av'
      BY <1>2, <1>3, <2>1, <2>4, <2>5
    <3>2. \A k \in 1 .. i' - 1 : k < av' \/ need_switch'
      BY <1>2, <1>3, <2>1, <2>4
    <3> QED
      BY <1>1, <2>7, <3>1, <3>2 DEF FrontInv
  <2>15. SwitchInv'
    BY <2>7 DEF SwitchInv
  <2>16. ResultInv'
    <3>1. Named(av) = Named(av - 1) \cup {args[av].name}
      BY <1>3, <2>12 DEF Named
    <3>2. DOMAIN result' = Named(av)
      BY <2>9, <2>11, <3>1
    <3>3. IsFiniteSet(DOMAIN result) /\ Cardinality(DOMAIN result) = Cardinality(Before) + av - 1
      BY <1>2 DEF ResultInv
    <3>4. /\ IsFiniteSet(DOMAIN result')
          /\ Cardinality(DOMAIN result') = Cardinality(DOMAIN result) + 1
      BY <2>1, <2>10, <3>3, OneMoreName
    <3>5. Before = {} /\ Cardinality({}) = 0
      BY <1>2, FS_EmptySet
    <3>6. Cardinality(DOMAIN result') = Cardinality({}) + av' - 1
      BY <1>3, <2>1, <3>3, <3>4, <3>5
    <3>7. Named(av - 1)' = Named(av)
      BY <2>2, <2>12
    <3>8. {TagName(k) : k \in Before}' = {}
      BY <2>7
    <3>9. DOMAIN result' = Named(av - 1)' \cup {TagName(k) : k \in Before}'
      BY <3>2, <3>7, <3>8
    <3>10. Cardinality(DOMAIN result') = Cardinality(Before') + av' - 1
      BY <2>7, <3>6
    <3> QED
      BY <3>4, <3>9, <3>10 DEF ResultInv
  <2>17. NumberInv'
    BY <1>1, <1>2, <2>1, OneMoreFits
  <2>18. StageInv'
    <3>1. i' \in 1 .. Len(words) + 1 /\ av' \in Nat \ {0} /\ need_switch' \in BOOLEAN
          /\ av' <= Len(args) + 1
      <4>1. i' \in 1 .. Len(words) + 1
        BY <1>2, <2>3
      <4>2. av' \in Nat \ {0} /\ av' <= Len(args) + 1
        BY <1>3, <1>4, <2>1
      <4>3. TakesMore(av) \in BOOLEAN
        BY DEF TakesMore
      <4> QED
        BY <2>1, <4>1, <4>2, <4>3
    <3> QED
      BY <1>1, <1>3, <2>1, <2>2, <3>1 DEF LineInv, StageInv, Working
  <2>19. RightCommand' /\ ExitInv'
    BY <1>1, <1>7, <2>1 DEF LineInv, RightCommand, Longer, ExitInv
  <2> QED
    BY <2>13, <2>14, <2>15, <2>16, <2>17, <2>18, <2>19 DEF LineInv, ParseInv
<1> QED
  BY <1>6, <1>7

\* Words go to the argument of the switch before them.
LEMMA TaggedKeeps ==
  ASSUME LineInv, Tagged
  PROVE  LineInv'
<1> DEFINE ws == Group(i + 1)
<1>1. /\ stage = "parse" /\ i <= Len(words) /\ IsSwitch(words[i])
      /\ UNCHANGED <<order, typed, words, cmd, av, need_switch>>
  BY DEF Tagged, Parsing, Stay
<1>2. /\ cmd \in DOMAIN Commands /\ words \in Seq(Words) /\ i \in 1 .. Len(words) /\ Len(words) \in Nat
      /\ PlaceInv /\ FrontInv /\ SwitchInv /\ ResultInv /\ NumberInv
      /\ av \in Nat \ {0} /\ av <= Len(args) + 1 /\ cmd # None /\ need_switch \in BOOLEAN
  BY <1>1 DEF LineInv, StageInv, ParseInv, Working
<1>3. DOMAIN args = 1 .. Len(args) /\ Len(args) \in Nat
  BY <1>2, Table
<1>4. i + 1 \in 1 .. Len(words) + 1 /\ i \in DOMAIN words /\ i \in 1 .. Len(words) + 1
  BY <1>2
<1>5. ~InPlace
  BY <1>1, <1>2, <1>4, NoSwitches
<1>6. CASE words[i].text = HelpName
  <2>1. /\ stage' = "exit" /\ exitcode' \in {0, 1} /\ UNCHANGED <<i, result>>
        /\ how' = (IF \A k \in DOMAIN args : args[k].place = "f" \/ args[k].described
                   THEN "help" ELSE "traceback")
    BY <1>6 DEF Tagged, Crash, Exit
  <2>2. how' = "traceback" \/ how' = "usage" => ~AllTagged
    BY <1>1, <1>6, <2>1, AllTaggedFits
  <2> QED
    BY <1>1, <1>2, <1>5, <2>1, <2>2, RefusalKeeps
<1>7. CASE words[i].text # HelpName /\ (words[i].text = <<>> \/ Rejected(TagName(i)))
  <2>1. /\ stage' = "exit" /\ exitcode' = 2 /\ UNCHANGED <<i, result>>
    BY <1>7 DEF Tagged, Misused, Exit, TagName
  <2>2. ~AllTagged
    BY <1>1, <1>7, AllTaggedFits
  <2> QED
    BY <1>1, <1>2, <1>5, <2>1, <2>2, RefusalKeeps
<1>8. CASE /\ words[i].text # HelpName /\ ~(words[i].text = <<>> \/ Rejected(TagName(i)))
           /\ Unreadable(ws)
  <2>1. /\ stage' = "exit" /\ exitcode' = 1 /\ UNCHANGED <<i, result>>
    BY <1>8 DEF Tagged, Crash, Exit, TagName
  <2>2. ~AllTagged
    BY <1>1, <1>8, AllTaggedFits
  <2> QED
    BY <1>1, <1>2, <1>5, <2>1, <2>2, RefusalKeeps
<1>9. CASE /\ words[i].text # HelpName /\ ~(words[i].text = <<>> \/ Rejected(TagName(i)))
           /\ ~Unreadable(ws)
  <2> DEFINE a == Argument(args, TagName(i))
  <2>1. Accept(a, ws, i + 1 + Len(ws))
    BY <1>9 DEF Tagged, TagName
  <2> HIDE DEF ws, a
  <2>2. \/ /\ Bad(a, ws) /\ stage' = "exit" /\ exitcode' \in {1, 2}
           /\ UNCHANGED <<i, result>>
        \/ /\ ~Bad(a, ws) /\ i' = i + 1 + Len(ws) /\ result' = With(a, ws)
           /\ UNCHANGED <<stage, exitcode, how>>
    BY <2>1, AcceptCases
  <2>3. CASE Bad(a, ws) /\ stage' = "exit" /\ exitcode' \in {1, 2} /\ UNCHANGED <<i, result>>
    <3>1. ~AllTagged
      BY <1>1, <2>3, AllTaggedFits DEF a, ws
    <3>2. exitcode' \in {0, 1, 2, 3, 5}
      BY <2>3
    <3> QED
      BY <1>1, <1>2, <1>5, <2>3, <3>1, <3>2, RefusalKeeps
  <2>4. CASE /\ ~Bad(a, ws) /\ i' = i + 1 + Len(ws) /\ result' = With(a, ws)
             /\ UNCHANGED <<stage, exitcode, how>>
    <3>1. TagName(i) \notin {None, Ambiguous} /\ TagName(i) \notin DOMAIN result
      BY <1>9 DEF Rejected
    <3>2. TagName(i) \in Range(NamesOf(args))
      <4>1. ProperTable(args)
        BY <1>2, Table
      <4>2. NamesOf(args) \in Seq(Range(NamesOf(args)))
        BY <4>1, TableNames
      <4> QED
        BY <3>1, <4>2, LookupFinds DEF TagName
    <3>3. PICK m \in DOMAIN args : TagName(i) = args[m].name
      BY <1>2, <3>2, Table
    <3>4. a = args[m] /\ a.name = TagName(i)
      BY <1>2, <3>3, Table DEF a
    <3>5. /\ args' = args /\ Switches' = Switches
          /\ \A k : Group(k)' = Group(k) /\ TakesMore(k)' = TakesMore(k) /\ TagName(k)' = TagName(k)
          /\ \A n : Named(n)' = Named(n)
      BY <1>1, LineStays
    <3>6. /\ LastOf(i + 1) \in i .. Len(words)
          /\ \A n \in i + 1 .. LastOf(i + 1) : ~IsSwitch(words[n])
          /\ LastOf(i + 1) < Len(words) => IsSwitch(words[LastOf(i + 1) + 1])
          /\ Len(ws) = LastOf(i + 1) - (i + 1) + 1
      <4>1. i + 1 - 1 = i
        BY <1>2
      <4> QED
        <5>1. /\ LastOf(i + 1) \in i + 1 - 1 .. Len(words)
              /\ \A n \in i + 1 .. LastOf(i + 1) : ~IsSwitch(words[n])
              /\ LastOf(i + 1) < Len(words) => IsSwitch(words[LastOf(i + 1) + 1])
          BY <1>2, <1>4, LastOfGroup
        <5>2. Len(Group(i + 1)) = LastOf(i + 1) - (i + 1) + 1
          BY <1>2, <1>4, GroupIs
        <5> QED
          BY <4>1, <5>1, <5>2 DEF ws
    <3>7. i' = LastOf(i + 1) + 1 /\ i' \in i + 1 .. Len(words) + 1
      BY <1>2, <2>4, <3>6, SMTT(60)
    <3>8. Before' = Before \cup {i} /\ i \notin Before
      <4>1. i \in Switches /\ i \notin Before
        BY <1>1, <1>2, <1>4 DEF Switches, Before
      <4>2. ASSUME NEW k \in Switches, k < i', ~(k < i), k # i PROVE FALSE
        <5>1. k \in 1 .. Len(words) /\ IsSwitch(words[k])
          BY <1>2 DEF Switches
        <5>2. k \in i + 1 .. LastOf(i + 1)
          BY <1>2, <3>6, <3>7, <4>2, <5>1
        <5> QED
          BY <3>6, <5>1, <5>2
      <4>3. \A k \in Switches : k < i => k < i'
        BY <1>2, <3>7 DEF Switches
      <4>4. i < i'
        BY <1>2, <3>7
      <4> QED
        BY <3>5, <4>1, <4>2, <4>3, <4>4 DEF Before
    <3>9. /\ DOMAIN result' = DOMAIN result \cup {TagName(i)}
          /\ result'[TagName(i)] = ws
          /\ \A n \in DOMAIN result : result'[n] = result[n]
      BY <2>4, <3>1, <3>4 DEF With
    <3>10. DOMAIN result = Named(av - 1) \cup {TagName(k) : k \in Before}
      BY <1>2 DEF ResultInv
    <3>11. PlaceInv'
      <4>1. ASSUME NEW k \in 1 .. av - 1
            PROVE  /\ k < i' /\ k \in DOMAIN words /\ ~IsSwitch(words[k])
                   /\ k \in DOMAIN args /\ args[k].place # "f"
                   /\ TakesMore(k) <=> k = av - 1 /\ need_switch
                   /\ result'[args[k].name] =
                        IF k = av - 1 /\ need_switch THEN Group(k) ELSE <<words[k]>>
        <5>1. /\ k < i /\ k \in DOMAIN words /\ ~IsSwitch(words[k])
              /\ k \in DOMAIN args /\ args[k].place # "f"
              /\ TakesMore(k) <=> k = av - 1 /\ need_switch
              /\ result[args[k].name] =
                   IF k = av - 1 /\ need_switch THEN Group(k) ELSE <<words[k]>>
          BY <1>2 DEF PlaceInv
        <5>2. args[k].name \in DOMAIN result
          BY <3>10 DEF Named
        <5>3. result'[args[k].name] = result[args[k].name]
          BY <3>9, <5>2
        <5>4. k < i'
          BY <1>2, <3>7, <5>1
        <5> QED
          BY <5>1, <5>3, <5>4
      <4> QED
        BY <1>1, <1>2, <3>5, <4>1 DEF PlaceInv
    <3>12. FrontInv'
      <4>1. i' <= Len(words) => IsSwitch(words[i'])
        BY <1>2, <3>6, <3>7
      <4>2. ASSUME NEW k \in 1 .. i' - 1, \A n \in 1 .. k : ~IsSwitch(words[n])
            PROVE  k < av \/ need_switch
        <5>1. ~(i \in 1 .. k)
          BY <1>1, <4>2
        <5>2. k \in 1 .. i - 1
          BY <1>2, <3>7, <5>1
        <5> QED
          BY <1>2, <4>2, <5>2 DEF FrontInv
      <4> QED
        BY <1>1, <4>1, <4>2 DEF FrontInv
    <3>13. SwitchInv'
      <4>1. ASSUME NEW k \in Before
            PROVE  TagName(k) \notin {None, Ambiguous} /\ result'[TagName(k)] = Group(k + 1)
        <5>1. TagName(k) \in DOMAIN result
          BY <3>10
        <5>2. TagName(k) \notin {None, Ambiguous} /\ result[TagName(k)] = Group(k + 1)
          BY <1>2 DEF SwitchInv
        <5> QED
          BY <3>9, <5>1, <5>2
      <4>2. TagName(i) \notin {None, Ambiguous} /\ result'[TagName(i)] = Group(i + 1)
        BY <3>1, <3>9 DEF ws
      <4>3. \A k \in Before' :
              TagName(k) \notin {None, Ambiguous} /\ result'[TagName(k)] = Group(k + 1)
        BY <3>8, <4>1, <4>2
      <4> QED
        BY <3>5, <4>3 DEF SwitchInv
    <3>14. ResultInv'
      <4>1. IsFiniteSet(DOMAIN result) /\ Cardinality(DOMAIN result) = Cardinality(Before) + av - 1
        BY <1>2 DEF ResultInv
      <4>2. IsFiniteSet(DOMAIN result') /\ Cardinality(DOMAIN result') = Cardinality(DOMAIN result) + 1
        BY <3>1, <3>9, <4>1, FS_AddElement
      <4>3. IsFiniteSet(Before)
        <5>1. IsFiniteSet(1 .. Len(words))
          BY <1>2, FS_Interval
        <5>2. Before \in SUBSET (1 .. Len(words))
          BY <1>2 DEF Before, Switches
        <5> QED
          BY <5>1, <5>2, FS_Subset
      <4>4. Cardinality(Before') = Cardinality(Before) + 1 /\ Cardinality(Before) \in Nat
        BY <3>8, <4>3, FS_AddElement, FS_CardinalityType
      <4>5. Cardinality(DOMAIN result') = Cardinality(Before') + av - 1
        BY <1>2, <4>1, <4>2, <4>4
      <4>6. {TagName(k) : k \in Before}' = {TagName(k) : k \in Before} \cup {TagName(i)}
        BY <3>5, <3>8
      <4>7. Named(av - 1)' = Named(av - 1)
        BY <1>1, <3>5
      <4>8. DOMAIN result' = Named(av - 1)' \cup {TagName(k) : k \in Before}'
        BY <3>9, <3>10, <4>6, <4>7
      <4> QED
        BY <1>1, <4>2, <4>5, <4>8 DEF ResultInv
    <3>15. NumberInv'
      BY <1>1, <1>2, <2>4, <3>3, <3>4, OneMoreFits
    <3>16. StageInv'
      <4>1. i' \in 1 .. Len(words) + 1
        BY <1>2, <3>7
      <4> QED
        BY <1>1, <1>2, <2>4, <3>5, <4>1 DEF LineInv, StageInv, Working
    <3>17. RightCommand' /\ ExitInv'
      BY <1>1, <2>4 DEF LineInv, RightCommand, Longer, ExitInv
    <3> QED
      BY <3>11, <3>12, <3>13, <3>14, <3>15, <3>16, <3>17 DEF LineInv, ParseInv
  <2> QED
    BY <2>2, <2>3, <2>4
<1> QED
  BY <1>6, <1>7, <1>8, <1>9

-----------------------------------------------------------------------------
(* When the words have been taken.                                            *)

\* If all have their switches, these are what was found.
LEMMA TaggedFound ==
  ASSUME LineInv, stage \in Working \ {"parse"}, AllTagged
  PROVE  DOMAIN result = Given
<1>1. /\ words \in Seq(Words) /\ cmd \in DOMAIN Commands /\ i = Len(words) + 1 /\ av = 1
      /\ ParseInv
  BY SwitchFirst DEF LineInv, StageInv
<1>2. Before = Switches
  BY <1>1 DEF Before, Switches
<1>3. Named(av - 1) = {}
  BY <1>1 DEF Named
<1>4. \A k \in Switches : words[k].text \in Range(NamesOf(args))
  BY DEF AllTagged
<1>5. \A k \in Switches : TagName(k) = words[k].text
  BY <1>1, <1>4, Table DEF TagName
<1>6. DOMAIN result = Named(av - 1) \cup {TagName(k) : k \in Before}
  BY <1>1 DEF ParseInv, ResultInv
<1> QED
  BY <1>2, <1>3, <1>5, <1>6 DEF Given

\* If all required ones are in their places, they were found, each at its word.
LEMMA InPlaceFound ==
  ASSUME LineInv, stage \in Working \ {"parse"}, words # <<>>, InPlace
  PROVE  \A k \in Required :
           args[k].name \in DOMAIN result /\ result[args[k].name][1] = words[k]
<1> DEFINE n == Cardinality(Required)
<1>1. /\ words \in Seq(Words) /\ cmd \in DOMAIN Commands /\ i = Len(words) + 1
      /\ ParseInv /\ av \in Nat \ {0}
  BY DEF LineInv, StageInv
<1>2. /\ n \in Nat \ {0} /\ n <= Len(args)
      /\ \A k \in 1 .. n - 1 : ~TakesMore(k)
      /\ TakesMore(n) <=> args[n].number = "m"
  BY <1>1, RequiredFirst
<1>3. /\ args[n].number = "m" => Len(words) >= n
      /\ args[n].number # "m" => Len(words) = n
      /\ Required = 1 .. n
  BY DEF InPlace
<1> HIDE DEF n
<1>4. Len(words) >= n /\ Len(words) \in Nat
  BY <1>1, <1>2, <1>3
<1>5. \A k \in DOMAIN words : ~IsSwitch(words[k])
  BY <1>1, NoSwitches
<1>6. n < av
  <2>1. n \in 1 .. i - 1 /\ \A k \in 1 .. n : k \in DOMAIN words
    BY <1>1, <1>2, <1>4
  <2>2. n < av \/ need_switch
    BY <1>1, <1>5, <2>1 DEF ParseInv, FrontInv
  <2>3. CASE need_switch
    <3>1. av - 1 \in 1 .. av - 1
      BY <1>1, <2>3 DEF ParseInv, PlaceInv
    <3>2. TakesMore(av - 1)
      BY <1>1, <2>3, <3>1 DEF ParseInv, PlaceInv
    <3>3. ~(av - 1 \in 1 .. n - 1)
      BY <1>2, <3>2
    <3> QED
      BY <1>1, <1>2, <3>1, <3>3
  <2> QED
    BY <2>2, <2>3
<1>7. ASSUME NEW k \in Required
      PROVE  args[k].name \in DOMAIN result /\ result[args[k].name][1] = words[k]
  <2>1. k \in 1 .. av - 1
    BY <1>1, <1>2, <1>3, <1>6
  <2>2. /\ k \in DOMAIN words
        /\ result[args[k].name] = IF k = av - 1 /\ need_switch THEN Group(k) ELSE <<words[k]>>
    BY <1>1, <2>1 DEF ParseInv, PlaceInv
  <2>3. args[k].name \in DOMAIN result
    BY <1>1, <2>1 DEF ParseInv, ResultInv, Named
  <2>4. Group(k)[1] = words[k]
    <3>1. k \in 1 .. Len(words) + 1 /\ k \in 1 .. Len(words)
      BY <1>1, <2>2
    <3>2. /\ LastOf(k) \in k - 1 .. Len(words)
          /\ LastOf(k) < Len(words) => IsSwitch(words[LastOf(k) + 1])
      BY <1>1, <3>1, LastOfGroup
    <3>3. LastOf(k) # k - 1
      BY <1>1, <1>5, <2>2, <3>1, <3>2
    <3>4. /\ Len(Group(k)) = LastOf(k) - k + 1
          /\ \A m \in 1 .. Len(Group(k)) : Group(k)[m] = words[k + m - 1]
      BY <1>1, <3>1, GroupIs
    <3>5. 1 \in 1 .. Len(Group(k)) /\ k + 1 - 1 = k
      BY <3>1, <3>2, <3>3, <3>4
    <3> QED
      BY <3>4, <3>5
  <2> QED
    BY <2>2, <2>3, <2>4
<1> QED
  BY <1>7

\* The steps that take no word.
LEMMA OtherKeeps ==
  ASSUME LineInv, stage \in Working, UNCHANGED <<order, typed, words, cmd>>, Parsed,
         stage' \in Working \cup {"exit"},
         stage' \in Working \ {"parse"} => i = Len(words) + 1,
         stage' \in {"missing", "combine"} => words # <<>>,
         exitcode' \in {0, 1, 2, 3, 5},
         stage' = "exit" /\ (AllTagged \/ InPlace) =>
           /\ how' = "usage" => \E c \in Commands[cmd].cant : c \subseteq DOMAIN result
           /\ how' = "traceback" => i > Len(words)
  PROVE  LineInv'
<1>1. UNCHANGED <<words, cmd, i, av, need_switch, result>>
  BY DEF Parsed
<1>2. args' = args /\ AllTagged' = AllTagged /\ InPlace' = InPlace
  BY LineStays
<1>3. ParseInv' /\ NumberInv'
  BY <1>1, ParsedStays DEF LineInv, StageInv
<1>4. StageInv'
  BY <1>1, <1>2 DEF LineInv, StageInv, Working
<1>5. RightCommand'
  BY DEF LineInv, RightCommand, Longer, Working
<1>6. ExitInv'
  BY <1>1, <1>2 DEF ExitInv
<1> QED
  BY <1>3, <1>4, <1>5, <1>6 DEF LineInv

\* There are no more words.
LEMMA EndOfWordsKeeps ==
  ASSUME LineInv, EndOfWords
  PROVE  LineInv'
<1>1. /\ stage = "parse" /\ i > Len(words) /\ UNCHANGED <<order, typed, words, cmd>> /\ Parsed
      /\ stage' \in {"cell", "missing"} /\ exitcode' = exitcode
      /\ stage' = "missing" => words # <<>>
  BY DEF EndOfWords, Stay
<1>2. i = Len(words) + 1 /\ exitcode \in {0, 1, 2, 3, 5}
  BY <1>1 DEF LineInv, StageInv
<1> QED
  BY <1>1, <1>2, OtherKeeps DEF Working

\* Required arguments are looked for.
LEMMA CheckMissingKeeps ==
  ASSUME LineInv, CheckMissing
  PROVE  LineInv'
<1>1. /\ stage = "missing" /\ UNCHANGED <<order, typed, words, cmd>> /\ Parsed
      /\ IF \E k \in DOMAIN args :
              /\ \A n \in 1 .. k : args[n].place = "r"
              /\ args[k].name \notin DOMAIN result
         THEN stage' = "exit" /\ exitcode' = 2
         ELSE stage' = "combine" /\ exitcode' = exitcode
  BY DEF CheckMissing, Stay, Misused, Exit
<1>2. /\ i = Len(words) + 1 /\ exitcode \in {0, 1, 2, 3, 5} /\ cmd \in DOMAIN Commands
      /\ words # <<>>
  BY <1>1 DEF LineInv, StageInv, Working
<1>3. ASSUME AllTagged \/ InPlace
      PROVE  \A k \in DOMAIN args :
               (\A n \in 1 .. k : args[n].place = "r") => args[k].name \in DOMAIN result
  <2> SUFFICES ASSUME NEW k \in DOMAIN args, \A n \in 1 .. k : args[n].place = "r"
               PROVE  args[k].name \in DOMAIN result
    OBVIOUS
  <2>1. args[k].place = "r"
    <3>1. k \in 1 .. k
      BY <1>2, Table
    <3> QED
      BY <3>1
  <2>2. CASE AllTagged
    BY <1>1, <2>1, <2>2, TaggedFound DEF Working, AllTagged
  <2>3. CASE InPlace
    BY <1>1, <1>2, <2>1, <2>3, InPlaceFound DEF Working, Required
  <2> QED
    BY <1>3, <2>2, <2>3
<1>4. CASE stage' = "exit"
  <2>1. ~AllTagged /\ ~InPlace
    BY <1>1, <1>3, <1>4
  <2> QED
    BY <1>1, <1>2, <1>4, <2>1, OtherKeeps DEF Working
<1>5. CASE stage' # "exit"
  BY <1>1, <1>2, <1>5, OtherKeeps DEF Working
<1> QED
  BY <1>4, <1>5

\* Nothing later takes words, and nothing later is a usage error but combinations.
LEMMA LaterKeeps ==
  ASSUME LineInv, CheckCombinations \/ DefaultCell \/ Run \/ ShowTopics
  PROVE  LineInv'
<1>1. UNCHANGED <<order, typed, words, cmd>> /\ Parsed
  BY DEF CheckCombinations, DefaultCell, Run, ShowTopics, Stay
<1>2. stage \in {"combine", "cell", "run", "topics"}
  BY DEF CheckCombinations, DefaultCell, Run, ShowTopics
<1>3. i = Len(words) + 1 /\ exitcode \in {0, 1, 2, 3, 5} /\ i > Len(words)
  <2>1. i = Len(words) + 1 /\ exitcode \in {0, 1, 2, 3, 5} /\ words \in Seq(Words)
    BY <1>2 DEF LineInv, StageInv, Working
  <2> QED
    BY <2>1
<1>4. CASE CheckCombinations
  <2>1. \/ stage' = "exit" /\ exitcode' = 2 /\ \E c \in Commands[cmd].cant : c \subseteq DOMAIN result
        \/ stage' = "cell" /\ exitcode' = exitcode
    BY <1>4 DEF CheckCombinations, Misused, Exit
  <2> QED
    BY <1>1, <1>2, <1>3, <2>1, OtherKeeps DEF Working
<1>5. CASE DefaultCell
  <2>1. \/ stage' = "exit" /\ exitcode' = 1 /\ how' = "traceback"
        \/ stage' \in {"topics", "run"} /\ exitcode' = exitcode
    BY <1>5 DEF DefaultCell, Crash, Exit
  <2> QED
    BY <1>1, <1>2, <1>3, <2>1, OtherKeeps DEF Working
<1>6. CASE Run \/ ShowTopics
  <2>1. stage' = "exit" /\ exitcode' \in {0, 1, 2, 3, 5} /\ how' \notin {"usage", "traceback"}
    BY <1>6 DEF Run, ShowTopics, Exit
  <2> QED
    BY <1>1, <1>2, <1>3, <2>1, OtherKeeps DEF Working
<1> QED
  BY <1>4, <1>5, <1>6

-----------------------------------------------------------------------------
(* What holds of every command line.                                          *)

\* Every step keeps the invariant, for all tables of arguments and lines of words.
THEOREM LineInvariance == LineSpec => []LineInv
<1>1. LineInit => LineInv
  <2> SUFFICES ASSUME LineInit PROVE LineInv
    OBVIOUS
  <2>1. PICK n \in 0 .. MaxWords : words \in [1 .. n -> Words]
    BY DEF LineInit
  <2>2. words \in Seq(Words)
    BY <2>1, CommandLineAssumption
  <2>3. 1 \in 1 .. Len(words) + 1
    BY <2>2
  <2>4. StageInv
    <3>1. /\ order \in Orders /\ stage = "lookup" /\ cmd = None /\ i = 1 /\ av = 1
          /\ need_switch = FALSE /\ result = <<>> /\ exitcode = 0
      BY DEF LineInit
    <3>2. i \in 1 .. Len(words) + 1 /\ av \in Nat \ {0}
      BY <2>3, <3>1
    <3> QED
      BY <2>2, <3>1, <3>2 DEF StageInv, Working
  <2> QED
    BY <2>4 DEF LineInit, LineInv, RightCommand, ExitInv, Working
<1>2. LineInv /\ [LineNext]_lineVars => LineInv'
  <2> SUFFICES ASSUME LineInv, [LineNext]_lineVars PROVE LineInv'
    OBVIOUS
  <2>1. CASE UNCHANGED lineVars
    <3>1. UNCHANGED <<order, typed, words, stage, cmd, i, av, need_switch, result, exitcode, how>>
      BY <2>1 DEF lineVars
    <3>2. args' = args /\ AllTagged' = AllTagged /\ InPlace' = InPlace
      BY <3>1, LineStays
    <3>3. (ParseInv => ParseInv') /\ (NumberInv => NumberInv')
      BY <3>1, ParsedStays
    <3>4. StageInv' /\ RightCommand' /\ ExitInv'
      BY <3>1, <3>2 DEF LineInv, StageInv, RightCommand, Longer, ExitInv
    <3> QED
      BY <3>1, <3>3, <3>4 DEF LineInv
  <2>2. CASE FindCommand
    BY <2>2, FindCommandKeeps
  <2>3. CASE Positional
    BY <2>3, PositionalKeeps
  <2>4. CASE Tagged
    BY <2>4, TaggedKeeps
  <2>5. CASE EndOfWords
    BY <2>5, EndOfWordsKeeps
  <2>6. CASE CheckMissing
    BY <2>6, CheckMissingKeeps
  <2>7. CASE CheckCombinations \/ DefaultCell \/ Run \/ ShowTopics
    BY <2>7, LaterKeeps
  <2> QED
    BY <2>1, <2>2, <2>3, <2>4, <2>5, <2>6, <2>7 DEF LineNext
<1> QED
  BY <1>1, <1>2, PTL DEF LineSpec

\* Every variable keeps to its type; in particular each argument that is found has
\* as many words as it takes.
THEOREM LineTypeCorrect == LineSpec => []LineTypeOK
<1>1. LineInv => LineTypeOK
  BY DEF LineInv, StageInv, Working, NumberInv, LineTypeOK
<1> QED
  BY <1>1, LineInvariance, PTL

\* The command that is named is run, or the one that is abbreviated.
THEOREM AlwaysRightCommand == LineSpec => []RightCommand
<1>1. LineInv => RightCommand
  BY DEF LineInv
<1> QED
  BY <1>1, LineInvariance, PTL

\* Each word goes to one argument, and is not replaced.
THEOREM AlwaysUsedOnce == LineSpec => []EveryWordUsedOnce
<1>1. LineInv => EveryWordUsedOnce
  <2> SUFFICES ASSUME LineInv, stage \in {"missing", "combine"} PROVE EveryWordUsedOnce
    BY DEF EveryWordUsedOnce
  <2>1. ParseInv /\ words \in Seq(Words) /\ i = Len(words) + 1
    BY DEF LineInv, StageInv, Working
  <2>2. Before = Switches
    BY <2>1 DEF Before, Switches
  <2>3. DOMAIN words = 1 .. i - 1
    BY <2>1
  <2>4. \A k \in DOMAIN words :
          (\A n \in 1 .. k : ~IsSwitch(words[n])) => k < av \/ need_switch
    BY <2>1, <2>3 DEF ParseInv, FrontInv
  <2>5. \A k \in 1 .. av - 1 :
          result[args[k].name] = IF k = av - 1 /\ need_switch THEN Group(k) ELSE <<words[k]>>
    BY <2>1 DEF ParseInv, PlaceInv
  <2>6. \A k \in Switches : result[Lookup(NamesOf(args), words[k].text)] = Group(k + 1)
    BY <2>1, <2>2 DEF ParseInv, SwitchInv, TagName
  <2>7. Cardinality(DOMAIN result) = Cardinality(Switches) + av - 1
    BY <2>1, <2>2 DEF ParseInv, ResultInv
  <2> QED
    BY <2>4, <2>5, <2>6, <2>7 DEF EveryWordUsedOnce
<1> QED
  BY <1>1, LineInvariance, PTL

\* A line as the manual has it is understood as the manual says.
THEOREM AlwaysAsInManual == LineSpec => []ManualHolds
<1>1. LineInv => ManualHolds
  <2> SUFFICES ASSUME LineInv PROVE ManualHolds
    OBVIOUS
  <2>1. ExitInv /\ i \in 1 .. Len(words) + 1 /\ words \in Seq(Words)
    BY DEF LineInv, StageInv
  <2>2. stage = "combine" => words # <<>>
    BY DEF LineInv, StageInv
  <2>3. stage = "combine" /\ AllTagged => DOMAIN result = Given
    BY TaggedFound DEF Working
  <2>4. stage = "combine" /\ InPlace => \A k \in Required : result[args[k].name][1] = words[k]
    BY <2>2, InPlaceFound DEF Working
  <2>5. i <= Len(words) => ~(i > Len(words))
    BY <2>1
  <2> QED
    BY <2>1, <2>3, <2>4, <2>5 DEF ManualHolds, ExitInv
<1> QED
  BY <1>1, LineInvariance, PTL

-----------------------------------------------------------------------------
(* The helper's reading of a line.                                            *)

\* No dash follows one of a switch that takes words.
Spaced(table, ws) ==
  \A k \in DOMAIN ws : k > 1 /\ Dashed(ws[k]) /\ Dashed(ws[k - 1])
                         => Unique(table, ws[k - 1]).number = "n"

\* Then the helper takes each dash for a switch.
LEMMA CanonIs ==
  ASSUME NEW table, NEW ws, DOMAIN ws = 1 .. Len(ws), Len(ws) \in Nat, Spaced(table, ws),
         NEW k \in DOMAIN ws
  PROVE  Canon(table, ws)[k] = IF Dashed(ws[k]) THEN Unique(table, ws[k]) ELSE NoArgument
<1> DEFINE n == Len(ws) + 1
           skips(s) == s = [m \in 1 .. n |-> /\ m > 1 /\ Dashed(ws[m - 1]) /\ ~s[m - 1]
                                             /\ Unique(table, ws[m - 1]).number # "n"]
           f == [m \in 1 .. n |-> /\ m > 1 /\ Dashed(ws[m - 1])
                                  /\ Unique(table, ws[m - 1]).number # "n"]
           F == CHOOSE s : skips(s)
<1>0. \A m \in 1 .. n : m > 1 => m - 1 \in 1 .. n /\ m - 1 \in 1 .. Len(ws)
  <2> HIDE DEF f, skips, F
  <2> QED
    OBVIOUS
<1>1. skips(f)
  <2>1. ASSUME NEW m \in 1 .. n, m > 1, Dashed(ws[m - 1]),
               Unique(table, ws[m - 1]).number # "n"
        PROVE  ~f[m - 1]
    <3>1. m - 1 \in 1 .. n /\ m - 1 \in DOMAIN ws
      BY <1>0, <2>1
    <3>2. m - 1 > 1 => ~(Dashed(ws[m - 1 - 1]) /\ Unique(table, ws[m - 1 - 1]).number # "n")
      BY <2>1, <3>1 DEF Spaced
    <3>3. f[m - 1] = (/\ m - 1 > 1 /\ Dashed(ws[m - 1 - 1])
                      /\ Unique(table, ws[m - 1 - 1]).number # "n")
      BY <3>1
    <3> QED
      BY <3>2, <3>3
  <2>2. ASSUME NEW m \in 1 .. n
        PROVE  f[m] = (/\ m > 1 /\ Dashed(ws[m - 1]) /\ ~f[m - 1]
                       /\ Unique(table, ws[m - 1]).number # "n")
    BY <2>1
  <2> QED
    BY <2>2
<1>2. skips(F)
  <2> HIDE DEF skips
  <2> QED
    BY <1>1
<1>3. Skipped(table, ws) = F
  BY Zenon DEF Skipped, n
<1> HIDE DEF F
<1>4. k \in 1 .. n
  OBVIOUS
<1>5. F[k] = (/\ k > 1 /\ Dashed(ws[k - 1]) /\ ~F[k - 1]
              /\ Unique(table, ws[k - 1]).number # "n")
  BY <1>2, <1>4
<1>6. Dashed(ws[k]) => ~F[k]
  BY <1>5 DEF Spaced
<1>7. Canon(table, ws)[k] = IF Dashed(ws[k]) /\ ~F[k] THEN Unique(table, ws[k]) ELSE NoArgument
  BY <1>3 DEF Canon
<1> QED
  BY <1>6, <1>7

\* The switch at s is the last one up to k, ...
Latest(canon, s, k) == canon[s] # NoArgument /\ \A n \in s + 1 .. k : canon[n] = NoArgument
\* ... and in force there as long as it has not had its words.
Hold(canon, s, k) ==
  IF canon[s].number = "n" \/ (canon[s].number = "s" /\ s < k)
  THEN InForce(NoArgument, FALSE) ELSE InForce(canon[s], s < k)
LatestOf(canon, k) == CHOOSE s \in 1 .. k : Latest(canon, s, k)
Holding(canon, k) == IF \E s \in 1 .. k : Latest(canon, s, k)
                     THEN Hold(canon, LatestOf(canon, k), k) ELSE InForce(NoArgument, FALSE)

\* There is at most one last switch.
LEMMA LatestIs ==
  ASSUME NEW canon, NEW k \in Nat, NEW s \in 1 .. k, Latest(canon, s, k)
  PROVE  LatestOf(canon, k) = s /\ Holding(canon, k) = Hold(canon, s, k)
<1>1. \A m \in 1 .. k : Latest(canon, m, k) => m = s
  <2> SUFFICES ASSUME NEW m \in 1 .. k, Latest(canon, m, k), m # s PROVE FALSE
    OBVIOUS
  <2>1. m \in s + 1 .. k \/ s \in m + 1 .. k
    OBVIOUS
  <2> QED
    BY <2>1 DEF Latest
<1>2. LatestOf(canon, k) = s
  BY <1>1 DEF LatestOf
<1> QED
  BY <1>2 DEF Holding

\* One more word.
LEMMA HoldingNext ==
  ASSUME NEW canon, NEW k \in Nat \ {0},
         \A n \in 1 .. k : canon[n].number \in {"s", "m", "n"}
  PROVE  Holding(canon, k) = After(Holding(canon, k - 1), canon[k])
<1>1. CASE canon[k] # NoArgument
  <2>1. Latest(canon, k, k) /\ k \in 1 .. k /\ ~(k < k)
    BY <1>1 DEF Latest
  <2>2. Holding(canon, k) = Hold(canon, k, k)
    BY <2>1, LatestIs
  <2>3. (k < k) = FALSE
    BY <2>1
  <2>4. Hold(canon, k, k) = IF canon[k].number = "n" THEN InForce(NoArgument, FALSE)
                            ELSE InForce(canon[k], FALSE)
    BY <2>3 DEF Hold
  <2>5. After(Holding(canon, k - 1), canon[k])
          = InForce(IF canon[k].number = "n" THEN NoArgument ELSE canon[k], FALSE)
    BY <1>1 DEF After
  <2> QED
    BY <2>2, <2>4, <2>5
<1>2. CASE canon[k] = NoArgument /\ \E s \in 1 .. k - 1 : Latest(canon, s, k - 1)
  <2>1. PICK s \in 1 .. k - 1 : Latest(canon, s, k - 1)
    BY <1>2
  <2>2. \A n \in s + 1 .. k : n = k \/ n \in s + 1 .. k - 1
    OBVIOUS
  <2>3. Latest(canon, s, k) /\ s \in 1 .. k /\ s < k /\ k - 1 \in Nat
    BY <1>2, <2>1, <2>2 DEF Latest
  <2>4. Holding(canon, k - 1) = Hold(canon, s, k - 1) /\ Holding(canon, k) = Hold(canon, s, k)
    BY <2>1, <2>3, LatestIs
  <2>5. canon[s].number \in {"s", "m", "n"} /\ canon[s] # NoArgument
    BY <2>1, <2>3 DEF Latest
  <2>6. s < k - 1 \/ s = k - 1
    OBVIOUS
  <2> DEFINE h == Hold(canon, s, k - 1)
  <2>7. NoArgument.number = "n"
    BY DEF NoArgument
  <2>8. CASE canon[s].number = "n" \/ (canon[s].number = "s" /\ s < k - 1)
    <3>1. h.last = NoArgument
      BY <2>8 DEF Hold, InForce
    <3>2. Hold(canon, s, k) = InForce(NoArgument, FALSE)
      BY <2>3, <2>8 DEF Hold
    <3>3. After(h, canon[k]) = InForce(NoArgument, FALSE)
      BY <1>2, <2>7, <3>1 DEF After
    <3> QED
      BY <2>4, <3>2, <3>3
  <2>9. CASE canon[s].number = "s" /\ ~(s < k - 1)
    <3>1. h.last = canon[s]
      BY <2>9 DEF Hold, InForce
    <3>2. Hold(canon, s, k) = InForce(NoArgument, FALSE)
      BY <2>3, <2>9 DEF Hold
    <3>3. After(h, canon[k]) = InForce(NoArgument, FALSE)
      BY <1>2, <2>9, <3>1 DEF After
    <3> QED
      BY <2>4, <3>2, <3>3
  <2>10. CASE canon[s].number = "m"
    <3>1. h.last = canon[s]
      BY <2>10 DEF Hold, InForce
    <3>2. Hold(canon, s, k) = InForce(canon[s], s < k)
      BY <2>10 DEF Hold
    <3>3. After(h, canon[k]) = InForce(canon[s], canon[s] # NoArgument)
      BY <1>2, <2>10, <3>1 DEF After
    <3>4. (s < k) = TRUE /\ (canon[s] # NoArgument) = TRUE
      BY <2>3, <2>5
    <3> QED
      BY <2>4, <3>2, <3>3, <3>4
  <2> QED
    BY <2>5, <2>8, <2>9, <2>10
<1>3. CASE canon[k] = NoArgument /\ ~\E s \in 1 .. k - 1 : Latest(canon, s, k - 1)
  <2>1. ASSUME NEW s \in 1 .. k, Latest(canon, s, k) PROVE FALSE
    <3>1. s # k
      BY <1>3, <2>1 DEF Latest
    <3>2. s \in 1 .. k - 1 /\ \A n \in s + 1 .. k - 1 : n \in s + 1 .. k
      BY <3>1
    <3>3. Latest(canon, s, k - 1)
      BY <2>1, <3>2 DEF Latest
    <3> QED
      BY <1>3, <3>2, <3>3
  <2>2. Holding(canon, k) = InForce(NoArgument, FALSE)
        /\ Holding(canon, k - 1) = InForce(NoArgument, FALSE)
    BY <1>3, <2>1 DEF Holding
  <2>3. After(InForce(NoArgument, FALSE), NoArgument) = InForce(NoArgument, FALSE)
    <3>1. InForce(NoArgument, FALSE).last = NoArgument /\ NoArgument.number = "n"
      BY DEF InForce, NoArgument
    <3>2. (NoArgument # NoArgument) = FALSE
      OBVIOUS
    <3> QED
      BY <3>1, <3>2 DEF After
  <2> QED
    BY <1>3, <2>2, <2>3
<1> QED
  BY <1>1, <1>2, <1>3

\* What the helper reads.
LEMMA ReadingIs ==
  ASSUME NEW table, NEW ws, DOMAIN ws = 1 .. Len(ws), Len(ws) \in Nat,
         \A n \in DOMAIN ws : Canon(table, ws)[n].number \in {"s", "m", "n"},
         NEW k \in 0 .. Len(ws)
  PROVE  Reading(table, ws)[k] = Holding(Canon(table, ws), k)
<1> DEFINE canon == Canon(table, ws)
           reads(r) == r = [m \in 0 .. Len(ws) |->
                              IF m = 0 THEN InForce(NoArgument, FALSE)
                              ELSE After(r[m - 1], canon[m])]
           f == [m \in 0 .. Len(ws) |-> Holding(canon, m)]
           F == CHOOSE r : reads(r)
<1>1. Holding(canon, 0) = InForce(NoArgument, FALSE)
  BY DEF Holding
<1>2. ASSUME NEW m \in 0 .. Len(ws), m # 0
      PROVE  Holding(canon, m) = After(Holding(canon, m - 1), canon[m])
  <2>1. m \in Nat \ {0} /\ \A n \in 1 .. m : n \in DOMAIN ws
    BY <1>2
  <2> QED
    BY <2>1, HoldingNext
<1> HIDE DEF canon
<1>3. reads(f)
  <2>1. ASSUME NEW m \in 0 .. Len(ws), m # 0
        PROVE  f[m] = After(f[m - 1], canon[m])
    <3>1. m - 1 \in 0 .. Len(ws)
      BY <2>1
    <3> QED
      BY <1>2, <2>1, <3>1
  <2> QED
    BY <1>1, <2>1
<1>4. reads(F)
  <2> HIDE DEF reads
  <2> QED
    BY <1>3
<1>5. Reading(table, ws) = F
  BY Zenon DEF Reading, canon
<1> HIDE DEF F
<1>6. F[0] = InForce(NoArgument, FALSE)
  BY <1>4
<1>7. \A m \in 0 .. Len(ws) : m # 0 => F[m] = After(F[m - 1], canon[m])
  BY <1>4
<1> HIDE DEF reads
<1> DEFINE Wrong == {m \in 0 .. Len(ws) : F[m] # Holding(canon, m)}
<1>8. Wrong = {}
  <2> SUFFICES ASSUME Wrong # {} PROVE FALSE
    OBVIOUS
  <2>1. Wrong \in SUBSET Nat
    OBVIOUS
  <2>2. PICK m \in Wrong : \A n \in Wrong : m <= n
    <3> HIDE DEF Wrong
    <3> QED
      BY <2>1, Least
  <2>3. m \in 0 .. Len(ws) /\ F[m] # Holding(canon, m)
    OBVIOUS
  <2>4. m # 0
    BY <1>1, <1>6, <2>3
  <2>5. m - 1 \in 0 .. Len(ws) /\ ~(m <= m - 1)
    BY <2>3, <2>4
  <2>6. F[m - 1] = Holding(canon, m - 1)
    BY <2>2, <2>5
  <2> QED
    BY <1>2, <1>7, <2>3, <2>4, <2>6
<1> QED
  BY <1>5, <1>8 DEF canon

-----------------------------------------------------------------------------
(* The helper and the parser.                                                 *)

\* A word that no switch separates from the first of a group is in it.
LEMMA InGroup ==
  ASSUME words \in Seq(Words), NEW p \in 1 .. Len(words) + 1, NEW k \in p .. Len(words),
         \A n \in p .. k : ~IsSwitch(words[n])
  PROVE  words[k] \in Range(Group(p)) /\ Len(Group(p)) >= k - p + 1
<1>1. LastOf(p) \in p - 1 .. Len(words) /\ (LastOf(p) < Len(words) => IsSwitch(words[LastOf(p) + 1]))
  BY LastOfGroup
<1>2. ~(LastOf(p) < k)
  <2> SUFFICES ASSUME LastOf(p) < k PROVE FALSE
    OBVIOUS
  <2>1. LastOf(p) + 1 \in p .. k /\ LastOf(p) < Len(words)
    BY <1>1
  <2> QED
    BY <1>1, <2>1
<1>3. Group(p) \in Seq(Words) /\ Len(Group(p)) = LastOf(p) - p + 1
      /\ \A m \in 1 .. Len(Group(p)) : Group(p)[m] = words[p + m - 1]
  BY GroupIs
<1>4. k - p + 1 \in 1 .. Len(Group(p)) /\ p + (k - p + 1) - 1 = k
  BY <1>1, <1>2, <1>3
<1>5. Group(p)[k - p + 1] = words[k] /\ k - p + 1 \in DOMAIN Group(p)
  BY <1>3, <1>4
<1> QED
  BY <1>4, <1>5 DEF Range

\* No word is a negative number.
NoNumbers == \A k \in DOMAIN words : words[k].kind # "number"

\* What there is when the parser has taken a line.
LEMMA Line ==
  ASSUME LineInv, stage = "combine"
  PROVE  /\ words \in Seq(Words) /\ DOMAIN words = 1 .. Len(words) /\ Len(words) \in Nat
         /\ cmd \in DOMAIN Commands /\ av \in Nat \ {0} /\ av <= Len(args) + 1
         /\ i = Len(words) + 1 /\ NumberInv /\ ParseInv
<1>1. /\ words \in Seq(Words) /\ i = Len(words) + 1 /\ ParseInv /\ NumberInv
      /\ cmd \in DOMAIN Commands /\ av \in Nat \ {0} /\ av <= Len(args) + 1
  BY DEF LineInv, StageInv, Working
<1>2. DOMAIN words = 1 .. Len(words) /\ Len(words) \in Nat
  BY <1>1
<1> QED
  BY <1>1, <1>2

FoundBy(S) == {TagName(k) : k \in S}

\* By then all switches have been taken.
LEMMA AllTaken ==
  ASSUME LineInv, stage = "combine"
  PROVE  /\ DOMAIN result = Named(av - 1) \cup FoundBy(Switches)
         /\ \A k \in Switches : result[TagName(k)] = Group(k + 1)
<1>1. words \in Seq(Words) /\ i = Len(words) + 1 /\ ParseInv
  BY Line
<1>2. Before = Switches
  BY <1>1 DEF Before, Switches
<1>3. DOMAIN result = Named(av - 1) \cup FoundBy(Before)
  BY <1>1 DEF ParseInv, ResultInv, FoundBy
<1>4. \A k \in Before : result[TagName(k)] = Group(k + 1)
  BY <1>1 DEF ParseInv, SwitchInv
<1>5. \A k \in Switches : result[TagName(k)] = Group(k + 1)
  BY <1>2, <1>4
<1> QED
  BY <1>2, <1>3, <1>5

\* Each switch of it names an argument, which it has given as many words as that takes.
LEMMA SwitchTaken ==
  ASSUME LineInv, stage = "combine", NEW k \in Switches
  PROVE  /\ Unique(args, words[k]).name = TagName(k)
         /\ Unique(args, words[k]).number \in {"s", "m", "n"}
         /\ Unique(args, words[k]) # NoArgument /\ TagName(k) \in DOMAIN result
         /\ Unique(args, words[k]).number = "s" => Len(Group(k + 1)) = 1
         /\ Unique(args, words[k]).number = "n" => Group(k + 1) = <<>>
         /\ Group(k + 1) = <<>> => Unique(args, words[k]).number = "n"
<1>1. cmd \in DOMAIN Commands /\ NumberInv
  BY Line
<1>2. TagName(k) \in DOMAIN result /\ result[TagName(k)] = Group(k + 1)
  <2>1. \A n \in Switches : result[TagName(n)] = Group(n + 1)
    BY AllTaken
  <2>2. DOMAIN result = Named(av - 1) \cup FoundBy(Switches)
    BY AllTaken
  <2>3. TagName(k) \in FoundBy(Switches)
    BY DEF FoundBy
  <2> QED
    BY <2>1, <2>2, <2>3
<1>3. TagName(k) \in Range(NamesOf(args))
  BY <1>1, <1>2 DEF NumberInv
<1>4. PICK n \in DOMAIN args : TagName(k) = args[n].name
  BY <1>1, <1>3, Table
<1>5. /\ Argument(args, TagName(k)) = args[n] /\ args[n].number \in {"s", "m", "n"}
      /\ args[n].name \notin {None, Ambiguous}
  BY <1>1, <1>4, Table
<1>6. Unique(args, words[k]) = args[n]
  BY <1>4, <1>5 DEF Unique, TagName
<1>7. args[n] # NoArgument
  BY <1>5 DEF NoArgument
<1>8. (CASE args[n].number = "s" -> Len(result[TagName(k)]) = 1
         [] args[n].number = "n" -> result[TagName(k)] = <<>>
         [] OTHER -> result[TagName(k)] # <<>>)
  BY <1>1, <1>2, <1>5 DEF NumberInv
<1>9. /\ args[n].number = "s" => Len(Group(k + 1)) = 1
      /\ args[n].number = "n" => Group(k + 1) = <<>>
      /\ Group(k + 1) = <<>> => args[n].number = "n"
  BY <1>2, <1>5, <1>8
<1> QED
  BY <1>2, <1>4, <1>5, <1>6, <1>7, <1>9

\* The words, and perhaps one more that is being typed.
Typing(ws) ==
  /\ DOMAIN ws = 1 .. Len(ws) /\ Len(ws) \in Nat
  /\ Len(ws) = Len(words) \/ Len(ws) = Len(words) + 1
  /\ \A k \in DOMAIN words : ws[k] = words[k]
  /\ \A k \in DOMAIN ws : ws[k].kind # "number"

\* In a line that the parser takes, no switch follows one that takes words.
LEMMA TypingSpaced ==
  ASSUME LineInv, stage = "combine", NEW ws, Typing(ws)
  PROVE  Spaced(args, ws)
<1>1. words \in Seq(Words) /\ DOMAIN words = 1 .. Len(words) /\ Len(words) \in Nat
  BY Line
<1>2. SUFFICES ASSUME NEW k \in DOMAIN ws, k > 1, Dashed(ws[k]), Dashed(ws[k - 1])
               PROVE  Unique(args, ws[k - 1]).number = "n"
  BY DEF Spaced
<1>3. DOMAIN ws = 1 .. Len(ws) /\ Len(ws) \in Nat
      /\ (Len(ws) = Len(words) \/ Len(ws) = Len(words) + 1)
  BY DEF Typing
<1> DEFINE m == Len(ws)
           n == Len(words)
<1>4. m \in Nat /\ n \in Nat /\ (m = n \/ m = n + 1) /\ DOMAIN ws = 1 .. m /\ DOMAIN words = 1 .. n
  BY <1>3, <1>1
<1> HIDE DEF m, n
<1>5. k \in 1 .. n + 1 /\ k - 1 \in 1 .. n /\ k - 1 + 1 = k /\ k - 1 \in 1 .. m
        /\ (k \in 1 .. n \/ k = n + 1)
  BY <1>4, <1>2
<1>6. k \in 1 .. Len(words) + 1 /\ k - 1 \in 1 .. Len(words) /\ k - 1 + 1 = k
      /\ (k \in DOMAIN words \/ k = Len(words) + 1)
  BY <1>4, <1>5 DEF n
<1>7. ws[k - 1] = words[k - 1] /\ words[k - 1].kind # "number"
  <2>1. k - 1 \in DOMAIN words /\ k - 1 \in DOMAIN ws
    BY <1>4, <1>5
  <2> QED
    BY <2>1 DEF Typing
<1>8. k - 1 \in Switches
  BY <1>1, <1>2, <1>6, <1>7 DEF Switches, Dashed, IsSwitch
<1>9. k \in DOMAIN words => IsSwitch(words[k])
  BY <1>2 DEF Typing, Dashed, IsSwitch
<1>10. LastOf(k) \in k - 1 .. Len(words) /\ \A p \in k .. LastOf(k) : ~IsSwitch(words[p])
  BY <1>1, <1>6, LastOfGroup
<1>11. LastOf(k) = k - 1
  <2>1. CASE k = Len(words) + 1
    BY <1>10, <2>1
  <2>2. CASE k \in DOMAIN words
    <3>1. k \notin k .. LastOf(k)
      BY <1>9, <1>10, <2>2
    <3> QED
      BY <1>6, <1>10, <3>1
  <2> QED
    BY <1>6, <2>1, <2>2
<1>12. Group(k) \in Seq(Words) /\ Len(Group(k)) = 0
  BY <1>1, <1>6, <1>11, GroupIs
<1>13. Group(k - 1 + 1) = <<>>
  BY <1>6, <1>12
<1> QED
  BY <1>7, <1>8, <1>13, SwitchTaken

\* The helper takes each switch for the argument that the parser found.
LEMMA TypingCanon ==
  ASSUME LineInv, stage = "combine", NEW ws, Typing(ws), NEW k \in DOMAIN words
  PROVE  Canon(args, ws)[k] = IF IsSwitch(words[k]) THEN Unique(args, words[k]) ELSE NoArgument
<1>1. DOMAIN words = 1 .. Len(words) /\ Len(words) \in Nat
  BY Line
<1>2. DOMAIN ws = 1 .. Len(ws) /\ Len(ws) \in Nat
      /\ (Len(ws) = Len(words) \/ Len(ws) = Len(words) + 1)
  BY DEF Typing
<1> DEFINE m == Len(ws)
           n == Len(words)
<1>3. m \in Nat /\ n \in Nat /\ (m = n \/ m = n + 1) /\ DOMAIN ws = 1 .. m /\ DOMAIN words = 1 .. n
  BY <1>1, <1>2
<1> HIDE DEF m, n
<1>4. k \in 1 .. m
  BY <1>3
<1>5. DOMAIN ws = 1 .. Len(ws) /\ Len(ws) \in Nat /\ k \in DOMAIN ws
  BY <1>3, <1>4 DEF m
<1>6. ws[k] = words[k] /\ ws[k].kind # "number"
  BY <1>5 DEF Typing
<1>7. Canon(args, ws)[k] = IF Dashed(ws[k]) THEN Unique(args, ws[k]) ELSE NoArgument
  BY <1>5, TypingSpaced, CanonIs
<1> QED
  BY <1>6, <1>7 DEF Dashed, IsSwitch

\* The first of some numbers up to n.
LEMMA FirstOfIs ==
  ASSUME NEW n \in Nat, NEW S \in SUBSET (1 .. n)
  PROVE  /\ FirstOf(S, n) \in 1 .. n + 1
         /\ \A k \in 1 .. FirstOf(S, n) - 1 : k \notin S
         /\ FirstOf(S, n) # n + 1 => FirstOf(S, n) \in S
<1>1. CASE S = {}
  BY <1>1 DEF FirstOf
<1>2. CASE S # {}
  <2>1. S \in SUBSET Nat
    OBVIOUS
  <2>2. \E x \in S : \A y \in S : x <= y
    BY <1>2, <2>1, Least
  <2>3. Min(S) \in S /\ \A y \in S : Min(S) <= y
    BY <2>2 DEF Min
  <2>4. Min(S) \in 1 .. n
    BY <2>3
  <2>5. \A k \in 1 .. Min(S) - 1 : ~(Min(S) <= k)
    BY <2>4
  <2>6. FirstOf(S, n) = Min(S)
    BY <1>2 DEF FirstOf
  <2> HIDE DEF FirstOf
  <2> QED
    BY <2>3, <2>4, <2>5, <2>6
<1> QED
  BY <1>1, <1>2

\* The least of three numbers.
LEMMA LeastOfThree ==
  ASSUME NEW a \in Nat, NEW b \in Nat, NEW c \in Nat
  PROVE  /\ Min({a, b, c}) \in {a, b, c} /\ Min({a, b, c}) <= a
         /\ Min({a, b, c}) <= b /\ Min({a, b, c}) <= c
<1> DEFINE S == {a, b, c}
<1>1. S \in SUBSET Nat /\ S # {} /\ a \in S /\ b \in S /\ c \in S
  OBVIOUS
<1> HIDE DEF S
<1>2. \E x \in S : \A y \in S : x <= y
  BY <1>1, Least
<1>3. Min(S) \in S /\ \A y \in S : Min(S) <= y
  BY <1>2 DEF Min
<1>4. Min(S) <= a /\ Min(S) <= b /\ Min(S) <= c /\ Min(S) \in S
  BY <1>1, <1>3
<1> QED
  BY <1>4 DEF S

InOrder(table) == FirstOf({k \in DOMAIN table : table[k].place # "r"}, Len(table)) - 1
Several(table) == FirstOf({k \in DOMAIN table : table[k].number # "s"}, Len(table))

\* How far the helper goes by position, and what it takes the words for.
LEMMA ByPositionIs ==
  ASSUME cmd \in DOMAIN Commands, NEW ws, DOMAIN ws = 1 .. Len(ws), Len(ws) \in Nat
  PROVE  LET taken == ByPosition(args, ws).taken IN
         /\ InOrder(args) \in 0 .. Len(args) /\ Several(args) \in 1 .. Len(args) + 1 /\ Leading(ws) \in 0 .. Len(ws)
         /\ \A k \in 1 .. Several(args) - 1 : args[k].number = "s"
         /\ \A k \in 1 .. Leading(ws) : ~Dashed(ws[k])
         /\ Leading(ws) # Len(ws) => Leading(ws) + 1 \in DOMAIN ws /\ Dashed(ws[Leading(ws) + 1])
         /\ taken \in {InOrder(args), Several(args), Leading(ws)}
         /\ taken <= InOrder(args) /\ taken <= Several(args) /\ taken <= Leading(ws)
         /\ \A k \in DOMAIN ws :
              ByPosition(args, ws).types[k]
                = IF k <= taken THEN args[k]
                  ELSE IF taken = Several(args) /\ k <= Leading(ws) THEN args[Several(args)]
                  ELSE NoArgument
<1> DEFINE taken == ByPosition(args, ws).taken
           R == {k \in DOMAIN args : args[k].place # "r"}
           S == {k \in DOMAIN args : args[k].number # "s"}
           D == {k \in DOMAIN ws : Dashed(ws[k])}
<1>1. DOMAIN args = 1 .. Len(args) /\ Len(args) \in Nat
  BY Table
<1>2. R \in SUBSET (1 .. Len(args)) /\ S \in SUBSET (1 .. Len(args)) /\ D \in SUBSET (1 .. Len(ws))
  BY <1>1
<1>3. InOrder(args) = FirstOf(R, Len(args)) - 1 /\ Several(args) = FirstOf(S, Len(args))
      /\ Leading(ws) = FirstOf(D, Len(ws)) - 1
  BY DEF InOrder, Several, Leading
<1> HIDE DEF R, S, D
<1>4. FirstOf(R, Len(args)) \in 1 .. Len(args) + 1 /\ FirstOf(S, Len(args)) \in 1 .. Len(args) + 1
      /\ FirstOf(D, Len(ws)) \in 1 .. Len(ws) + 1
  BY <1>1, <1>2, FirstOfIs
<1>5. InOrder(args) \in 0 .. Len(args) /\ Several(args) \in 1 .. Len(args) + 1 /\ Leading(ws) \in 0 .. Len(ws)
  BY <1>1, <1>3, <1>4
<1>6. ASSUME NEW k \in 1 .. Several(args) - 1 PROVE args[k].number = "s"
  <2>1. k \notin S
    BY <1>1, <1>2, <1>3, FirstOfIs
  <2>2. k \in DOMAIN args
    BY <1>1, <1>5
  <2> QED
    BY <2>1, <2>2 DEF S
<1>7. ASSUME NEW k \in 1 .. Leading(ws) PROVE ~Dashed(ws[k])
  <2>1. k \in 1 .. FirstOf(D, Len(ws)) - 1
    BY <1>3
  <2>2. k \notin D
    BY <1>2, <2>1, FirstOfIs
  <2>3. k \in DOMAIN ws
    BY <1>5
  <2> QED
    BY <2>2, <2>3 DEF D
<1>8. ASSUME Leading(ws) # Len(ws)
      PROVE  Leading(ws) + 1 \in DOMAIN ws /\ Dashed(ws[Leading(ws) + 1])
  <2>1. FirstOf(D, Len(ws)) # Len(ws) + 1 /\ Leading(ws) + 1 = FirstOf(D, Len(ws))
    BY <1>3, <1>4, <1>8
  <2>2. FirstOf(D, Len(ws)) \in D
    BY <1>2, <2>1, FirstOfIs
  <2> QED
    BY <2>1, <2>2 DEF D
<1>9. taken = Min({InOrder(args), Several(args), Leading(ws)})
  BY DEF ByPosition, InOrder, Several
<1>10. InOrder(args) \in Nat /\ Several(args) \in Nat /\ Leading(ws) \in Nat
  BY <1>1, <1>5
<1>11. /\ taken \in {InOrder(args), Several(args), Leading(ws)}
       /\ taken <= InOrder(args) /\ taken <= Several(args) /\ taken <= Leading(ws)
  BY <1>9, <1>10, LeastOfThree
<1>12. \A k \in DOMAIN ws :
          ByPosition(args, ws).types[k]
            = IF k <= taken THEN args[k]
              ELSE IF taken = Several(args) /\ k <= Leading(ws) THEN args[Several(args)]
              ELSE NoArgument
  BY DEF ByPosition, InOrder, Several
<1> HIDE DEF taken
<1> QED
  BY <1>5, <1>6, <1>7, <1>8, <1>11, <1>12 DEF taken

\* Of the switches before a word one is the last.
LEMMA LatestExists ==
  ASSUME NEW canon, NEW k \in Nat, NEW p \in 1 .. k, canon[p] # NoArgument
  PROVE  \E s \in 1 .. k : Latest(canon, s, k)
<1> DEFINE T == {d \in 0 .. k - 1 : canon[k - d] # NoArgument}
<1>1. T \in SUBSET Nat
  OBVIOUS
<1>2. k - p \in T
  <2>1. k - p \in 0 .. k - 1 /\ k - (k - p) = p
    OBVIOUS
  <2> QED
    BY <2>1
<1> HIDE DEF T
<1>3. PICK d \in T : \A e \in T : d <= e
  BY <1>1, <1>2, Least
<1>4. d \in 0 .. k - 1 /\ canon[k - d] # NoArgument
  BY DEF T
<1>5. ASSUME NEW n \in k - d + 1 .. k PROVE canon[n] = NoArgument
  <2>1. k - n \in 0 .. k - 1 /\ ~(d <= k - n) /\ k - (k - n) = n
    BY <1>4
  <2>2. k - n \notin T
    BY <1>3, <2>1
  <2> QED
    BY <2>1, <2>2 DEF T
<1>6. k - d \in 1 .. k
  BY <1>4
<1> QED
  BY <1>4, <1>5, <1>6 DEF Latest

\* The line itself is one that is being typed.
LEMMA LineTyping ==
  ASSUME LineInv, stage = "combine", NoNumbers
  PROVE  /\ Typing(words)
         /\ \A k \in DOMAIN words :
              Canon(args, words)[k] = IF IsSwitch(words[k]) THEN Unique(args, words[k]) ELSE NoArgument
         /\ \A k \in DOMAIN words : Canon(args, words)[k].number \in {"s", "m", "n"}
         /\ \A k \in DOMAIN words : IsSwitch(words[k]) <=> Canon(args, words)[k] # NoArgument
<1>1. DOMAIN words = 1 .. Len(words) /\ Len(words) \in Nat
  BY Line
<1>2. Typing(words)
  BY <1>1 DEF Typing, NoNumbers
<1>3. \A k \in DOMAIN words :
        Canon(args, words)[k] = IF IsSwitch(words[k]) THEN Unique(args, words[k]) ELSE NoArgument
  BY <1>2, TypingCanon
<1>4. ASSUME NEW k \in DOMAIN words
      PROVE  /\ Canon(args, words)[k].number \in {"s", "m", "n"}
             /\ IsSwitch(words[k]) <=> Canon(args, words)[k] # NoArgument
  <2>1. CASE IsSwitch(words[k])
    <3>1. k \in Switches
      BY <2>1 DEF Switches
    <3> QED
      BY <1>3, <2>1, <3>1, SwitchTaken
  <2>2. CASE ~IsSwitch(words[k])
    <3>1. Canon(args, words)[k] = NoArgument
      BY <1>3, <2>2
    <3> QED
      BY <2>2, <3>1 DEF NoArgument
  <2> QED
    BY <2>1, <2>2
<1> QED
  BY <1>2, <1>3, <1>4

\* A word after a switch: both give it to that switch's argument.
LEMMA AfterSwitch ==
  ASSUME LineInv, stage = "combine", NoNumbers, NEW k \in DOMAIN words, ~IsSwitch(words[k]),
         NEW p \in 1 .. k - 1, IsSwitch(words[p])
  PROVE  LET a == WordType(args, words, k) IN a # NoArgument /\ words[k] \in Range(result[a.name])
<1> DEFINE canon == Canon(args, words)
<1>1. words \in Seq(Words) /\ DOMAIN words = 1 .. Len(words) /\ Len(words) \in Nat
  BY Line
<1>2. k - 1 \in Nat /\ k - 1 \in 0 .. Len(words) /\ p \in DOMAIN words /\ k \in 1 .. Len(words)
  BY <1>1
<1>3. canon[p] # NoArgument /\ canon[k] = NoArgument
  BY <1>2, LineTyping
<1> HIDE DEF canon
<1>4. PICK s \in 1 .. k - 1 : Latest(canon, s, k - 1)
  BY <1>2, <1>3, LatestExists
<1>5. s \in DOMAIN words /\ s < k /\ canon[s] # NoArgument
  BY <1>1, <1>2, <1>4 DEF Latest
<1>6. s \in Switches /\ canon[s] = Unique(args, words[s])
  <2>1. IsSwitch(words[s])
    BY <1>5, LineTyping DEF canon
  <2> QED
    BY <1>5, <2>1, LineTyping DEF canon, Switches
<1>7. /\ canon[s].name = TagName(s) /\ canon[s].number \in {"s", "m", "n"}
      /\ canon[s].number = "s" => Len(Group(s + 1)) = 1
      /\ canon[s].number = "n" => Group(s + 1) = <<>>
  BY <1>6, SwitchTaken
<1>8. result[TagName(s)] = Group(s + 1)
  BY <1>6, AllTaken
<1>9. ASSUME NEW n \in s + 1 .. k PROVE ~IsSwitch(words[n])
  <2>1. n \in DOMAIN words /\ (n = k \/ n \in s + 1 .. k - 1)
    BY <1>1, <1>2, <1>5
  <2>2. canon[n] = NoArgument
    BY <1>3, <1>4, <2>1 DEF Latest
  <2> QED
    BY <2>1, <2>2, LineTyping DEF canon
<1>10. s + 1 \in 1 .. Len(words) + 1 /\ k \in s + 1 .. Len(words)
  BY <1>1, <1>2, <1>5
<1>11. words[k] \in Range(Group(s + 1)) /\ Len(Group(s + 1)) >= k - (s + 1) + 1
  BY <1>1, <1>9, <1>10, InGroup
<1>12. Group(s + 1) \in Seq(Words)
  BY <1>1, <1>10, GroupIs
<1>13. canon[s].number # "n"
  <2>1. k - (s + 1) + 1 >= 1 /\ Len(<<>>) = 0
    BY <1>2, <1>5
  <2>2. k - (s + 1) + 1 \in Int
    BY <1>2, <1>5
  <2>3. Len(Group(s + 1)) \in Nat /\ Len(Group(s + 1)) >= k - (s + 1) + 1
    BY <1>11, <1>12
  <2>4. Len(Group(s + 1)) # 0
    BY <2>1, <2>2, <2>3
  <2>5. Group(s + 1) # <<>>
    BY <2>1, <2>4
  <2> QED
    BY <1>7, <2>5
<1>14. canon[s].number = "s" => ~(s < k - 1)
  <2> SUFFICES ASSUME canon[s].number = "s", s < k - 1 PROVE FALSE
    OBVIOUS
  <2>1. Len(Group(s + 1)) = 1
    BY <1>7
  <2>2. k - (s + 1) + 1 > 1 /\ k - (s + 1) + 1 \in Int
    BY <1>2, <1>5
  <2>3. 1 >= k - (s + 1) + 1
    BY <1>11, <2>1
  <2> QED
    BY <2>2, <2>3
<1>15. Holding(canon, k - 1) = Hold(canon, s, k - 1)
  BY <1>2, <1>4, LatestIs
<1>16. Holding(canon, k - 1).last = canon[s]
  BY <1>13, <1>14, <1>15 DEF Hold, InForce
<1>17. Reading(args, words)[k - 1] = Holding(canon, k - 1)
  BY <1>1, <1>2, LineTyping, ReadingIs DEF canon
<1>18. BySwitch(args, words)[k].takes /\ BySwitch(args, words)[k].type = canon[s]
  BY <1>3, <1>5, <1>16, <1>17 DEF BySwitch, canon
<1>19. WordType(args, words, k) = canon[s]
  BY <1>18 DEF WordType
<1> QED
  BY <1>5, <1>7, <1>8, <1>11, <1>19

\* A word before all switches: both give it to the argument in its place.
LEMMA BeforeSwitches ==
  ASSUME LineInv, stage = "combine", Plain, NEW k \in DOMAIN words,
         \A n \in 1 .. k : ~IsSwitch(words[n])
  PROVE  LET a == WordType(args, words, k) IN a # NoArgument /\ words[k] \in Range(result[a.name])
<1> DEFINE canon == Canon(args, words)
           taken == ByPosition(args, words).taken
<1>1. /\ words \in Seq(Words) /\ DOMAIN words = 1 .. Len(words) /\ Len(words) \in Nat
      /\ cmd \in DOMAIN Commands /\ av \in Nat \ {0} /\ av <= Len(args) + 1
      /\ i = Len(words) + 1 /\ ParseInv
  BY Line
<1>2. NoNumbers /\ taken = av - 1
  BY DEF Plain, NoNumbers
<1>3. k \in 1 .. Len(words) /\ k - 1 \in 0 .. Len(words) /\ k - 1 \in Nat
  BY <1>1
<1>4. \A n \in 1 .. k : n \in DOMAIN words
  BY <1>1, <1>3
<1>5. \A n \in 1 .. k : canon[n] = NoArgument
  BY <1>2, <1>4, LineTyping
<1>6. Reading(args, words)[k - 1] = Holding(canon, k - 1)
  BY <1>1, <1>2, <1>3, LineTyping, ReadingIs
<1>7. Holding(canon, k - 1).last = NoArgument
  <2> HIDE DEF canon
  <2>1. \A s \in 1 .. k - 1 : s \in 1 .. k
    BY <1>3
  <2>2. \A s \in 1 .. k - 1 : ~Latest(canon, s, k - 1)
    BY <1>5, <2>1 DEF Latest
  <2> QED
    BY <2>2 DEF Holding, InForce
<1>8. ~BySwitch(args, words)[k].takes
  BY <1>6, <1>7 DEF BySwitch
<1> DEFINE types == ByPosition(args, words).types
<1>9. WordType(args, words, k) = types[k]
  BY <1>8 DEF WordType
<1> HIDE DEF canon
<1>10. /\ Several(args) \in 1 .. Len(args) + 1 /\ Leading(words) \in 0 .. Len(words)
       /\ \A n \in 1 .. Several(args) - 1 : args[n].number = "s"
       /\ taken <= Several(args)
  BY <1>1, ByPositionIs
<1>11. Leading(words) # Len(words) =>
         Leading(words) + 1 \in DOMAIN words /\ Dashed(words[Leading(words) + 1])
  BY <1>1, ByPositionIs
<1>12. types[k] = IF k <= taken THEN args[k]
                  ELSE IF taken = Several(args) /\ k <= Leading(words) THEN args[Several(args)]
                  ELSE NoArgument
  BY <1>1, ByPositionIs
<1> HIDE DEF types, taken
<1>13. k <= Leading(words)
  <2> SUFFICES ASSUME ~(k <= Leading(words)) PROVE FALSE
    OBVIOUS
  <2>1. Leading(words) # Len(words) /\ Leading(words) + 1 \in 1 .. k
    BY <1>3, <1>10
  <2>2. Dashed(words[Leading(words) + 1]) /\ ~IsSwitch(words[Leading(words) + 1])
        /\ words[Leading(words) + 1].kind # "number"
    BY <1>2, <1>11, <2>1 DEF NoNumbers
  <2> QED
    BY <2>2 DEF Dashed, IsSwitch
<1>14. PlaceInv /\ (k < av \/ need_switch)
  <2>1. k \in 1 .. i - 1
    BY <1>1, <1>3
  <2> QED
    BY <1>1, <2>1 DEF ParseInv, FrontInv
<1>15. ASSUME NEW p \in 1 .. av - 1, p <= k,
              result[args[p].name] = Group(p) \/ (p = k /\ result[args[p].name] = <<words[k]>>),
              types[k] = args[p]
       PROVE  types[k] # NoArgument /\ words[k] \in Range(result[types[k].name])
  <2>1. p \in DOMAIN args /\ p \in 1 .. Len(words) + 1 /\ k \in p .. Len(words)
    BY <1>1, <1>3, <1>15, Table
  <2>2. \A n \in p .. k : n \in 1 .. k
    BY <1>3, <1>15
  <2>3. words[k] \in Range(Group(p))
    BY <1>1, <2>1, <2>2, InGroup
  <2>4. words[k] \in Range(<<words[k]>>)
    <3>1. 1 \in DOMAIN <<words[k]>> /\ <<words[k]>>[1] = words[k]
      OBVIOUS
    <3> QED
      BY <3>1 DEF Range
  <2>5. args[p].name # None
    BY <1>1, <2>1, Table
  <2>6. args[p] # NoArgument
    BY <2>5 DEF NoArgument
  <2> QED
    BY <1>15, <2>3, <2>4, <2>6
<1>16. CASE k < av
  <2>1. k \in 1 .. av - 1 /\ k <= taken
    BY <1>1, <1>2, <1>3, <1>16
  <2>2. result[args[k].name] = IF k = av - 1 /\ need_switch THEN Group(k) ELSE <<words[k]>>
    BY <1>14, <2>1 DEF PlaceInv
  <2>3. types[k] = args[k]
    BY <1>12, <2>1
  <2> QED
    BY <1>3, <1>9, <1>15, <2>1, <2>2, <2>3
<1>17. CASE ~(k < av)
  <2>1. need_switch /\ av > 1
    BY <1>14, <1>17 DEF PlaceInv
  <2>2. av - 1 \in 1 .. av - 1 /\ av - 1 \in Nat
    BY <1>1, <2>1
  <2>3. TakesMore(av - 1) /\ result[args[av - 1].name] = Group(av - 1)
    BY <1>14, <2>1, <2>2 DEF PlaceInv
  <2>4. av - 1 \notin 1 .. Several(args) - 1
    BY <1>10, <2>3 DEF TakesMore
  <2>5. taken = Several(args) /\ av - 1 = Several(args)
    BY <1>2, <1>10, <2>2, <2>4
  <2>6. ~(k <= taken) /\ av - 1 <= k
    BY <1>1, <1>2, <1>3, <1>17
  <2>7. types[k] = args[av - 1]
    BY <1>12, <1>13, <2>5, <2>6
  <2> QED
    BY <1>9, <1>15, <2>2, <2>3, <2>6, <2>7
<1> QED
  BY <1>16, <1>17

\* Helper and parser take the words for the same.
LEMMA HelperReads ==
  ASSUME LineInv, stage = "combine", Plain
  PROVE  WordsAgree
<1>1. NoNumbers /\ DOMAIN words = 1 .. Len(words) /\ Len(words) \in Nat
  BY Line DEF Plain, NoNumbers
<1>2. SUFFICES ASSUME NEW k \in DOMAIN words
               PROVE  LET a == WordType(args, words, k)
                      IN  IF IsSwitch(words[k]) THEN Canon(args, words)[k].name \in DOMAIN result
                          ELSE a # NoArgument /\ words[k] \in Range(result[a.name])
  BY DEF WordsAgree
<1>3. CASE IsSwitch(words[k])
  <2>1. k \in Switches
    BY <1>3 DEF Switches
  <2>2. Canon(args, words)[k] = Unique(args, words[k])
    BY <1>1, <1>3, LineTyping
  <2> QED
    BY <1>3, <2>1, <2>2, SwitchTaken
<1>4. CASE ~IsSwitch(words[k]) /\ \E p \in 1 .. k - 1 : IsSwitch(words[p])
  BY <1>1, <1>4, AfterSwitch
<1>5. CASE ~IsSwitch(words[k]) /\ \A p \in 1 .. k - 1 : ~IsSwitch(words[p])
  <2>1. \A n \in 1 .. k : n = k \/ n \in 1 .. k - 1
    BY <1>1
  <2>2. \A n \in 1 .. k : ~IsSwitch(words[n])
    BY <1>5, <2>1
  <2> QED
    BY <1>5, <2>2, BeforeSwitches
<1> QED
  BY <1>3, <1>4, <1>5

\* A dash alone names no argument if there are several.
LEMMA DashAlone ==
  ASSUME cmd \in DOMAIN Commands, Len(args) > 1, NEW w, w.text = None
  PROVE  Unique(args, w) = NoArgument
<1> DEFINE names == NamesOf(args)
           exact == {k \in DOMAIN names : names[k] = None}
           hits == {k \in 1 .. Len(names) : IsPrefix(None, names[k])} \ exact
<1>1. DOMAIN args = 1 .. Len(args) /\ Len(args) \in Nat /\ ProperTable(args)
  BY Table
<1>2. names \in Seq(Range(names)) /\ DOMAIN names = DOMAIN args
      /\ \A k \in DOMAIN args : names[k] = args[k].name
  BY <1>1, TableNames
<1>3. \A k \in DOMAIN names : names[k] # None /\ names[k] \in Seq(Range(names[k]))
  <2>1. \A k \in DOMAIN args :
          args[k].name \in Seq(Range(args[k].name)) /\ args[k].name \notin {None, Ambiguous}
    BY <1>1 DEF ProperTable
  <2> QED
    BY <1>2, <2>1
<1> HIDE DEF names
<1>4. exact = {}
  BY <1>3
<1>5. DOMAIN names = 1 .. Len(names) /\ Len(names) = Len(args)
  BY <1>1, <1>2
<1>6. \A k \in DOMAIN names : IsPrefix(None, names[k])
  <2> SUFFICES ASSUME NEW k \in DOMAIN names PROVE IsPrefix(None, names[k])
    OBVIOUS
  <2>1. names[k] \in Seq(Range(names[k]))
    BY <1>3
  <2>2. Len(None) = 0 /\ 0 <= Len(names[k]) /\ SubSeq(None, 1, 0) = SubSeq(names[k], 1, 0)
    BY <2>1 DEF None
  <2> QED
    BY <2>2 DEF IsPrefix
<1>7. hits = 1 .. Len(names)
  BY <1>4, <1>5, <1>6
<1>8. Cardinality(1 .. Len(args)) = Len(args)
  BY <1>1, FS_Interval
<1>9. Lookup(names, None) = IF Cardinality(hits) > 1 THEN Ambiguous
                            ELSE IF exact # {} THEN None
                            ELSE IF hits = {} THEN None ELSE names[CHOOSE k \in hits : TRUE]
  BY <1>4 DEF Lookup
<1>10. Lookup(names, None) = Ambiguous
  BY <1>5, <1>7, <1>8, <1>9
<1> QED
  BY <1>10 DEF Unique, names

\* With one more word the helper goes no less far by position.
LEMMA MoreTaken ==
  ASSUME LineInv, stage = "combine", NEW ws, Typing(ws)
  PROVE  ByPosition(args, words).taken <= ByPosition(args, ws).taken
<1> DEFINE t == ByPosition(args, words).taken
           u == ByPosition(args, ws).taken
           l == Leading(words)
           m == Leading(ws)
           r == InOrder(args)
           s == Several(args)
<1>1. cmd \in DOMAIN Commands /\ DOMAIN words = 1 .. Len(words) /\ Len(words) \in Nat
  BY Line
<1>2. DOMAIN ws = 1 .. Len(ws) /\ Len(ws) \in Nat /\ (Len(ws) = Len(words) \/ Len(ws) = Len(words) + 1)
  BY DEF Typing
<1>3. /\ t \in {r, s, l} /\ t <= r /\ t <= s /\ t <= l /\ l \in 0 .. Len(words)
      /\ r \in 0 .. Len(args) /\ s \in 1 .. Len(args) + 1
      /\ \A k \in 1 .. l : ~Dashed(words[k])
  BY <1>1, ByPositionIs
<1>4. /\ u \in {r, s, m} /\ m \in 0 .. Len(ws)
      /\ m # Len(ws) => m + 1 \in DOMAIN ws /\ Dashed(ws[m + 1])
  BY <1>1, <1>2, ByPositionIs
<1> DEFINE lw == Len(words)
           ls == Len(ws)
           la == Len(args)
<1>5. /\ lw \in Nat /\ ls \in Nat /\ (ls = lw \/ ls = lw + 1) /\ la \in Nat
      /\ l \in 0 .. lw /\ m \in 0 .. ls /\ r \in 0 .. la /\ s \in 1 .. la + 1
      /\ DOMAIN words = 1 .. lw
  BY <1>1, <1>2, <1>3, <1>4, Table
<1>6. \A k \in DOMAIN words : ws[k] = words[k]
  BY DEF Typing
<1> HIDE DEF t, u, l, m, r, s, lw, ls, la
<1>7. l <= m
  <2> SUFFICES ASSUME ~(l <= m) PROVE FALSE
    OBVIOUS
  <2>1. m + 1 \in 1 .. l /\ m + 1 \in 1 .. lw /\ m # ls
    BY <1>5
  <2>2. ~Dashed(words[m + 1]) /\ ws[m + 1] = words[m + 1]
    BY <1>3, <1>5, <1>6, <2>1
  <2>3. Dashed(ws[m + 1])
    BY <1>4, <2>1 DEF ls
  <2> QED
    BY <2>2, <2>3
<1>8. t \in Int /\ t <= r /\ t <= s /\ t <= l
  BY <1>3, <1>5
<1>9. u = r \/ u = s \/ u = m
  BY <1>4
<1>10. t <= u
  BY <1>5, <1>7, <1>8, <1>9
<1> QED
  BY <1>10 DEF t, u

\* What the helper has left is what the parser did not find.
LEMMA LeftUnused ==
  ASSUME LineInv, stage = "combine", Plain, NEW ws, Typing(ws)
  PROVE  Left(args, ws) \cap DOMAIN result = {}
<1> SUFFICES ASSUME NEW a \in Left(args, ws), a \in DOMAIN result PROVE FALSE
  OBVIOUS
<1>1. /\ cmd \in DOMAIN Commands /\ DOMAIN words = 1 .. Len(words) /\ Len(words) \in Nat
      /\ av \in Nat \ {0} /\ av <= Len(args) + 1 /\ DOMAIN args = 1 .. Len(args) /\ Len(args) \in Nat
  BY Line, Table
<1>2. PICK k \in DOMAIN args :
        /\ a = args[k].name
        /\ ~(k <= ByPosition(args, ws).taken)
        /\ \A n \in DOMAIN ws : Canon(args, ws)[n].name # args[k].name
  BY DEF Left
<1>3. a \in Named(av - 1) \/ a \in FoundBy(Switches)
  BY AllTaken
<1>4. ASSUME a \in Named(av - 1) PROVE FALSE
  <2>1. PICK p \in 1 .. av - 1 : a = args[p].name
    BY <1>4 DEF Named
  <2>2. p \in DOMAIN args
    BY <1>1
  <2>3. p = k
    BY <1>1, <1>2, <2>1, <2>2, Table
  <2>4. ByPosition(args, words).taken = av - 1
    BY DEF Plain
  <2>5. av - 1 <= ByPosition(args, ws).taken
    BY <2>4, MoreTaken
  <2>6. DOMAIN ws = 1 .. Len(ws) /\ Len(ws) \in Nat
    BY DEF Typing
  <2>7. ByPosition(args, ws).taken \in {InOrder(args), Several(args), Leading(ws)}
        /\ InOrder(args) \in 0 .. Len(args) /\ Several(args) \in 1 .. Len(args) + 1
        /\ Leading(ws) \in 0 .. Len(ws)
    BY <1>1, <2>6, ByPositionIs
  <2>8. ByPosition(args, ws).taken \in Int
    BY <1>1, <2>6, <2>7
  <2> QED
    BY <1>1, <1>2, <2>3, <2>5, <2>8
<1>5. ASSUME a \in FoundBy(Switches) PROVE FALSE
  <2>1. PICK s \in Switches : a = TagName(s)
    BY <1>5 DEF FoundBy
  <2>2. s \in DOMAIN words /\ IsSwitch(words[s])
    BY DEF Switches
  <2>3. Canon(args, ws)[s] = Unique(args, words[s])
    BY <2>2, TypingCanon
  <2>4. Canon(args, ws)[s].name = a
    BY <2>1, <2>3, SwitchTaken
  <2>5. s \in DOMAIN ws
    <3>1. DOMAIN ws = 1 .. Len(ws) /\ (Len(ws) = Len(words) \/ Len(ws) = Len(words) + 1)
      BY DEF Typing
    <3> DEFINE n == Len(words)
               m == Len(ws)
    <3>2. n \in Nat /\ (m = n \/ m = n + 1) /\ s \in 1 .. n
      BY <1>1, <2>2, <3>1
    <3> HIDE DEF n, m
    <3>3. s \in 1 .. m
      BY <3>2
    <3> QED
      BY <3>1, <3>3 DEF m
  <2> QED
    BY <1>2, <2>4, <2>5
<1> QED
  BY <1>3, <1>4, <1>5

\* The line with one more word.
LEMMA OneMoreTyped ==
  ASSUME LineInv, stage = "combine", NoNumbers, NEW w \in Cursor
  PROVE  /\ Typing(words \o <<w>>) /\ Len(words \o <<w>>) = Len(words) + 1
         /\ (words \o <<w>>)[Len(words) + 1] = w
<1> DEFINE n == Len(words)
           ws == words \o <<w>>
<1>1. words \in Seq(Words) /\ DOMAIN words = 1 .. n /\ n \in Nat
  BY Line
<1>2. Len(ws) = n + 1 /\ DOMAIN ws = 1 .. n + 1 /\ ws[n + 1] = w
      /\ \A k \in 1 .. n : ws[k] = words[k]
  BY <1>1
<1>3. w.kind # "number"
  BY DEF Cursor
<1> HIDE DEF ws
<1>4. \A k \in DOMAIN words : ws[k] = words[k] /\ words[k].kind # "number"
  BY <1>1, <1>2 DEF NoNumbers
<1> HIDE DEF n
<1>5. \A k \in 1 .. n + 1 : k \in 1 .. n \/ k = n + 1
  BY <1>1
<1>6. \A k \in DOMAIN ws : ws[k].kind # "number"
  BY <1>1, <1>2, <1>3, <1>4, <1>5
<1>7. Typing(ws)
  BY <1>1, <1>2, <1>4, <1>6 DEF Typing, n
<1> QED
  BY <1>2, <1>7 DEF ws, n

\* A set of arguments has a first one.
LEMMA FirstArgument ==
  ASSUME NEW table, DOMAIN table = 1 .. Len(table), NEW R \in SUBSET DOMAIN table, R # {}
  PROVE  (CHOOSE k \in R : \A n \in R : k <= n) \in R
<1>1. R \in SUBSET Nat
  OBVIOUS
<1>2. \E x \in R : \A y \in R : x <= y
  BY <1>1, Least
<1> QED
  BY <1>2

\* No argument is offered that the parser has found.
LEMMA HelperOffers ==
  ASSUME LineInv, stage = "combine", Plain
  PROVE  OffersUnused
<1> SUFFICES ASSUME Len(args) > 1, NEW w \in Cursor
             PROVE  Offer(args, words \o <<w>>).names \cap DOMAIN result = {}
  BY DEF OffersUnused
<1> DEFINE ws == words \o <<w>>
           c == Len(ws)
           word == ws[c]
           type == WordType(args, ws, c)
           extra == Additional(args, ws, c)
           left == Left(args, ws)
           required == {k \in DOMAIN args : args[k].place = "r" /\ args[k].name \in left}
           next == CHOOSE k \in required : \A n \in required : k <= n
           options == {n \in left : IsPrefix(word.text, n)}
           inPlace == word.kind = "empty" /\ c <= ByPosition(args, ws).taken
           offer == Offer(args, ws)
<1>1. NoNumbers
  BY DEF Plain, NoNumbers
<1>2. Typing(ws) /\ c = Len(words) + 1 /\ word = w
  BY <1>1, OneMoreTyped
<1>3. left \cap DOMAIN result = {}
  BY <1>2, LeftUnused
<1>4. /\ cmd \in DOMAIN Commands /\ DOMAIN words = 1 .. Len(words) /\ Len(words) \in Nat
      /\ DOMAIN args = 1 .. Len(args) /\ Len(args) \in Nat
  BY Line, Table
<1>5. offer =
        CASE inPlace -> Flags({args[c].name})
          [] Canon(args, ws)[c] # NoArgument -> Flags({Canon(args, ws)[c].name})
          [] OTHER ->
             IF required # {} /\ (type = NoArgument \/ (extra /\ IsSwitch(word) /\ word.text = None))
             THEN Flags({args[next].name})
             ELSE IF type # NoArgument /\ ~extra THEN Other("value")
             ELSE IF extra /\ Dashed(word) /\ required # {} THEN Other("garbled")
             ELSE IF /\ word.kind = "empty" \/ Dashed(word)
                     /\ options # {} /\ (type = NoArgument \/ Dashed(word))
             THEN Flags(options)
             ELSE IF extra THEN Other("value") ELSE Other("nothing")
  BY DEF Offer
<1>6. required # {} => next \in required
  <2> HIDE DEF left
  <2>1. required \in SUBSET DOMAIN args
    OBVIOUS
  <2> HIDE DEF required
  <2> QED
    BY <1>4, <2>1, FirstArgument
<1>7. required # {} => args[next].name \in left
  BY <1>6
<1>8. options \subseteq left
  OBVIOUS
<1>9. Canon(args, ws)[c] = NoArgument
  <2>1. DOMAIN ws = 1 .. Len(ws) /\ Len(ws) \in Nat
    BY <1>2 DEF Typing
  <2> HIDE DEF ws
  <2>2. c \in DOMAIN ws
    BY <1>2, <1>4, <2>1
  <2>3. Canon(args, ws)[c] = IF Dashed(word) THEN Unique(args, word) ELSE NoArgument
    BY <1>2, <2>1, <2>2, TypingSpaced, CanonIs
  <2>4. w.text = None
    BY DEF Cursor
  <2> QED
    BY <1>2, <1>4, <2>3, <2>4, DashAlone
<1>10. CASE inPlace
  <2>1. offer.names = {args[c].name}
    <3>1. offer = Flags({args[c].name})
      BY <1>5, <1>9, <1>10
    <3> QED
      BY <3>1 DEF Flags
  <2>2. DOMAIN ws = 1 .. Len(ws) /\ Len(ws) \in Nat /\ \A k \in DOMAIN words : ws[k] = words[k]
    BY <1>2 DEF Typing
  <2> DEFINE u == ByPosition(args, ws).taken
             m == Leading(ws)
             r == InOrder(args)
  <2>3. /\ u <= m /\ u <= r /\ r \in 0 .. Len(args) /\ m \in 0 .. Len(ws)
        /\ u \in {r, Several(args), m} /\ Several(args) \in 1 .. Len(args) + 1
        /\ \A k \in 1 .. m : ~Dashed(ws[k])
    BY <1>4, <2>2, ByPositionIs
  <2>4. /\ ByPosition(args, words).taken <= Leading(words) /\ Leading(words) \in 0 .. Len(words)
    BY <1>4, ByPositionIs
  <2>5. ByPosition(args, words).taken = av - 1 /\ av \in Nat \ {0} /\ av <= Len(args) + 1
    BY Line DEF Plain
  <2> HIDE DEF ws, u, m, r
  <2>6. u \in Int /\ c <= u
    BY <1>4, <1>10, <2>2, <2>3 DEF u
  <2>7. c \in 1 .. Len(args) /\ c <= m
    BY <1>2, <1>4, <2>2, <2>3, <2>6
  <2>8. Switches = {}
    <3> SUFFICES ASSUME NEW s \in Switches PROVE FALSE
      OBVIOUS
    <3>1. s \in DOMAIN words /\ IsSwitch(words[s])
      BY DEF Switches
    <3>2. s \in 1 .. m
      BY <1>2, <1>4, <2>2, <2>3, <2>7, <3>1
    <3>3. Dashed(ws[s])
      BY <2>2, <3>1 DEF Dashed, IsSwitch
    <3> QED
      BY <2>3, <3>2, <3>3
  <2>9. DOMAIN result = Named(av - 1)
    BY <2>8, AllTaken DEF FoundBy
  <2>10. ASSUME args[c].name \in Named(av - 1) PROVE FALSE
    <3>1. PICK p \in 1 .. av - 1 : args[c].name = args[p].name
      BY <2>10 DEF Named
    <3>2. p \in DOMAIN args /\ c \in DOMAIN args
      BY <1>4, <2>5, <2>7
    <3>3. p = c
      BY <1>4, <3>1, <3>2, Table
    <3>4. av - 1 <= Len(words)
      BY <2>4, <2>5, <1>4
    <3> QED
      BY <1>2, <1>4, <2>5, <3>1, <3>3, <3>4
  <2>11. offer.names \cap DOMAIN result = {}
    BY <2>1, <2>9, <2>10
  <2> QED
    BY <2>11 DEF ws
<1>11. CASE ~inPlace
  <2> HIDE DEF offer, ws, c, word, type, extra, left, required, next, options, inPlace
  <2>1. \/ required # {} /\ offer = Flags({args[next].name})
        \/ offer = Flags(options)
        \/ \E kind : offer = Other(kind)
    BY <1>5, <1>9, <1>11
  <2>2. offer.names \subseteq left
    BY <1>7, <1>8, <2>1 DEF Flags, Other
  <2>3. offer.names \cap DOMAIN result = {}
    BY <1>3, <2>2
  <2> QED
    BY <2>3 DEF offer, ws
<1> QED
  BY <1>10, <1>11

\* The helper, with its own code for the grammar, agrees with the parser.
THEOREM AlwaysAgrees == LineSpec => []HelperAgrees
<1>1. LineInv => HelperAgrees
  BY HelperReads, HelperOffers DEF HelperAgrees
<1> QED
  BY <1>1, LineInvariance, PTL
=============================================================================
