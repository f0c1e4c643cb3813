----------------------------- MODULE VosCreate -----------------------------
(***************************************************************************)
(* `vos create`: a volume is made in one transaction with a volume server  *)
(* and entered in the VLDB by a call to a VL server, and what was done is  *)
(* undone if the second step fails.  Several administrators may be at it   *)
(* at the same time, for the same name.                                    *)
(*                                                                         *)
(* Every step is one RPC.  Besides succeeding it may be refused (not       *)
(* executed: the server is down, or aborts the call) or its answer may be  *)
(* lost (executed, but the client gets an exception: a timeout, a network  *)
(* error, or the administrator's control-C).  The two servers are not part *)
(* of the repository: of each of their calls only the effect this command  *)
(* relies on is modelled.                                                  *)
(***************************************************************************)
EXTENDS Integers, FiniteSets

CONSTANTS
  Clients,    \* runs of the command
  Names,      \* volume names they are asked to create
  NoId,       \* no volume, no entry
  MaxFaults   \* bound: RPCs that are refused without need or lost

ASSUME VosCreateAssumption ==
  /\ IsFiniteSet(Clients) /\ NoId \notin Nat
  /\ MaxFaults \in Nat

VARIABLES
  pc,         \* the step each client is at
  name,       \* params["name"]
  rw_id,      \* volume_ids[RWVOL]
  spare_ids,  \* volume_ids[ROVOL], volume_ids[BACKVOL]
  volid,      \* the volume the transaction is about: ret.volid
  next_id,    \* VL server: the next volume ID to hand out
  vldb,       \* VL server: the RW volume's ID of the entry of each name
  volumes,    \* volume server: the volumes there are
  trans,      \* volume server: the volumes with an open transaction
  faults,     \* history: how many RPCs have gone wrong
  refused,    \* history: RPCs of each client that were not executed
  lost,       \* history: RPCs of each client that were, without an answer
  interrupted \* history: those of them that a control-C cut short

clientVars == <<pc, name, rw_id, spare_ids, volid>>
vlVars == <<next_id, vldb>>
volVars == <<volumes, trans>>
historyVars == <<faults, refused, lost, interrupted>>
vars == <<clientVars, vlVars, volVars, historyVars>>

\* The RPCs in the order main() makes them, then those of its except clause.
Steps == {"XListPartitions", "GetEntryByName", "NewRWId", "NewROId", "NewBackId",
          "CreateVolume", "SetInfo", "SetFlags", "CreateEntry", "EndTrans",
          "DeleteVolume", "EndTransOnError"}

TypeOK ==
  /\ pc \in [Clients -> Steps \cup {"ok", "failed"}]
  /\ name \in [Clients -> Names]
  /\ rw_id \in [Clients -> Nat \cup {NoId}]
  /\ spare_ids \in [Clients -> SUBSET Nat]
  /\ volid \in [Clients -> Nat \cup {NoId}]
  /\ \A c \in Clients :                              \* `transaction` is bound
       pc[c] \in {"SetInfo", "SetFlags", "CreateEntry", "EndTrans",
                 "DeleteVolume", "EndTransOnError"} => volid[c] \in Nat
  /\ next_id \in Nat
  /\ vldb \in [Names -> Nat \cup {NoId}]
  /\ volumes \subseteq 0 .. next_id - 1
  /\ trans \subseteq 0 .. next_id - 1
  /\ faults \in 0 .. MaxFaults
  /\ refused \in [Clients -> SUBSET Steps]
  /\ lost \in [Clients -> SUBSET Steps]
  /\ interrupted \in [Clients -> SUBSET Steps]

Init ==
  /\ pc = [c \in Clients |-> "XListPartitions"]
  /\ name \in [Clients -> Names]
  /\ rw_id = [c \in Clients |-> NoId]
  /\ spare_ids = [c \in Clients |-> {}]
  /\ volid = [c \in Clients |-> NoId]
  /\ next_id = 0
  /\ vldb = [n \in Names |-> NoId]
  /\ volumes = {} /\ trans = {}
  /\ faults = 0
  /\ refused = [c \in Clients |-> {}]
  /\ lost = [c \in Clients |-> {}]
  /\ interrupted = [c \in Clients |-> {}]

-----------------------------------------------------------------------------
(* What happens to an RPC, and where main() goes on. *)

Ended == {"ok", "failed"}

\* What an RPC raises: an error, which is an Exception to Python, or, if a
\* control-C comes during or just before it, a KeyboardInterrupt, which is none.
Exceptions == {"Exception", "KeyboardInterrupt"}

\* The body of the try statement.
TryBody == {"SetInfo", "SetFlags", "CreateEntry"}

\* Where the RPC's exception leads.  In the body of the try statement to the
\* cleanup, unless it is an interrupt: the clause says `except Exception`.  In
\* the cleanup, to its other call: the inner clauses say `except`, and miss only
\* an interrupt that comes before the inner try statement is entered.  Anywhere
\* else it ends the command.
Handlers(step, e) ==
  {next \in {"DeleteVolume", "EndTransOnError", "failed"} :
     \/ next = "DeleteVolume" /\ step \in TryBody /\ e = "Exception"
     \/ next = "EndTransOnError" /\ step = "DeleteVolume"
     \/ next = "failed" /\ step \notin TryBody \cup {"DeleteVolume"}
     \/ next = "failed" /\ step \in TryBody \cup {"DeleteVolume"} /\ e = "KeyboardInterrupt"}

GoTo(c, step) == pc' = [pc EXCEPT ![c] = step]

Answered(c, next) == GoTo(c, next) /\ UNCHANGED historyVars

\* The RPC ends in an exception.
Raised(c) ==
  \E e \in Exceptions :
    /\ \E next \in Handlers(pc[c], e) : GoTo(c, next)
    /\ interrupted' = IF e = "KeyboardInterrupt"
                        THEN [interrupted EXCEPT ![c] = @ \cup {pc[c]}] ELSE interrupted

\* Fault: the RPC was executed, but the client sees an exception.
Lost(c) ==
  /\ faults < MaxFaults
  /\ faults' = faults + 1
  /\ lost' = [lost EXCEPT ![c] = @ \cup {pc[c]}]
  /\ Raised(c)
  /\ UNCHANGED refused

\* Fault: any RPC may fail before it does anything.  So does main() itself if
\* the partition is not on the server, or -maxquota is not a number.
Refused(c) ==
  /\ pc[c] \notin Ended
  /\ faults < MaxFaults
  /\ faults' = faults + 1
  /\ refused' = [refused EXCEPT ![c] = @ \cup {pc[c]}]
  /\ Raised(c)
  /\ UNCHANGED <<name, rw_id, spare_ids, volid, vlVars, volVars, lost>>

-----------------------------------------------------------------------------
(* The steps of main(). *)

XListPartitions(c) ==
  /\ pc[c] = "XListPartitions"
  /\ Answered(c, "GetEntryByName")
  /\ UNCHANGED <<name, rw_id, spare_ids, volid, vlVars, volVars>>

\* "The volume mustn't exist in the VLDB"
GetEntryByName(c) ==
  /\ pc[c] = "GetEntryByName"
  /\ Answered(c, IF vldb[name[c]] = NoId THEN "NewRWId" ELSE "failed")
  /\ UNCHANGED <<name, rw_id, spare_ids, volid, vlVars, volVars>>

\* Three calls for three volume IDs.
NewRWId(c) ==
  /\ pc[c] = "NewRWId"
  /\ next_id' = next_id + 1
  /\ \/ Answered(c, "NewROId") /\ rw_id' = [rw_id EXCEPT ![c] = next_id]
     \/ Lost(c) /\ UNCHANGED rw_id
  /\ UNCHANGED <<name, spare_ids, volid, vldb, volVars>>

NewSpareId(c) ==
  /\ pc[c] \in {"NewROId", "NewBackId"}
  /\ next_id' = next_id + 1
  /\ \/ /\ Answered(c, IF pc[c] = "NewROId" THEN "NewBackId" ELSE "CreateVolume")
        /\ spare_ids' = [spare_ids EXCEPT ![c] = @ \cup {next_id}]
     \/ Lost(c) /\ UNCHANGED spare_ids
  /\ UNCHANGED <<name, rw_id, volid, vldb, volVars>>

\* The volume is created in a transaction.  This is before the try statement:
\* if the answer is lost, or names another volume than the one asked for,
\* nobody looks after the transaction.
CreateVolume(c) ==
  /\ pc[c] = "CreateVolume"
  /\ volumes' = volumes \cup {rw_id[c]}
  /\ trans' = trans \cup {rw_id[c]}
  /\ \/ Answered(c, "SetInfo") /\ volid' = [volid EXCEPT ![c] = rw_id[c]]
     \/ Lost(c) /\ UNCHANGED volid
  /\ UNCHANGED <<name, rw_id, spare_ids, vlVars>>

SetInfo(c) ==
  /\ pc[c] = "SetInfo"
  /\ Answered(c, "SetFlags") \/ Lost(c)
  /\ UNCHANGED <<name, rw_id, spare_ids, volid, vlVars, volVars>>

SetFlags(c) ==
  /\ pc[c] = "SetFlags"
  /\ Answered(c, "CreateEntry") \/ Lost(c)
  /\ UNCHANGED <<name, rw_id, spare_ids, volid, vlVars, volVars>>

\* The VL server enters the volume, unless the name has been taken since.
CreateEntry(c) ==
  /\ pc[c] = "CreateEntry"
  /\ \/ /\ vldb[name[c]] = NoId
        /\ vldb' = [vldb EXCEPT ![name[c]] = rw_id[c]]
        /\ Answered(c, "EndTrans") \/ Lost(c)
     \/ /\ vldb[name[c]] # NoId
        /\ Answered(c, "DeleteVolume")
        /\ UNCHANGED vldb
  /\ UNCHANGED <<name, rw_id, spare_ids, volid, next_id, volVars>>

\* "Polish off"
EndTrans(c) ==
  /\ pc[c] = "EndTrans"
  /\ trans' = trans \ {volid[c]}
  /\ Answered(c, "ok") \/ Lost(c)
  /\ UNCHANGED <<name, rw_id, spare_ids, volid, vlVars, volumes>>

\* The except clause: delete the volume, end the transaction.
DeletedNone(c) == {}                                 \* mutant: not deleted
DeletedOfName(c) == {volid[c], vldb[name[c]]}        \* mutant: by name
Deleted(c) == {volid[c]}

DeleteVolume(c) ==
  /\ pc[c] = "DeleteVolume"
  /\ volumes' = volumes \ Deleted(c)
  /\ Answered(c, "EndTransOnError") \/ Lost(c)
  /\ UNCHANGED <<name, rw_id, spare_ids, volid, vlVars, trans>>

EndTransOnError(c) ==
  /\ pc[c] = "EndTransOnError"
  /\ trans' = trans \ {volid[c]}
  /\ Answered(c, "failed") \/ Lost(c)
  /\ UNCHANGED <<name, rw_id, spare_ids, volid, vlVars, volumes>>

Step(c) ==
  \/ Refused(c)
  \/ XListPartitions(c) \/ GetEntryByName(c) \/ NewRWId(c) \/ NewSpareId(c)
  \/ CreateVolume(c) \/ SetInfo(c) \/ SetFlags(c) \/ CreateEntry(c) \/ EndTrans(c)
  \/ DeleteVolume(c) \/ EndTransOnError(c)

Next == \E c \in Clients : Step(c)

Spec == Init /\ [][Next]_vars

-----------------------------------------------------------------------------
(* Properties. *)

\* A command that reports success has made a volume that can be used: it is
\* there, its transaction is over and the VLDB's entry of the name leads to it,
\* whatever other clients, and their cleanups, do to the same name.
CreatedMeansUsable ==
  \A c \in Clients : pc[c] = "ok" =>
    /\ rw_id[c] \in volumes /\ rw_id[c] \notin trans
    /\ vldb[name[c]] = rw_id[c]

\* The VLDB leads to a volume that is not there only if the answer to
\* VL_CreateEntryN was lost: the cleanup then deletes a volume that has an entry.
DanglingEntryExplained ==
  \A n \in Names : vldb[n] # NoId /\ vldb[n] \notin volumes =>
    \E c \in Clients : name[c] = n /\ rw_id[c] = vldb[n] /\ "CreateEntry" \in lost[c]

\* "We should probably clean up the volume we've just created, rather than
\* leaving it lying around": a failed command leaves a volume without an entry
\* only if the cleanup could not delete it, it never learnt of it, or a control-C
\* took it out of the try statement past the cleanup.
LeftoverExplained ==
  \A c \in Clients :
    pc[c] = "failed" /\ rw_id[c] \in volumes /\ vldb[name[c]] # rw_id[c] =>
      \/ "DeleteVolume" \in refused[c] \/ "CreateVolume" \in lost[c]
      \/ interrupted[c] \cap TryBody # {}

\* The same as the comment has it, with no word of control-C: the volume that a
\* failed command learnt of is there without an entry only if the cleanup tried
\* to delete it and could not.
CleanedUp ==
  \A c \in Clients :
    pc[c] = "failed" /\ volid[c] \in volumes /\ vldb[name[c]] # volid[c] =>
      "DeleteVolume" \in refused[c]

\* A command that has ended leaves its transaction open only if it was never
\* told of it, could not end it, or was interrupted before it got to that.
OpenTransExplained ==
  \A c \in Clients : pc[c] \in Ended /\ rw_id[c] \in trans =>
    \/ "CreateVolume" \in lost[c]
    \/ {"EndTrans", "EndTransOnError"} \cap refused[c] # {}
    \/ interrupted[c] \cap (TryBody \cup {"DeleteVolume"}) # {}
=============================================================================
