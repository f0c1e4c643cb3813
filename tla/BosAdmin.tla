----------------------------- MODULE BosAdmin -----------------------------
(***************************************************************************)
(* One run of a `bos` command that lists, changes or controls what a BOS   *)
(* server looks after: its instances, users, hosts, keys and binaries.     *)
(* The command makes one call for each item of its command line, or reads  *)
(* a list of the server's one index at a time, while other administrators  *)
(* change the same list and the server's processes start and stop.         *)
(*                                                                         *)
(* A command deals with one of the server's lists, which `list` stands for.*)
(* (getlog and install, which transfer files, are in SplitCall.)           *)
(***************************************************************************)
EXTENDS Naturals, Sequences, FiniteSets

CONSTANTS
  Entries,       \* what may be in the list
  Requests,      \* bound: the command lines, see Request
  Lists,         \* bound: the server's list when the command starts
  MaxParms,      \* bound: how many commands an instance has
  MaxRivals      \* bound: what other administrators do during the command

VARIABLES
  list,          \* the server: the list, in the order of its indices
  goal, up,      \* the server: instances that are to run, and that run
  request,       \* command, form, items, and whether -wait or -long is given
  pc,            \* the part of main() that runs
  at,            \* the item main() is at
  found,         \* what the enumeration has brought
  parm,          \* display_instance_long(): i
  error_occurred,
  exitcode,      \* output.exitcode
  end,           \* how main() ended: normally or with which exception
  told,          \* history: the items the server has acknowledged
  lost,          \* history: an item was carried out and its answer lost
  kept,          \* history: what has been in the list since the command began
  seen,          \* history: what has been in the list at some time since
  removals,      \* history: what others took out of the list
  touched,       \* history: instances that others started or took out
  rivals         \* history: changes made by others

server == <<list, goal, up>>
control == <<pc, at, found, parm, error_occurred, exitcode, end>>
watched == <<kept, seen, removals, touched, rivals>>
vars == <<server, request, control, told, lost, watched>>

Members(s) == {s[k] : k \in DOMAIN s}

-----------------------------------------------------------------------------
(* The commands. *)

\* op: what the call of an item does; caught: the aborts main() reports;
\* stops: a caught abort ends the loop.
Plain == [op |-> "set", caught |-> {}, stops |-> FALSE]

addhost == [Plain EXCEPT !.op = "put"]
addkey == [Plain EXCEPT !.op = "add", !.caught = {"EXISTS"}]
adduser == [Plain EXCEPT !.op = "add", !.caught = {"EXISTS"}]
create == [Plain EXCEPT !.op = "add", !.caught = {"EXISTS"}]
delete == [Plain EXCEPT !.op = "remove", !.caught = {"BUSY"}]
uninstall == [Plain EXCEPT !.op = "remove", !.caught = {"BUSY"}]
removehost == [Plain EXCEPT !.op = "remove", !.caught = {"NOENT"}]
removekey == [Plain EXCEPT !.op = "remove", !.caught = {"NOENT"}, !.stops = TRUE]
removeuser == [Plain EXCEPT !.op = "remove", !.caught = {"NOENT"}]
start == [Plain EXCEPT !.op = "start", !.caught = {"NOENT"}]
startup == start
stop == [Plain EXCEPT !.op = "stop", !.caught = {"NOENT"}]
shutdown == stop
restart == [Plain EXCEPT !.op = "restart", !.caught = {"NOENT"}]
setauth == [Plain EXCEPT !.caught = {"ACCESS"}]
setrestricted == [Plain EXCEPT !.caught = {"ACCESS"}]
exec == [Plain EXCEPT !.caught = {"ACCESS", "STATUS"}]
setcellname == Plain
setrestart == Plain
prune == Plain
getdate == Plain
getrestart == Plain
getrestricted == Plain
\* Those that read a list by index.
listhosts == [Plain EXCEPT !.op = "list"]
listkeys == [Plain EXCEPT !.op = "list"]
listusers == [Plain EXCEPT !.op = "list"]
status == [Plain EXCEPT !.op = "list", !.caught = {"NOENT"}]

Command ==
  [addhost |-> addhost, addkey |-> addkey, adduser |-> adduser, create |-> create,
   delete |-> delete, uninstall |-> uninstall, removehost |-> removehost,
   removekey |-> removekey, removeuser |-> removeuser, start |-> start,
   startup |-> startup, stop |-> stop, shutdown |-> shutdown, restart |-> restart,
   setauth |-> setauth, setrestricted |-> setrestricted, exec |-> exec,
   setcellname |-> setcellname, setrestart |-> setrestart, prune |-> prune,
   getdate |-> getdate, getrestart |-> getrestart, getrestricted |-> getrestricted,
   listhosts |-> listhosts, listkeys |-> listkeys, listusers |-> listusers,
   status |-> status]

main == Command[request.command]
OfInstances == {"create", "delete", "start", "startup", "stop", "shutdown",
                "restart", "status"}

\* form: a call for each item, one call for the whole server ("all"), a
\* listing, or words main() refuses ("bad": setauth, setrestricted, create,
\* restart).  Only stop and shutdown have -wait.
Request == [command : DOMAIN Command, form : {"items", "all", "list", "bad"},
            items : Seq(Entries), wait : BOOLEAN, long : BOOLEAN]

ASSUME BosAssumption ==
  /\ MaxParms \in Nat /\ MaxRivals \in Nat
  /\ Requests \subseteq Request
  /\ \A r \in Requests :
       /\ r.form = "items" => r.items # <<>>
       /\ r.form = "list" => r.command \in {"listhosts", "listkeys", "listusers", "status"}
       /\ r.wait => r.command \in {"stop", "shutdown"}
  /\ Lists \subseteq Seq(Entries)
  /\ \A s \in Lists : \A i, j \in DOMAIN s : s[i] = s[j] => i = j

TypeOK ==
  /\ list \in Seq(Entries) /\ Cardinality(Members(list)) = Len(list)
  /\ goal \subseteq Members(list) /\ up \subseteq Members(list)
  /\ request \in Requests
  /\ pc \in {"begin", "name", "enum", "item", "status", "strings", "parm",
             "all", "wait", "ended"}
  /\ at \in Nat \ {0}
  /\ found \in Seq(Entries)
  /\ parm \in 0 .. MaxParms
  /\ error_occurred \in BOOLEAN /\ exitcode \in {0, 1}
  /\ end \in {"", "normal", "AFSArgumentError", "OSError", "Abort"}
  /\ told \subseteq Nat /\ lost \in BOOLEAN
  /\ kept \subseteq Members(list) /\ kept \subseteq seen /\ seen \subseteq Entries
  /\ removals \in 0 .. MaxRivals /\ rivals \in 0 .. MaxRivals
  /\ touched \subseteq Entries

Init ==
  /\ list \in Lists
  /\ request \in Requests
  /\ IF request.command \in OfInstances
     THEN goal \in SUBSET Members(list) /\ up = goal
     ELSE goal = {} /\ up = {}
  /\ pc = "begin" /\ at = 1 /\ found = <<>> /\ parm = 0
  /\ error_occurred = FALSE /\ exitcode = 0 /\ end = ""
  /\ told = {} /\ lost = FALSE
  /\ kept = Members(list) /\ seen = Members(list)
  /\ removals = 0 /\ touched = {} /\ rivals = 0

-----------------------------------------------------------------------------
(* The server, which is not in the repository: of each call, what the      *)
(* commands rely on.                                                       *)

Put(e) == list' = IF e \in Members(list) THEN list ELSE Append(list, e)
TakeOut(e) ==
  \E i \in DOMAIN list :
    /\ list[i] = e
    /\ list' = [k \in 1 .. Len(list) - 1 |-> IF k < i THEN list[k] ELSE list[k + 1]]

BOZO_Add(e, answer) ==
  /\ UNCHANGED up
  /\ \/ answer = "EXISTS" /\ e \in Members(list) /\ UNCHANGED <<list, goal>>
     \/ /\ answer = "ok" /\ e \notin Members(list) /\ Put(e)
        /\ goal' = IF request.command = "create" THEN goal \cup {e} ELSE goal

BOZO_Delete(e, answer) ==
  /\ UNCHANGED <<goal, up>>
  /\ \/ answer = "NOENT" /\ e \notin Members(list) /\ UNCHANGED list
     \/ answer = "BUSY" /\ e \in up \cup goal /\ UNCHANGED list
     \/ answer = "ok" /\ e \in Members(list) \ (up \cup goal) /\ TakeOut(e)

\* BOZO_SetStatus, BOZO_SetTStatus and BOZO_Restart, which waits for the
\* instance to be down.
BOZO_Control(e, answer) ==
  /\ UNCHANGED list
  /\ \/ answer = "NOENT" /\ e \notin Members(list) /\ UNCHANGED <<goal, up>>
     \/ /\ answer = "ok" /\ e \in Members(list)
        /\ goal' = IF main.op = "stop" THEN goal \ {e} ELSE goal \cup {e}
        /\ up' = IF main.op = "restart" THEN up \ {e} ELSE up

Served(e, answer) ==
  \/ answer = "ACCESS" /\ UNCHANGED server
  \/ main.op = "put" /\ answer = "ok" /\ Put(e) /\ UNCHANGED <<goal, up>>
  \/ main.op = "add" /\ BOZO_Add(e, answer)
  \/ main.op = "remove" /\ BOZO_Delete(e, answer)
  \/ main.op \in {"start", "stop", "restart"} /\ BOZO_Control(e, answer)
  \/ /\ main.op = "set" /\ UNCHANGED server
     /\ answer \in {"ok"} \cup (IF request.command = "exec" THEN {"STATUS"} ELSE {})

Aborts == {"EXISTS", "NOENT", "BUSY", "ACCESS", "STATUS"}

\* BOZO_StartupAll, BOZO_ShutdownAll, BOZO_RestartAll, BOZO_ReBozo
ServedAll ==
  /\ UNCHANGED list
  /\ goal' = IF main.op = "stop" THEN {} ELSE Members(list)
  /\ up' = IF main.op = "restart" THEN {} ELSE up

Watch ==
  /\ kept' = kept \cap Members(list')
  /\ seen' = seen \cup Members(list')
  /\ UNCHANGED <<removals, touched, rivals>>

-----------------------------------------------------------------------------
(* main() *)

End(how) == pc' = "ended" /\ end' = how

\* error()
ErrorUnnoticed == UNCHANGED exitcode                 \* mutant: exit code not set
Error == exitcode' = 1

\* What becomes of the words of the command line that name hosts: the first of
\* them, once for each.
get_vlservers(words) == [k \in DOMAIN words |-> words[1]]
OfHosts == {"addhost", "removehost"}

\* What is looped over: the command line, or what an enumeration brought.
items ==
  IF request.form = "list" THEN found
  ELSE IF request.command \in OfHosts THEN get_vlservers(request.items)
  ELSE request.items
item == items[at]

\* After the loop: stop and shutdown wait, unless an error was reported.
AfterLoopHasty(failed) == End("normal")              \* mutant: never waits
AfterLoop(failed) ==
  IF request.wait /\ ~failed THEN pc' = "wait" /\ UNCHANGED end ELSE End("normal")

NextItem(failed) ==
  IF at < Len(items) THEN at' = at + 1 /\ pc' = "item" /\ UNCHANGED end
  ELSE UNCHANGED at /\ AfterLoop(failed)

Begin ==
  /\ pc = "begin"
  /\ \/ request.form = "bad" /\ End("AFSArgumentError")
     \/ request.form = "items" /\ pc' = "item" /\ UNCHANGED end
     \/ request.form = "all" /\ pc' = "all" /\ UNCHANGED end
     \/ /\ request.form = "list" /\ UNCHANGED end
        /\ pc' = IF request.command = "listhosts" THEN "name" ELSE "enum"
  /\ UNCHANGED <<server, request, at, found, parm, error_occurred, exitcode,
                 told, lost, watched>>

\* listhosts: BOZO_GetCellName.
CellName ==
  /\ pc = "name" /\ pc' = "enum"
  /\ UNCHANGED <<server, request, at, found, parm, error_occurred, exitcode, end,
                 told, lost, watched>>

\* The index the next entry is asked for by, from 0 as the server counts.
IndexFromOne == Len(found) + 1                       \* mutant: skips the first
Index == Len(found)

\* BOZO_EnumerateInstance, BOZO_GetCellHost, BOZO_ListKeys or BOZO_ListSUsers.
Enumerate ==
  /\ pc = "enum" /\ Index < Len(list)
  /\ found' = Append(found, list[Index + 1])
  /\ UNCHANGED <<server, request, pc, at, parm, error_occurred, exitcode, end,
                 told, lost, watched>>

\* AbortBZDOM, or "Aborted 1": there is nothing at the index.
Enumerated ==
  /\ pc = "enum" /\ Index >= Len(list)
  /\ IF request.command = "status" /\ found # <<>>
     THEN pc' = "item" /\ UNCHANGED end ELSE End("normal")
  /\ UNCHANGED <<server, request, at, found, parm, error_occurred, exitcode,
                 told, lost, watched>>

CallDue == pc = "item" /\ request.command # "status"

Succeed ==
  /\ CallDue
  /\ Served(item, "ok")
  /\ told' = told \cup {at}
  /\ NextItem(error_occurred)
  /\ Watch
  /\ UNCHANGED <<request, found, parm, error_occurred, exitcode, lost>>

\* An abort is reported, or goes up to _main() ("Unhandled exception").
Aborted(answer) ==
  IF answer \notin main.caught
  THEN End("Abort") /\ UNCHANGED <<at, error_occurred, exitcode>>
  ELSE /\ Error
       /\ error_occurred' = (request.command \in {"stop", "shutdown"} \/ error_occurred)
       /\ IF main.stops THEN End("normal") /\ UNCHANGED at
          ELSE NextItem(error_occurred')

Fail ==
  /\ CallDue
  /\ \E answer \in Aborts : Served(item, answer) /\ Aborted(answer)
  /\ UNCHANGED <<request, found, parm, told, lost, watched>>

All ==
  /\ pc = "all"
  /\ \/ ServedAll /\ AfterLoop(error_occurred)
     \/ UNCHANGED server /\ End("Abort")
  /\ UNCHANGED <<request, at, found, parm, error_occurred, exitcode, told, lost, watched>>

\* BOZO_WaitAll answers when each process is as it is to be.
Wait ==
  /\ pc = "wait" /\ up = goal
  /\ End("normal")
  /\ UNCHANGED <<server, request, at, found, parm, error_occurred, exitcode,
                 told, lost, watched>>

\* status: BOZO_GetInstanceInfo, BOZO_GetStatus, with -long BOZO_GetInstanceStrings
\* if there was an error exit, and BOZO_GetInstanceParm by index to AbortBZDOM.
Displaying == (pc = "item" /\ request.command = "status")
                \/ pc \in {"status", "strings", "parm"}
Display ==
  /\ Displaying /\ item \in Members(list)
  /\ \/ pc = "item" /\ pc' = "status" /\ UNCHANGED <<at, parm, end, told>>
     \/ /\ pc = "status" /\ request.long
        /\ pc' \in {"strings", "parm"} /\ parm' = 0 /\ UNCHANGED <<at, end, told>>
     \/ pc = "strings" /\ pc' = "parm" /\ UNCHANGED <<at, parm, end, told>>
     \/ /\ pc = "parm" /\ parm < MaxParms
        /\ parm' = parm + 1 /\ UNCHANGED <<pc, at, end, told>>
     \/ /\ pc = "parm" \/ (pc = "status" /\ ~request.long)
        /\ told' = told \cup {at} /\ NextItem(error_occurred) /\ UNCHANGED parm
  /\ UNCHANGED <<server, request, found, error_occurred, exitcode, lost, watched>>

\* AbortBZNOENT from any of them.
DisplayGone ==
  /\ Displaying /\ item \notin Members(list)
  /\ Aborted("NOENT")
  /\ UNCHANGED <<server, request, found, parm, told, lost, watched>>

-----------------------------------------------------------------------------
(* What goes wrong, and what goes on meanwhile. *)

\* The server cannot be reached: an OSError, which _main() reports.
NotCarriedOut ==
  /\ pc \in {"name", "enum", "item", "status", "strings", "parm", "all", "wait"}
  /\ End("OSError")
  /\ UNCHANGED <<server, request, at, found, parm, error_occurred, exitcode,
                 told, lost, watched>>

AnswerLost ==
  /\ \/ CallDue /\ Served(item, "ok")
     \/ pc = "all" /\ ServedAll
  /\ End("OSError") /\ lost' = TRUE
  /\ Watch
  /\ UNCHANGED <<request, at, found, parm, error_occurred, exitcode, told>>

Run ==
  \/ Begin \/ CellName \/ Enumerate \/ Enumerated \/ Succeed \/ Fail \/ All
  \/ Wait \/ Display \/ DisplayGone \/ NotCarriedOut \/ AnswerLost

\* A process of the server's starts or ends, as it is to.
Settle ==
  /\ \E e \in (goal \ up) \cup (up \ goal) :
       up' = IF e \in up THEN up \ {e} ELSE up \cup {e}
  /\ UNCHANGED <<list, goal, request, control, told, lost, watched>>

\* Another administrator adds an entry, takes one out, or starts or stops an
\* instance.
Rival ==
  /\ pc # "ended" /\ rivals < MaxRivals
  /\ \/ /\ \E e \in Entries \ Members(list) : Put(e)
        /\ UNCHANGED <<goal, up, removals, touched>>
     \/ /\ \E e \in Members(list) \ (goal \cup up) :
             TakeOut(e) /\ touched' = touched \cup {e}
        /\ removals' = removals + 1 /\ UNCHANGED <<goal, up>>
     \/ /\ request.command \in OfInstances
        /\ \E e \in Members(list) \ goal :
             goal' = goal \cup {e} /\ touched' = touched \cup {e}
        /\ UNCHANGED <<list, up, removals>>
  /\ rivals' = rivals + 1
  /\ kept' = kept \cap Members(list') /\ seen' = seen \cup Members(list')
  /\ UNCHANGED <<request, control, told, lost>>

Next == Run \/ Settle \/ Rival

Spec == Init /\ [][Next]_vars

-----------------------------------------------------------------------------
(* Properties. *)

Enumerating == request.form = "list" /\ pc \notin {"begin", "name", "enum"}
                 /\ end \notin {"OSError", "Abort"}

\* An enumeration by index shows only what was there at some time; each entry
\* that was there all the time and that it missed is explained by one that
\* somebody took out meanwhile, and nothing comes twice unless it was taken
\* out and put back.
ListingExplained ==
  /\ Members(found) \subseteq seen
  /\ Enumerating => Cardinality(kept \ Members(found)) <= removals
  /\ \A j, k \in DOMAIN found : found[j] = found[k] /\ j # k => found[j] \in touched

AllTold == DOMAIN items \subseteq told

\* Everything on the command line, or in the list that was read, has been
\* acknowledged, or shown.
Named == IF request.form = "list" THEN found ELSE request.items
AllNamedTold == \A k \in DOMAIN Named : \E j \in told \cap DOMAIN items : items[j] = Named[k]

\* Hosts were named of which the command knows only the first.
HostsMissed ==
  /\ request.command \in OfHosts
  /\ \E k \in DOMAIN request.items : request.items[k] # request.items[1]

\* The exit code tells the truth: a command that ends with zero has had
\* everything that was named acknowledged, or shown, but for the hosts after the
\* first of addhost and removehost; one that has had every call answered and
\* still fails lost an answer, or could not wait.
ExitTellsTruth ==
  pc = "ended" /\ request.form \in {"items", "list"} /\ request.command \notin
      {"listhosts", "listkeys", "listusers"} =>
    /\ end = "normal" /\ exitcode = 0 => AllTold /\ (AllNamedTold \/ HostsMissed)
    /\ AllTold /\ ~(end = "normal" /\ exitcode = 0) =>
         \/ request.wait
         \/ request.form = "list" /\ end = "OSError"

\* What the command lines of addhost and removehost promise ("-host <host name>+")
\* and the manual says of such arguments ("any additional values at the end belong
\* to the final argument"): when the command has ended with zero, and nobody else
\* has changed the list, it has each host, or none of them.  The code violates it:
\* the conversion takes the first word for all of them.
EveryHostServed ==
  pc = "ended" /\ end = "normal" /\ exitcode = 0 /\ rivals = 0 =>
    /\ request.command = "addhost" => Members(request.items) \subseteq Members(list)
    /\ request.command = "removehost" => Members(request.items) \cap Members(list) = {}

\* If stop or shutdown was to wait and says that all went well, then none of
\* the instances it was for is running, but for those others have started.
StoppedWhenWaited ==
  pc = "ended" /\ request.wait /\ end = "normal" /\ exitcode = 0 =>
    up \cap (IF request.form = "all" THEN kept ELSE Members(request.items))
      \subseteq touched
=============================================================================
