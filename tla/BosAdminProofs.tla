--------------------------- MODULE BosAdminProofs ---------------------------
(***************************************************************************)
(* What holds of a `bos` command for every list, every command line and    *)
(* whatever other administrators do: when stop or shutdown has waited, the *)
(* instances it was for have stopped; a listing misses only what a removal *)
(* has moved, and shows nothing twice; the exit code tells the truth.      *)
(***************************************************************************)
EXTENDS BosAdmin, FiniteSetTheorems, TLAPS

\* An instance that is to run although the command has stopped it has been
\* started by somebody else; and one that runs likewise.
Stopped(e) == e \in goal => e \in touched
Down(e) == e \in goal \cup up => e \in touched

\* The instances the command is for.
Target(e) == IF request.form = "all" THEN e \in kept ELSE e \in Members(request.items)

\* The commands that have -wait.
Stops == request.command \in {"stop", "shutdown"}

\* The main() of such a command is only in these parts.
Parts ==
  /\ request \in Requests
  /\ pc # "ended" => end = ""
  /\ Stops => pc \in {"begin", "item", "all", "wait", "ended"}
  /\ pc \in {"name", "enum"} => request.form = "list"
  /\ pc \in {"item", "status", "strings", "parm"} => request.form \in {"items", "list"}
  /\ pc = "all" => request.form = "all"

\* An error shows in the exit code.
ErrorShows == error_occurred \in BOOLEAN /\ (error_occurred => exitcode = 1)

\* The counter of the loop.
Counting ==
  /\ at \in Nat /\ at >= 1
  /\ DOMAIN request.items = 1 .. Len(request.items) /\ Len(request.items) \in Nat

\* Unless an error has been reported, the instances before the current item have
\* been stopped, and after the loop all have; and they are down when the server
\* says so.
BeforeItem == Stops /\ pc \in {"begin", "item"} /\ exitcode = 0 =>
                \A k \in DOMAIN request.items : k < at => Stopped(request.items[k])
BeforeWait == Stops /\ pc = "wait" /\ exitcode = 0 =>
                \A e : Target(e) => Stopped(e)
AtEnd == request.wait /\ pc = "ended" /\ end = "normal" /\ exitcode = 0 =>
           \A e : Target(e) => Down(e)

\* The inductive invariant: StoppedWhenWaited speaks of the end only.
WInv == Parts /\ ErrorShows /\ Counting /\ BeforeItem /\ BeforeWait /\ AtEnd

-----------------------------------------------------------------------------
(* The loop. *)

\* Counting on to the next item.
LEMMA Onwards ==
  ASSUME NEW n \in Nat, NEW a \in Nat, NEW b, 1 <= a, b = a + 1
  PROVE  /\ b \in Nat /\ b >= 1
         /\ \A k \in 1 .. n : k < b => k < a \/ k = a
  OBVIOUS

\* The last item is the last.
LEMMA Last ==
  ASSUME NEW n \in Nat, NEW a \in Nat, ~(a < n)
  PROVE  \A k \in 1 .. n : k < a \/ k = a
  OBVIOUS

\* There is no item before the first.
LEMMA FirstIsFirst == 1 \in Nat /\ 1 >= 1 /\ \A n \in Nat : \A k \in 1 .. n : ~(k < 1)
  OBVIOUS

\* The commands that wait stop what they are for.
LEMMA WaitStops ==
  ASSUME request \in Requests, Stops
  PROVE  /\ main.op = "stop" /\ request.command # "status" /\ request.form # "list"
         /\ ~main.stops
<1>1. request.form # "list"
  BY BosAssumption DEF Stops
<1>2. main = stop
  BY DEF main, Command, shutdown, Stops
<1> QED
  BY <1>1, <1>2 DEF stop, Plain, Stops

\* After an item or the loop, main() is at an item, waits or has ended.
LEMMA Goes ==
  ASSUME NEW failed, NextItem(failed) \/ AfterLoop(failed)
  PROVE  \/ pc' \in {"item", "wait"} /\ end' = end
         \/ pc' = "ended"
  BY DEF NextItem, AfterLoop, End

\* Nobody changes the command line.
LEMMA SameRequest == [Next]_vars => request' = request
  BY DEF Next, Run, Begin, CellName, Enumerate, Enumerated, Succeed, Fail, All, Wait,
         Display, DisplayGone, NotCarriedOut, AnswerLost, Settle, Rival, vars

\* The parts of main() follow each other as Parts says.
LEMMA PartsKept == Parts /\ [Next]_vars => Parts'
<1> SUFFICES ASSUME Parts, [Next]_vars PROVE Parts'
  OBVIOUS
<1>1. request' = request /\ request \in Requests
  BY SameRequest DEF Parts
<1>2. Stops => request.command # "status" /\ request.form # "list"
  BY <1>1, WaitStops
<1>3. (Stops <=> Stops') /\ (pc # "ended" => end = "")
  BY <1>1 DEF Stops, Parts
<1>4. ASSUME pc' = "ended" PROVE Parts'
  BY <1>1, <1>4 DEF Parts
<1>5. ASSUME pc' = "wait" /\ end' = end /\ pc # "ended" PROVE Parts'
  BY <1>1, <1>3, <1>5 DEF Parts
<1>6. ASSUME pc' = pc /\ end' = end PROVE Parts'
  BY <1>1, <1>3, <1>6 DEF Parts
<1>7. ASSUME (pc' \in {"item", "wait"} /\ end' = end) \/ pc' = "ended", pc = "item" PROVE Parts'
  BY <1>4, <1>5, <1>6, <1>7
<1>8. CASE Begin
  <2>1. \/ pc' = "ended"
        \/ pc = "begin" /\ request.form = "items" /\ pc' = "item" /\ end' = end
        \/ pc = "begin" /\ request.form = "all" /\ pc' = "all" /\ end' = end
        \/ pc = "begin" /\ request.form = "list" /\ pc' \in {"name", "enum"} /\ end' = end
    BY <1>8 DEF Begin, End
  <2> QED
    BY <1>1, <1>2, <1>3, <1>4, <2>1 DEF Parts
<1>9. CASE CellName
  <2>1. pc = "name" /\ pc' = "enum" /\ end' = end
    BY <1>9 DEF CellName
  <2> QED
    BY <1>1, <1>3, <2>1 DEF Parts
<1>10. CASE Enumerate
  BY <1>6, <1>10 DEF Enumerate
<1>11. CASE Enumerated
  <2>1. \/ pc' = "ended"
        \/ pc = "enum" /\ request.command = "status" /\ pc' = "item" /\ end' = end
    BY <1>11 DEF Enumerated, End
  <2>2. pc = "enum" => request.form = "list"
    BY DEF Parts
  <2> QED
    BY <1>1, <1>2, <1>3, <1>4, <2>1, <2>2 DEF Parts
<1>12. CASE Succeed
  <2>1. pc = "item" /\ NextItem(error_occurred)
    BY <1>12 DEF Succeed, CallDue
  <2> QED
    BY <1>7, <2>1, Goes
<1>13. CASE Fail
  <2>1. pc = "item" /\ \E answer : Aborted(answer)
    BY <1>13 DEF Fail, CallDue
  <2>2. pc' = "ended" \/ NextItem(error_occurred')
    BY <2>1 DEF Aborted, End
  <2> QED
    BY <1>4, <1>7, <2>1, <2>2, Goes
<1>14. CASE All
  <2>1. pc = "all" /\ (pc' = "ended" \/ AfterLoop(error_occurred))
    BY <1>14 DEF All, End
  <2>2. (pc' = "wait" /\ end' = end) \/ pc' = "ended"
    BY <2>1 DEF AfterLoop, End
  <2> QED
    BY <1>4, <1>5, <2>1, <2>2
<1>15. CASE Wait
  BY <1>4, <1>15 DEF Wait, End
<1>16. CASE Display
  <2>1. ~Stops
    BY <1>2, <1>16 DEF Display, Displaying, Parts
  <2>2. pc \notin {"ended", "all"} /\ request.form \in {"items", "list"}
    BY <1>16 DEF Display, Displaying, Parts
  <2>3. \/ pc' \in {"status", "strings", "parm"} /\ end' = end
        \/ pc' = pc /\ end' = end
        \/ NextItem(error_occurred)
    BY <1>16 DEF Display
  <2>4. \/ pc' \in {"status", "strings", "parm", "item", "wait"} /\ end' = end
        \/ pc' = pc /\ end' = end
        \/ pc' = "ended"
    BY <2>3, Goes
  <2> QED
    BY <1>1, <1>3, <1>4, <1>6, <2>1, <2>2, <2>4 DEF Parts
<1>17. CASE DisplayGone
  <2>1. ~Stops
    BY <1>2, <1>17 DEF DisplayGone, Displaying, Parts
  <2>2. pc \notin {"ended", "all"} /\ request.form \in {"items", "list"}
    BY <1>17 DEF DisplayGone, Displaying, Parts
  <2>3. pc' = "ended" \/ NextItem(error_occurred')
    BY <1>17 DEF DisplayGone, Aborted, End
  <2>4. (pc' \in {"item", "wait"} /\ end' = end) \/ pc' = "ended"
    BY <2>3, Goes
  <2> QED
    BY <1>1, <1>3, <1>4, <2>1, <2>2, <2>4 DEF Parts
<1>18. CASE NotCarriedOut \/ AnswerLost
  BY <1>4, <1>18 DEF NotCarriedOut, AnswerLost, End
<1>19. CASE Settle \/ Rival \/ UNCHANGED vars
  BY <1>6, <1>19 DEF Settle, Rival, control, vars
<1> QED
  BY <1>8, <1>9, <1>10, <1>11, <1>12, <1>13, <1>14, <1>15, <1>16, <1>17, <1>18, <1>19 DEF Next, Run

\* An error that is noted is reported too.
LEMMA ErrorShowsKept == ErrorShows /\ [Next]_vars => ErrorShows'
<1> SUFFICES ASSUME ErrorShows, [Next]_vars PROVE ErrorShows'
  OBVIOUS
<1>1. \/ error_occurred' = error_occurred /\ exitcode' = exitcode
      \/ \E answer : Aborted(answer)
  BY DEF Next, Run, Begin, CellName, Enumerate, Enumerated, Succeed, Fail, All, Wait,
         Display, DisplayGone, NotCarriedOut, AnswerLost, Settle, Rival, control, vars
<1>2. CASE \E answer : Aborted(answer)
  <2>1. \/ error_occurred' = error_occurred /\ exitcode' = exitcode
        \/ /\ error_occurred' = (request.command \in {"stop", "shutdown"} \/ error_occurred)
           /\ exitcode' = 1
    BY <1>2, Zenon DEF Aborted, Error
  <2>2. error_occurred' \in BOOLEAN
    BY <2>1 DEF ErrorShows
  <2> QED
    BY <2>1, <2>2 DEF ErrorShows
<1> QED
  BY <1>1, <1>2 DEF ErrorShows

\* The loop counts.
LEMMA CountingKept == Counting /\ [Next]_vars => Counting'
<1> SUFFICES ASSUME Counting, [Next]_vars PROVE Counting'
  OBVIOUS
<1>1. request' = request
  BY SameRequest
<1>2. at' = at \/ at' = at + 1
  <2>1. CASE \E failed : NextItem(failed)
    BY <2>1 DEF NextItem
  <2>2. CASE at' = at
    BY <2>2
  <2>3. (\E failed : NextItem(failed)) \/ at' = at
    BY DEF Next, Run, Begin, CellName, Enumerate, Enumerated, Succeed, Fail, Aborted, All, Wait,
           Display, DisplayGone, NotCarriedOut, AnswerLost, Settle, Rival, control, vars
  <2> QED
    BY <2>1, <2>2, <2>3
<1>3. at' \in Nat /\ at' >= 1
  BY <1>2 DEF Counting
<1> QED
  BY <1>1, <1>3 DEF Counting

-----------------------------------------------------------------------------
(* What has been stopped stays stopped. *)

\* A step that starts only what others have started.
LEMMA StaysStopped ==
  ASSUME BeforeItem, BeforeWait, AtEnd,
         UNCHANGED <<request, pc, at, end, exitcode>>, kept' \subseteq kept,
         touched \subseteq touched', goal' \subseteq goal \cup touched',
         pc = "ended" => up' \subseteq up \cup goal'
  PROVE  BeforeItem' /\ BeforeWait' /\ AtEnd'
<1>1. \A e : Stopped(e) => Stopped(e)'
  BY DEF Stopped
<1>2. \A e : Target(e)' => Target(e)
  BY DEF Target, Members
<1>3. pc = "ended" => \A e : Down(e) => Down(e)'
  BY DEF Down
<1>4. Stops' <=> Stops
  BY DEF Stops
<1>5. BeforeItem'
  BY <1>1, <1>4 DEF BeforeItem
<1>6. BeforeWait'
  BY <1>1, <1>2, <1>4 DEF BeforeWait
<1>7. AtEnd'
  BY <1>2, <1>3 DEF AtEnd
<1> QED
  BY <1>5, <1>6, <1>7

\* A step after which main() has failed.
LEMMA Failed ==
  ASSUME exitcode' = 1 \/ (pc' = "ended" /\ end' # "normal")
  PROVE  BeforeItem' /\ BeforeWait' /\ AtEnd'
  BY DEF BeforeItem, BeforeWait, AtEnd

\* Stopping an item, and going on.
LEMMA SucceedKeeps ==
  ASSUME Parts, ErrorShows, Counting, BeforeItem, Stops, Succeed
  PROVE  BeforeItem' /\ BeforeWait' /\ AtEnd'
<1>1. /\ request \in Requests /\ request' = request /\ exitcode' = exitcode
      /\ touched' = touched /\ pc = "item" /\ NextItem(error_occurred)
  BY DEF Succeed, CallDue, Watch, Parts
<1>2. /\ main.op = "stop" /\ request.form = "items"
  BY <1>1, WaitStops DEF Parts
<1>3. goal' = goal \ {request.items[at]}
  <2>1. Served(item, "ok") /\ item = request.items[at]
    BY <1>2 DEF Succeed, item, items, Stops, OfHosts
  <2>2. BOZO_Control(item, "ok")
    BY <1>2, <2>1 DEF Served
  <2> QED
    BY <1>2, <2>1, <2>2 DEF BOZO_Control
<1>4. \A e : Stopped(e) \/ e = request.items[at] => Stopped(e)'
  BY <1>1, <1>3 DEF Stopped
<1>5. PICK n \in Nat : n = Len(request.items) /\ DOMAIN request.items = 1 .. n
  BY DEF Counting
<1>6. exitcode = 0 => \A k \in 1 .. n : k < at \/ k = at => Stopped(request.items[k])'
  <2> SUFFICES ASSUME exitcode = 0, NEW k \in 1 .. n, k < at \/ k = at
               PROVE  Stopped(request.items[k])'
    OBVIOUS
  <2>1. CASE k < at
    <3>1. Stopped(request.items[k])
      BY <1>1, <1>5, <2>1 DEF BeforeItem
    <3> QED
      BY <1>1, <1>4, <3>1
  <2>2. CASE k = at
    BY <1>1, <1>4, <2>2
  <2> QED
    BY <2>1, <2>2
<1>7. at \in Nat /\ 1 <= at
  BY Zenon DEF Counting
<1>8. Stops' <=> Stops
  BY <1>1 DEF Stops
<1>9. CASE at < n
  <2>1. at' = at + 1 /\ pc' = "item"
    BY <1>2, <1>5, <1>9 DEF NextItem, items, Succeed, Stops, OfHosts
  <2>2. \A k \in 1 .. n : k < at' => k < at \/ k = at
    BY <1>5, <1>7, <2>1, Onwards, Zenon
  <2>3. BeforeItem'
    BY <1>1, <1>5, <1>6, <2>2, Zenon DEF BeforeItem
  <2> QED
    BY <2>1, <2>3 DEF BeforeWait, AtEnd
<1>10. CASE ~(at < n)
  <2>1. AfterLoop(error_occurred)
    BY <1>1, <1>2, <1>5, <1>10 DEF NextItem, items, Stops, OfHosts
  <2>2. exitcode = 0 => ~error_occurred
    BY DEF ErrorShows
  <2>3. pc' \in {"wait", "ended"} /\ (exitcode = 0 /\ request.wait => pc' = "wait")
    BY <2>1, <2>2 DEF AfterLoop, End
  <2>4. exitcode = 0 => \A k \in 1 .. n : Stopped(request.items[k])'
    BY <1>5, <1>6, <1>7, <1>10, Last, Zenon
  <2>5. exitcode = 0 => \A e : Target(e)' => Stopped(e)'
    BY <1>1, <1>2, <1>5, <2>4 DEF Target, Members
  <2>6. BeforeItem' /\ BeforeWait'
    BY <1>1, <2>3, <2>5 DEF BeforeItem, BeforeWait
  <2>7. AtEnd'
    BY <1>1, <2>3 DEF AtEnd
  <2> QED
    BY <2>6, <2>7
<1> QED
  BY <1>9, <1>10

\* Stopping all, and going on.
LEMMA AllKeeps ==
  ASSUME Parts, ErrorShows, Stops, All
  PROVE  BeforeItem' /\ BeforeWait' /\ AtEnd'
<1>1. /\ request \in Requests /\ request' = request /\ exitcode' = exitcode
  BY DEF All, Parts
<1>2. main.op = "stop"
  BY <1>1, WaitStops
<1>3. CASE End("Abort")
  BY <1>3, Failed DEF End
<1>4. CASE ServedAll /\ AfterLoop(error_occurred)
  <2>1. goal' = {}
    BY <1>2, <1>4 DEF ServedAll
  <2>2. exitcode = 0 => ~error_occurred
    BY DEF ErrorShows
  <2>3. pc' \in {"wait", "ended"} /\ (exitcode = 0 /\ request.wait => pc' = "wait")
    BY <1>4, <2>2 DEF AfterLoop, End
  <2>4. \A e : Stopped(e)'
    BY <2>1 DEF Stopped
  <2>5. BeforeItem' /\ BeforeWait'
    BY <2>3, <2>4 DEF BeforeItem, BeforeWait
  <2>6. AtEnd'
    BY <1>1, <2>3 DEF AtEnd
  <2> QED
    BY <2>5, <2>6
<1> QED
  BY <1>3, <1>4 DEF All

\* The server has told that all processes are as they are to be.
LEMMA WaitKeeps ==
  ASSUME BeforeWait, request.wait => Stops, Wait
  PROVE  BeforeItem' /\ BeforeWait' /\ AtEnd'
<1>1. /\ pc = "wait" /\ pc' = "ended" /\ up = goal
      /\ UNCHANGED <<request, exitcode, goal, up, touched, kept>>
  BY DEF Wait, End, server, watched
<1>2. \A e : (Target(e)' => Target(e)) /\ (Stopped(e) => Down(e)')
  BY <1>1 DEF Target, Members, Stopped, Down
<1>3. AtEnd'
  BY <1>1, <1>2 DEF AtEnd, BeforeWait
<1> QED
  BY <1>1, <1>3 DEF BeforeItem, BeforeWait

\* Every step keeps the invariant.
LEMMA WInvKept == WInv /\ [Next]_vars => WInv'
<1> SUFFICES ASSUME WInv, [Next]_vars PROVE WInv'
  OBVIOUS
<1> USE DEF WInv
<1>1. Parts' /\ ErrorShows' /\ Counting' /\ request' = request /\ request \in Requests
  BY PartsKept, ErrorShowsKept, CountingKept, SameRequest DEF Parts
<1>2. /\ request.wait => Stops
      /\ Stops => request.command # "status" /\ request.form # "list"
  BY <1>1, WaitStops, BosAssumption DEF Stops
<1>3. (Stops' <=> Stops) /\ (~Stops => ~request.wait)
  BY <1>1, <1>2 DEF Stops
<1>4. CASE ~Stops
  BY <1>1, <1>3, <1>4 DEF BeforeItem, BeforeWait, AtEnd
<1>5. CASE Stops
  <2>1. pc \in {"begin", "item", "all", "wait", "ended"}
    BY <1>5 DEF Parts
  <2>2. CASE Begin
    <3>1. \/ pc' = "ended" /\ end' # "normal"
          \/ /\ pc = "begin" /\ pc' \in {"item", "all"}
             /\ UNCHANGED <<goal, touched, at, exitcode>>
      BY <1>2, <1>5, <2>2 DEF Begin, End, server, watched
    <3>2. CASE pc = "begin" /\ pc' \in {"item", "all"} /\ UNCHANGED <<goal, touched, at, exitcode>>
      <4>1. \A e : Stopped(e) => Stopped(e)'
        BY <3>2 DEF Stopped
      <4> QED
        BY <1>1, <1>3, <3>2, <4>1 DEF BeforeItem, BeforeWait, AtEnd
    <3> QED
      BY <1>1, <3>1, <3>2, Failed
  <2>3. CASE CellName \/ Enumerate \/ Enumerated \/ Display \/ DisplayGone
    BY <1>2, <1>5, <2>1, <2>3 DEF CellName, Enumerate, Enumerated, Display, DisplayGone, Displaying
  <2>4. CASE Succeed
    BY <1>1, <1>5, <2>4, SucceedKeeps
  <2>5. CASE Fail
    <3>1. \E answer : Aborted(answer)
      BY <2>5 DEF Fail
    <3>2. exitcode' = 1 \/ (pc' = "ended" /\ end' # "normal")
      BY <3>1 DEF Aborted, Error, End
    <3> QED
      BY <1>1, <3>2, Failed
  <2>6. CASE All
    BY <1>1, <1>5, <2>6, AllKeeps
  <2>7. CASE Wait
    BY <1>1, <1>2, <2>7, WaitKeeps
  <2>8. CASE NotCarriedOut \/ AnswerLost
    <3>1. pc' = "ended" /\ end' # "normal"
      BY <2>8 DEF NotCarriedOut, AnswerLost, End
    <3> QED
      BY <1>1, <3>1, Failed
  <2>9. CASE Settle
    <3>1. UNCHANGED <<pc, at, end, exitcode, kept, touched, goal>> /\ up' \subseteq up \cup goal
      BY <2>9 DEF Settle, control, watched
    <3> QED
      BY <1>1, <3>1, StaysStopped
  <2>10. CASE Rival
    <3>1. /\ UNCHANGED <<pc, at, end, exitcode>> /\ pc # "ended" /\ kept' \subseteq kept
          /\ touched \subseteq touched' /\ goal' \subseteq goal \cup touched'
      BY <2>10 DEF Rival, control
    <3> QED
      BY <1>1, <3>1, StaysStopped
  <2>11. CASE UNCHANGED vars
    <3>1. UNCHANGED <<pc, at, end, exitcode, kept, touched, goal, up>>
      BY <2>11 DEF vars, control, server, watched
    <3> QED
      BY <1>1, <3>1, StaysStopped
  <2> QED
    BY <2>2, <2>3, <2>4, <2>5, <2>6, <2>7, <2>8, <2>9, <2>10, <2>11 DEF Next, Run
<1> QED
  BY <1>4, <1>5

\* If stop or shutdown waited and says that all went well, none of the instances
\* it was for runs, but for those that others have started: for any command line
\* and any number of other administrators.
THEOREM WaitingIsEnough == Spec => []StoppedWhenWaited
<1>1. Init => WInv
  <2> SUFFICES ASSUME Init PROVE WInv
    OBVIOUS
  <2>1. /\ request \in Requests /\ at = 1 /\ pc = "begin" /\ exitcode = 0 /\ end = ""
        /\ error_occurred = FALSE
    BY DEF Init
  <2>2. Parts /\ ErrorShows
    BY <2>1 DEF Parts, ErrorShows
  <2>3. DOMAIN request.items = 1 .. Len(request.items) /\ Len(request.items) \in Nat
    <3>1. request.items \in Seq(Entries)
      BY <2>1, BosAssumption DEF Request
    <3> QED
      BY <3>1
  <2>4. Counting /\ \A k \in DOMAIN request.items : ~(k < at)
    BY <2>1, <2>3, FirstIsFirst, Zenon DEF Counting
  <2>5. BeforeItem /\ BeforeWait /\ AtEnd
    BY <2>1, <2>4 DEF BeforeItem, BeforeWait, AtEnd
  <2> QED
    BY <2>2, <2>4, <2>5 DEF WInv
<1>2. WInv => StoppedWhenWaited
  <2> SUFFICES ASSUME WInv, pc = "ended", request.wait, end = "normal", exitcode = 0,
                      NEW e \in up,
                      e \in IF request.form = "all" THEN kept ELSE Members(request.items)
               PROVE  e \in touched
    BY DEF StoppedWhenWaited
  <2>1. Target(e)
    BY DEF Target
  <2> QED
    BY <2>1 DEF WInv, AtEnd, Down
<1> QED
  BY <1>1, <1>2, WInvKept, PTL DEF Spec

-----------------------------------------------------------------------------
(* The list, and what an enumeration by index makes of it.                 *)

\* The list has no entry twice.
OnceEach(s) == \A i, j \in DOMAIN s : s[i] = s[j] => i = j

\* main() has not come to the items, and is at one of them.
Reading == pc \in {"begin", "name", "enum"}
InLoop == pc \in {"item", "status", "strings", "parm"}

\* The list is one, it has what was there all the time, and what is there or has
\* been found was there at some time; and main() is at an item.
Base ==
  /\ list \in Seq(Entries) /\ OnceEach(list)
  /\ kept \subseteq Members(list) /\ Members(list) \subseteq seen
  /\ found \in Seq(Entries) /\ Members(found) \subseteq seen
  /\ request.items \in Seq(Entries)
  /\ request.form # "list" => found = <<>>
  /\ removals \in Nat
  /\ Reading => at = 1
  /\ InLoop => at \in DOMAIN items

\* A sequence of entries.
LEMMA SeqIs ==
  ASSUME NEW S, NEW s \in Seq(S)
  PROVE  /\ Len(s) \in Nat /\ DOMAIN s = 1 .. Len(s)
         /\ \A k \in DOMAIN s : s[k] \in S
  OBVIOUS

\* The empty sequence.
LEMMA EmptyIn ==
  ASSUME NEW S
  PROVE  <<>> \in Seq(S) /\ DOMAIN <<>> = {} /\ Len(<<>>) = 0
  OBVIOUS

\* Taking an entry out moves those behind it one forward.
LEMMA TakeOutShifts ==
  ASSUME list \in Seq(Entries), OnceEach(list), NEW e, TakeOut(e)
  PROVE  /\ list' \in Seq(Entries) /\ OnceEach(list')
         /\ Members(list') = Members(list) \ {e} /\ e \in Members(list)
         /\ \A k \in DOMAIN list' :
              \/ k \in DOMAIN list /\ list'[k] = list[k]
              \/ k + 1 \in DOMAIN list /\ list'[k] = list[k + 1]
         /\ \A j \in DOMAIN list : list[j] # e =>
              \E k \in DOMAIN list' : k <= j /\ list'[k] = list[j]
<1>1. PICK i \in DOMAIN list :
        /\ list[i] = e
        /\ list' = [k \in 1 .. Len(list) - 1 |-> IF k < i THEN list[k] ELSE list[k + 1]]
  BY DEF TakeOut
<1>2. PICK n \in Nat : n = Len(list) /\ DOMAIN list = 1 .. n
  BY SeqIs
<1>3. i \in 1 .. n /\ n - 1 \in Nat /\ \A k \in 1 .. n : list[k] \in Entries
  BY <1>1, <1>2, SeqIs
<1>4. DOMAIN list' = 1 .. n - 1
      /\ \A k \in 1 .. n - 1 : list'[k] = IF k < i THEN list[k] ELSE list[k + 1]
  BY <1>1, <1>2
<1>5. \A k \in 1 .. n - 1 : list'[k] \in Entries
  BY <1>3, <1>4
<1>6. list' \in Seq(Entries)
  <2>1. list' \in [1 .. n - 1 -> Entries]
    BY <1>1, <1>2, <1>3
  <2> QED
    BY <1>3, <2>1
<1>7. \A j, k \in 1 .. n : list[j] = list[k] => j = k
  BY <1>2 DEF OnceEach
<1>8. \A j, k \in 1 .. n - 1 : list'[j] = list'[k] => j = k
  <2> SUFFICES ASSUME NEW j \in 1 .. n - 1, NEW k \in 1 .. n - 1, list'[j] = list'[k]
               PROVE  j = k
    OBVIOUS
  <2> DEFINE J == IF j < i THEN j ELSE j + 1
  <2> DEFINE K == IF k < i THEN k ELSE k + 1
  <2>1. J \in 1 .. n /\ K \in 1 .. n /\ list[J] = list[K]
    BY <1>3, <1>4
  <2>2. J = K
    BY <1>7, <2>1
  <2> QED
    BY <1>3, <2>2
<1>9. OnceEach(list')
  BY <1>4, <1>8 DEF OnceEach
<1>10. \A k \in DOMAIN list' :
         \/ k \in DOMAIN list /\ list'[k] = list[k] /\ k # i
         \/ k + 1 \in DOMAIN list /\ list'[k] = list[k + 1] /\ k + 1 # i
  BY <1>2, <1>3, <1>4
<1>11. \A j \in DOMAIN list : list[j] # e =>
         \E k \in DOMAIN list' : k <= j /\ list'[k] = list[j]
  <2> SUFFICES ASSUME NEW j \in DOMAIN list, list[j] # e
               PROVE  \E k \in DOMAIN list' : k <= j /\ list'[k] = list[j]
    OBVIOUS
  <2>1. j # i /\ j \in 1 .. n
    BY <1>1, <1>2
  <2>2. CASE j < i
    <3>1. j \in 1 .. n - 1
      BY <1>3, <2>1, <2>2
    <3> QED
      BY <1>3, <1>4, <2>2, <3>1
  <2>3. CASE i < j
    <3>1. j - 1 \in 1 .. n - 1 /\ ~(j - 1 < i) /\ (j - 1) + 1 = j /\ j - 1 <= j
      BY <1>3, <2>1, <2>3
    <3>2. list'[j - 1] = list[j]
      BY <1>4, <3>1
    <3> QED
      BY <1>4, <3>1, <3>2
  <2> QED
    BY <1>3, <2>1, <2>2, <2>3
<1>12. \A x \in Members(list') : x \in Members(list) /\ x # e
  BY <1>1, <1>2, <1>7, <1>10 DEF Members
<1>13. \A x \in Members(list) \ {e} : x \in Members(list')
  BY <1>11 DEF Members
<1>14. e \in Members(list)
  BY <1>1 DEF Members
<1> QED
  BY <1>6, <1>9, <1>10, <1>11, <1>12, <1>13, <1>14

\* Putting an entry in moves none.
LEMMA PutAppends ==
  ASSUME list \in Seq(Entries), OnceEach(list), NEW e \in Entries, Put(e)
  PROVE  /\ list' \in Seq(Entries) /\ OnceEach(list')
         /\ Members(list') = Members(list) \cup {e}
         /\ \A k \in DOMAIN list : k \in DOMAIN list' /\ list'[k] = list[k]
         /\ \A k \in DOMAIN list' : k \in DOMAIN list \/ list'[k] = e
<1>1. CASE e \in Members(list)
  BY <1>1 DEF Put
<1>2. CASE e \notin Members(list)
  <2>1. list' = Append(list, e)
    BY <1>2 DEF Put
  <2>2. PICK n \in Nat : n = Len(list) /\ DOMAIN list = 1 .. n
    BY SeqIs
  <2>3. list' \in Seq(Entries) /\ DOMAIN list' = 1 .. n + 1 /\ list'[n + 1] = e
        /\ \A k \in 1 .. n : list'[k] = list[k]
    BY <2>1, <2>2
  <2>4. \A k \in 1 .. n + 1 : k \in 1 .. n \/ k = n + 1
    BY <2>2
  <2>5. \A k \in 1 .. n : k \in 1 .. n + 1 /\ list[k] # e
    BY <1>2, <2>2 DEF Members
  <2>6. n + 1 \in 1 .. n + 1
    BY <2>2
  <2>7. OnceEach(list')
    BY <2>2, <2>3, <2>4, <2>5 DEF OnceEach
  <2>8. Members(list') = Members(list) \cup {e}
    BY <2>2, <2>3, <2>4, <2>5, <2>6 DEF Members
  <2> QED
    BY <2>2, <2>3, <2>4, <2>5, <2>7, <2>8
<1> QED
  BY <1>1, <1>2

\* What a sequence has is finite.
LEMMA MembersFinite ==
  ASSUME NEW S, NEW s \in Seq(S)
  PROVE  IsFiniteSet(Members(s))
<1>1. PICK n \in Nat : n = Len(s) /\ DOMAIN s = 1 .. n
  BY SeqIs
<1>2. s \in Surjection(1 .. n, Members(s))
  <2>1. s = [k \in 1 .. n |-> s[k]] /\ \A k \in 1 .. n : s[k] \in Members(s)
    BY <1>1 DEF Members
  <2>2. s \in [1 .. n -> Members(s)]
    BY <2>1
  <2>3. \A t \in Members(s) : \E k \in 1 .. n : s[k] = t
    BY <1>1 DEF Members
  <2> QED
    BY <2>2, <2>3 DEF Surjection
<1>3. IsFiniteSet(1 .. n)
  BY FS_Interval
<1> QED
  BY <1>2, <1>3, FS_Surjection

\* What a call makes of the list; the commands that read a list change nothing.
LEMMA ServedList ==
  ASSUME NEW e, NEW answer, Served(e, answer), request \in Requests
  PROVE  /\ list' = list \/ (answer = "ok" /\ (Put(e) \/ TakeOut(e)))
         /\ request.form = "list" => list' = list
<1>1. list' = list \/ (answer = "ok" /\ (Put(e) \/ TakeOut(e)))
  BY DEF Served, BOZO_Add, BOZO_Delete, BOZO_Control, server
<1>2. ASSUME request.form = "list" PROVE list' = list
  <2>1. request.command \in {"listhosts", "listkeys", "listusers", "status"}
    BY <1>2, BosAssumption
  <2>2. main.op = "list"
    <3>1. main \in {listhosts, listkeys, listusers, status}
      BY <2>1 DEF main, Command
    <3> QED
      BY <3>1 DEF listhosts, listkeys, listusers, status, Plain
  <2> QED
    BY <2>2 DEF Served, server
<1> QED
  BY <1>1, <1>2

\* A step that leaves the list one, and notes what is in it.
LEMMA ListNoted ==
  ASSUME Base, list' \in Seq(Entries), OnceEach(list'),
         UNCHANGED <<request, found>>,
         kept' = kept \cap Members(list'), seen' = seen \cup Members(list'),
         removals' \in Nat
  PROVE  /\ list' \in Seq(Entries) /\ OnceEach(list')
         /\ kept' \subseteq Members(list') /\ Members(list') \subseteq seen'
         /\ found' \in Seq(Entries) /\ Members(found') \subseteq seen'
         /\ request'.items \in Seq(Entries)
         /\ request'.form # "list" => found' = <<>>
         /\ removals' \in Nat
  BY DEF Base, Members

\* A step that has nothing to do with the list.
LEMMA ListAside ==
  ASSUME Base, UNCHANGED <<list, request, found, kept, seen, removals>>
  PROVE  /\ list' \in Seq(Entries) /\ OnceEach(list')
         /\ kept' \subseteq Members(list') /\ Members(list') \subseteq seen'
         /\ found' \in Seq(Entries) /\ Members(found') \subseteq seen'
         /\ request'.items \in Seq(Entries)
         /\ request'.form # "list" => found' = <<>>
         /\ removals' \in Nat
  BY DEF Base, Members

\* The list after a change.
LEMMA ListChanged ==
  ASSUME Base, NEW e \in Entries, list' = list \/ Put(e) \/ TakeOut(e)
  PROVE  list' \in Seq(Entries) /\ OnceEach(list')
<1>1. list \in Seq(Entries) /\ OnceEach(list)
  BY DEF Base
<1>2. CASE list' = list
  BY <1>1, <1>2
<1>3. CASE Put(e)
  BY <1>1, <1>3, PutAppends
<1>4. CASE TakeOut(e)
  BY <1>1, <1>4, TakeOutShifts
<1> QED
  BY <1>2, <1>3, <1>4

\* The hosts of a command line are as many as its words.
LEMMA VlserversAre ==
  ASSUME NEW S, NEW words \in Seq(S)
  PROVE  /\ get_vlservers(words) \in Seq(S)
         /\ DOMAIN get_vlservers(words) = DOMAIN words
<1>1. CASE words = <<>>
  <2>1. get_vlservers(words) = <<>>
    BY <1>1 DEF get_vlservers
  <2> QED
    BY <1>1, <2>1
<1>2. CASE words # <<>>
  <2>1. words[1] \in S /\ Len(words) \in Nat /\ DOMAIN words = 1 .. Len(words)
    BY <1>2
  <2>2. get_vlservers(words) \in [1 .. Len(words) -> S]
    BY <2>1 DEF get_vlservers
  <2> QED
    BY <2>1, <2>2
<1> QED
  BY <1>1, <1>2

\* The items, and the one main() is at.
LEMMA ItemsAre ==
  ASSUME Base
  PROVE  /\ items \in Seq(Entries)
         /\ Len(items) \in Nat /\ DOMAIN items = 1 .. Len(items)
         /\ InLoop => item \in Entries
<1>1. items \in Seq(Entries)
  BY VlserversAre DEF Base, items
<1>2. Len(items) \in Nat /\ DOMAIN items = 1 .. Len(items)
      /\ \A k \in DOMAIN items : items[k] \in Entries
  BY <1>1, SeqIs
<1> QED
  BY <1>1, <1>2 DEF Base, item

\* After an item or the loop, main() is at an item or beyond them.
LEMMA GoesToItem ==
  ASSUME Base, NEW failed, NextItem(failed) \/ AfterLoop(failed), InLoop
  PROVE  /\ pc' \notin {"begin", "name", "enum"}
         /\ (AfterLoop(failed) \/ at' \in DOMAIN items)
         /\ AfterLoop(failed) => pc' \in {"wait", "ended"}
<1>1. PICK n \in Nat : n = Len(items) /\ DOMAIN items = 1 .. n
  BY ItemsAre
<1>2. at \in 1 .. n
  BY <1>1 DEF Base
<1>3. at < n => at + 1 \in 1 .. n
  BY <1>2
<1> QED
  BY <1>1, <1>2, <1>3 DEF NextItem, AfterLoop, End

\* Every step keeps that.
LEMMA BaseKept == Parts /\ Base /\ [Next]_vars => Base'
<1> SUFFICES ASSUME Parts, Base, [Next]_vars PROVE Base'
  OBVIOUS
<1>1. request' = request /\ request \in Requests /\ (pc # "ended" => end = "")
  BY SameRequest DEF Parts
<1>2. request.items \in Seq(Entries)
  BY DEF Base
<1> DEFINE ListPart ==
  /\ list' \in Seq(Entries) /\ OnceEach(list')
  /\ kept' \subseteq Members(list') /\ Members(list') \subseteq seen'
  /\ found' \in Seq(Entries) /\ Members(found') \subseteq seen'
  /\ request'.items \in Seq(Entries)
  /\ request'.form # "list" => found' = <<>>
  /\ removals' \in Nat
<1> DEFINE AtPart ==
  /\ pc' \in {"begin", "name", "enum"} => at' = 1
  /\ pc' \in {"item", "status", "strings", "parm"} => at' \in DOMAIN items'
<1>3. ASSUME ListPart, AtPart PROVE Base'
  BY <1>3 DEF Base, Reading, InLoop
<1> HIDE DEF ListPart, AtPart
<1>4. ASSUME found' = found PROVE items' = items
  BY <1>1, <1>4 DEF items
<1>5. ASSUME UNCHANGED <<pc, at, found>> PROVE AtPart
  BY <1>4, <1>5 DEF AtPart, Base, Reading, InLoop
<1>6. ASSUME pc' \in {"all", "wait", "ended"} PROVE AtPart
  BY <1>6 DEF AtPart
<1>7. ASSUME NEW failed, NextItem(failed) \/ AfterLoop(failed), InLoop, found' = found PROVE AtPart
  <2>1. items' = items
    BY <1>4, <1>7
  <2>2. /\ pc' \notin {"begin", "name", "enum"}
        /\ (pc' \in {"wait", "ended"} \/ at' \in DOMAIN items)
    BY <1>7, GoesToItem
  <2> QED
    BY <2>1, <2>2 DEF AtPart
<1>8. ASSUME UNCHANGED <<list, request, found, kept, seen, removals>> PROVE ListPart
  BY <1>8, ListAside DEF ListPart
<1>9. ASSUME list' \in Seq(Entries), OnceEach(list'), UNCHANGED <<request, found>>,
             kept' = kept \cap Members(list'), seen' = seen \cup Members(list'),
             removals' \in Nat
      PROVE  ListPart
  BY <1>9, ListNoted DEF ListPart
<1>10. list \in Seq(Entries) /\ OnceEach(list) /\ removals \in Nat
  BY DEF Base
<1>11. CASE Begin
  <2>1. ListPart
    BY <1>8, <1>11 DEF Begin, server, watched
  <2>2. pc = "begin" /\ at' = at /\ found' = found /\ at = 1
    BY <1>11 DEF Begin, Base, Reading
  <2>3. \/ pc' = "ended"
        \/ request.form = "items" /\ pc' = "item"
        \/ pc' \in {"all", "name", "enum"}
    BY <1>11 DEF Begin, End
  <2>4. ASSUME request.form = "items", pc' = "item" PROVE AtPart
    <3>1. request.items # <<>>
      BY <1>1, <2>4, BosAssumption
    <3>2. 1 \in DOMAIN request.items
      BY <1>2, <3>1
    <3>3. DOMAIN items' = DOMAIN request.items
      BY <1>1, <1>2, <2>4, VlserversAre DEF items
    <3> QED
      <4>1. at' \in DOMAIN items' /\ pc' = "item"
        BY <2>2, <2>4, <3>2, <3>3
      <4> QED
        BY <4>1 DEF AtPart
  <2>5. ASSUME pc' \in {"all", "name", "enum", "ended"} PROVE AtPart
    <3>1. at' = 1
      BY <2>2
    <3> QED
      BY <2>5, <3>1 DEF AtPart
  <2> QED
    BY <1>3, <2>1, <2>3, <2>4, <2>5
<1>12. CASE CellName
  <2>1. ListPart
    BY <1>8, <1>12 DEF CellName, server, watched
  <2>2. pc' = "enum" /\ at' = at /\ at = 1
    BY <1>12 DEF CellName, Base, Reading
  <2> QED
    BY <1>3, <2>1, <2>2 DEF AtPart
<1>13. CASE Enumerate
  <2>1. /\ pc = "enum" /\ pc' = pc /\ at' = at /\ Len(found) < Len(list)
        /\ found' = Append(found, list[Len(found) + 1])
        /\ UNCHANGED <<list, request, kept, seen, removals>>
    BY <1>13 DEF Enumerate, Index, server, watched
  <2>2. at = 1 /\ request.form = "list" /\ found \in Seq(Entries)
    BY <2>1 DEF Base, Reading, Parts
  <2>3. list[Len(found) + 1] \in Entries /\ list[Len(found) + 1] \in Members(list)
    <3>1. Len(found) + 1 \in 1 .. Len(list)
      BY <1>10, <2>1, <2>2
    <3> QED
      BY <1>10, <3>1 DEF Members
  <2>4. /\ found' \in Seq(Entries)
        /\ \A k \in DOMAIN found' : found'[k] = list[Len(found) + 1]
                                    \/ (k \in DOMAIN found /\ found'[k] = found[k])
    BY <2>1, <2>2, <2>3
  <2>5. Members(found') \subseteq Members(found) \cup {list[Len(found) + 1]}
    BY <2>4 DEF Members
  <2>6. Members(found') \subseteq seen'
    BY <2>1, <2>3, <2>5 DEF Base
  <2>7. ListPart
    <3>1. /\ list' = list /\ kept' = kept /\ seen' = seen /\ removals' = removals
          /\ request'.items = request.items /\ request'.form = "list"
      BY <1>1, <2>1, <2>2
    <3>2. kept \subseteq Members(list) /\ Members(list) \subseteq seen
      BY Zenon DEF Base
    <3>3. Members(list') = Members(list) /\ OnceEach(list')
      BY <1>10, <3>1 DEF Members, OnceEach
    <3> QED
      BY <1>2, <1>10, <2>4, <2>6, <3>1, <3>2, <3>3 DEF ListPart
  <2> QED
    BY <1>3, <2>1, <2>2, <2>7 DEF AtPart
<1>14. CASE Enumerated
  <2>1. ListPart
    BY <1>8, <1>14 DEF Enumerated, server, watched
  <2>2. pc = "enum" /\ at' = at /\ at = 1 /\ found' = found /\ request.form = "list"
    BY <1>14 DEF Enumerated, Base, Reading, Parts
  <2>3. (found # <<>> /\ pc' = "item") \/ pc' = "ended"
    BY <1>14 DEF Enumerated, End
  <2>4. found # <<>> => 1 \in DOMAIN found
    <3>1. found \in Seq(Entries)
      BY DEF Base
    <3> QED
      BY <3>1
  <2>5. items' = found
    BY <1>1, <2>2 DEF items
  <2> QED
    BY <1>3, <2>1, <2>2, <2>3, <2>4, <2>5 DEF AtPart
<1>15. CASE Succeed
  <2>1. /\ InLoop /\ Served(item, "ok") /\ NextItem(error_occurred) /\ found' = found
        /\ kept' = kept \cap Members(list') /\ seen' = seen \cup Members(list')
        /\ removals' = removals
    BY <1>15 DEF Succeed, CallDue, InLoop, Watch
  <2>2. list' \in Seq(Entries) /\ OnceEach(list')
    BY <1>1, <2>1, ItemsAre, ServedList, ListChanged
  <2>3. ListPart
    BY <1>1, <1>9, <1>10, <2>1, <2>2
  <2> QED
    BY <1>3, <1>7, <2>1, <2>3
<1>16. CASE Fail
  <2>1. PICK answer \in Aborts : Served(item, answer) /\ Aborted(answer)
    BY <1>16 DEF Fail
  <2>2. InLoop /\ found' = found /\ UNCHANGED <<kept, seen, removals>>
    BY <1>16 DEF Fail, CallDue, InLoop, watched
  <2>3. list' = list
    BY <1>1, <2>1, ServedList DEF Aborts
  <2>4. pc' = "ended" \/ NextItem(error_occurred')
    BY <2>1 DEF Aborted, End
  <2> QED
    BY <1>1, <1>3, <1>6, <1>7, <1>8, <2>2, <2>3, <2>4
<1>17. CASE All
  <2>1. UNCHANGED <<list, found, kept, seen, removals>>
    BY <1>17 DEF All, ServedAll, server, watched
  <2>2. pc' \in {"wait", "ended"}
    BY <1>17 DEF All, AfterLoop, End
  <2> QED
    BY <1>1, <1>3, <1>6, <1>8, <2>1, <2>2
<1>18. CASE Wait \/ NotCarriedOut
  <2>1. UNCHANGED <<list, found, kept, seen, removals>> /\ pc' = "ended"
    BY <1>18 DEF Wait, NotCarriedOut, End, server, watched
  <2> QED
    BY <1>1, <1>3, <1>6, <1>8, <2>1
<1>19. CASE Display
  <2>1. InLoop /\ UNCHANGED <<list, found, kept, seen, removals>>
    BY <1>19 DEF Display, Displaying, InLoop, server, watched
  <2>2. \/ pc' \in {"status", "strings", "parm"} /\ at' = at
        \/ NextItem(error_occurred)
    BY <1>19 DEF Display
  <2>3. pc' \in {"status", "strings", "parm"} /\ at' = at => AtPart
    BY <1>4, <2>1 DEF AtPart, Base
  <2> QED
    BY <1>1, <1>3, <1>7, <1>8, <2>1, <2>2, <2>3
<1>20. CASE DisplayGone
  <2>1. InLoop /\ UNCHANGED <<list, found, kept, seen, removals>>
    BY <1>20 DEF DisplayGone, Displaying, InLoop, server, watched
  <2>2. pc' = "ended" \/ NextItem(error_occurred')
    BY <1>20 DEF DisplayGone, Aborted, End
  <2> QED
    BY <1>1, <1>3, <1>6, <1>7, <1>8, <2>1, <2>2
<1>21. CASE AnswerLost
  <2>1. /\ pc' = "ended" /\ found' = found
        /\ kept' = kept \cap Members(list') /\ seen' = seen \cup Members(list')
        /\ removals' = removals
    BY <1>21 DEF AnswerLost, Watch, End
  <2>2. (InLoop /\ Served(item, "ok")) \/ list' = list
    BY <1>21 DEF AnswerLost, CallDue, InLoop, ServedAll
  <2>3. list' \in Seq(Entries) /\ OnceEach(list')
    BY <1>1, <1>10, <2>2, ItemsAre, ServedList, ListChanged
  <2> QED
    BY <1>1, <1>3, <1>6, <1>9, <1>10, <2>1, <2>3
<1>22. CASE Settle \/ UNCHANGED vars
  <2>1. UNCHANGED <<list, found, kept, seen, removals, pc, at>>
    BY <1>22 DEF Settle, vars, server, control, watched
  <2> QED
    BY <1>1, <1>3, <1>5, <1>8, <2>1
<1>23. CASE Rival
  <2>1. /\ UNCHANGED <<pc, at, found>>
        /\ kept' = kept \cap Members(list') /\ seen' = seen \cup Members(list')
        /\ removals' \in Nat
    BY <1>10, <1>23 DEF Rival, control
  <2>2. \/ \E e \in Entries : Put(e) \/ TakeOut(e)
        \/ list' = list
    <3>1. Members(list) \subseteq Entries
      BY <1>10, SeqIs DEF Members
    <3> QED
      BY <1>23, <3>1 DEF Rival
  <2>3. list' \in Seq(Entries) /\ OnceEach(list')
    BY <1>10, <2>2, ListChanged
  <2> QED
    BY <1>1, <1>3, <1>5, <1>9, <2>1, <2>3
<1> QED
  BY <1>11, <1>12, <1>13, <1>14, <1>15, <1>16, <1>17, <1>18, <1>19, <1>20, <1>21, <1>22, <1>23 DEF Next, Run

-----------------------------------------------------------------------------
(* What the enumeration has passed.                                        *)

\* Entries that the enumeration has passed without noticing: each was moved
\* forward when somebody took out one before it.
Missed == {e \in kept \ Members(found) :
             \E i \in DOMAIN list : i <= Len(found) /\ list[i] = e}

\* What has been found and not been taken out since has only moved forward.
OnlyForward ==
  \A j \in DOMAIN found : found[j] \notin touched =>
    \E i \in DOMAIN list : i <= j /\ list[i] = found[j]

\* What has been found twice has been taken out meanwhile.
NothingTwice ==
  \A j, k \in DOMAIN found : found[j] = found[k] /\ j # k => found[j] \in touched

\* As many entries are missed as others have been taken out, at most.
Explained ==
  /\ request.form = "list" /\ Reading => Cardinality(Missed) <= removals
  /\ Enumerating => Cardinality(kept \ Members(found)) <= removals

\* The inductive invariant: ListingExplained counts only what is missing after the
\* enumeration, and this is what has been missed when it comes to the end.
LInv == OnlyForward /\ NothingTwice /\ Explained

\* What is missed is finite, and has no more elements than what contains it.
LEMMA MissedFinite ==
  ASSUME Base, NEW T, T \subseteq kept
  PROVE  /\ IsFiniteSet(T) /\ Cardinality(T) \in Nat
         /\ \A U \in SUBSET T : Cardinality(U) \in Nat /\ Cardinality(U) <= Cardinality(T)
         /\ \A x : \A U \in SUBSET (T \cup {x}) :
              Cardinality(U) \in Nat /\ Cardinality(U) <= Cardinality(T) + 1
<1>1. IsFiniteSet(Members(list)) /\ T \in SUBSET Members(list)
  BY MembersFinite DEF Base
<1>2. IsFiniteSet(T)
  BY <1>1, FS_Subset
<1>3. Cardinality(T) \in Nat
  BY <1>2, FS_CardinalityType
<1>4. ASSUME NEW U \in SUBSET T PROVE Cardinality(U) \in Nat /\ Cardinality(U) <= Cardinality(T)
  BY <1>2, FS_Subset, FS_CardinalityType
<1>5. ASSUME NEW x, NEW U \in SUBSET (T \cup {x})
      PROVE  Cardinality(U) \in Nat /\ Cardinality(U) <= Cardinality(T) + 1
  <2>1. IsFiniteSet(T \cup {x}) /\ Cardinality(T \cup {x}) \in {Cardinality(T), Cardinality(T) + 1}
    BY <1>2, FS_AddElement
  <2>2. IsFiniteSet(U) /\ Cardinality(U) <= Cardinality(T \cup {x})
    BY <2>1, FS_Subset
  <2>3. Cardinality(U) \in Nat
    BY <2>2, FS_CardinalityType
  <2> QED
    BY <1>3, <2>1, <2>2, <2>3
<1> QED
  BY <1>2, <1>3, <1>4, <1>5

\* A step that has nothing to do with the enumeration.
LEMMA NotEnumerating ==
  ASSUME Base, LInv, UNCHANGED <<request, list, found, removals, touched>>,
         kept' \subseteq kept, Enumerating' => Enumerating, Reading' => Reading
  PROVE  LInv'
<1>1. OnlyForward' /\ NothingTwice'
  BY DEF LInv, OnlyForward, NothingTwice
<1>2. Missed \subseteq kept /\ Missed' \subseteq Missed
  BY DEF Missed, Members
<1>3. /\ Cardinality(Missed) \in Nat /\ Cardinality(Missed') \in Nat
      /\ Cardinality(Missed') <= Cardinality(Missed)
  BY <1>2, MissedFinite
<1>4. removals' = removals /\ removals \in Nat
  BY DEF Base
<1>5. request.form = "list" /\ Reading' => Cardinality(Missed') <= removals'
  BY <1>3, <1>4 DEF LInv, Explained
<1>6. kept \ Members(found) \subseteq kept
      /\ kept' \ Members(found') \subseteq kept \ Members(found)
  BY DEF Members
<1>7. /\ Cardinality(kept \ Members(found)) \in Nat
      /\ Cardinality(kept' \ Members(found')) \in Nat
      /\ Cardinality(kept' \ Members(found')) <= Cardinality(kept \ Members(found))
  BY <1>6, MissedFinite
<1>8. Enumerating' => Cardinality(kept' \ Members(found')) <= removals'
  BY <1>4, <1>7 DEF LInv, Explained
<1> QED
  BY <1>1, <1>5, <1>8 DEF LInv, Explained

\* Showing the entry at the next index.
LEMMA EnumerateKeeps ==
  ASSUME Base, LInv, Enumerate
  PROVE  LInv'
<1>1. /\ UNCHANGED <<request, pc, end, list, removals, touched, kept>> /\ pc = "enum"
      /\ Len(found) < Len(list) /\ found' = Append(found, list[Len(found) + 1])
  BY DEF Enumerate, Index, server, watched
<1>2. PICK n \in Nat : n = Len(found) /\ DOMAIN found = 1 .. n
  BY SeqIs DEF Base
<1>3. PICK m \in Nat : m = Len(list) /\ DOMAIN list = 1 .. m
  BY SeqIs DEF Base
<1> DEFINE x == list[n + 1]
<1>4. n + 1 \in DOMAIN list /\ ~(n + 1 <= n)
  BY <1>1, <1>2, <1>3
<1>5. /\ DOMAIN found' = 1 .. n + 1 /\ found'[n + 1] = x /\ Len(found') = n + 1
      /\ \A k \in 1 .. n : found'[k] = found[k]
  <2>1. found \in Seq(Entries)
    BY DEF Base
  <2> QED
    BY <1>1, <1>2, <2>1
<1>6. \A k \in 1 .. n + 1 : k \in 1 .. n \/ k = n + 1
  BY <1>2
<1> HIDE DEF x
<1>7. OnlyForward'
  <2> SUFFICES ASSUME NEW j \in 1 .. n + 1, found'[j] \notin touched
               PROVE  \E i \in DOMAIN list : i <= j /\ list[i] = found'[j]
    BY <1>1, <1>5 DEF OnlyForward
  <2>1. CASE j \in 1 .. n
    BY <1>2, <1>5, <2>1 DEF LInv, OnlyForward
  <2>2. CASE j = n + 1
    BY <1>2, <1>4, <1>5, <2>2 DEF x
  <2> QED
    BY <1>6, <2>1, <2>2
<1>8. \A j \in 1 .. n : found[j] = x => x \in touched
  <2> SUFFICES ASSUME NEW j \in 1 .. n, found[j] = x, x \notin touched PROVE FALSE
    OBVIOUS
  <2>1. PICK i \in DOMAIN list : i <= j /\ list[i] = x
    BY <1>2 DEF LInv, OnlyForward
  <2>2. i = n + 1
    BY <1>4, <2>1 DEF Base, OnceEach, x
  <2> QED
    BY <1>2, <1>4, <2>1, <2>2
<1>9. NothingTwice'
  <2> SUFFICES ASSUME NEW j \in 1 .. n + 1, NEW k \in 1 .. n + 1, found'[j] = found'[k], j # k
               PROVE  found'[j] \in touched
    BY <1>1, <1>5 DEF NothingTwice
  <2>1. CASE j \in 1 .. n /\ k \in 1 .. n
    BY <1>2, <1>5, <2>1 DEF LInv, NothingTwice
  <2>2. CASE j = n + 1 /\ k \in 1 .. n
    BY <1>5, <1>8, <2>2
  <2>3. CASE j \in 1 .. n /\ k = n + 1
    BY <1>5, <1>8, <2>3
  <2> QED
    BY <1>6, <2>1, <2>2, <2>3
<1>10. Members(found') = Members(found) \cup {x}
  <2>1. n + 1 \in 1 .. n + 1 /\ \A k \in 1 .. n : k \in 1 .. n + 1
    BY <1>2
  <2> QED
    BY <1>2, <1>5, <1>6, <2>1 DEF Members
<1>11. Missed' \subseteq Missed
  <2> SUFFICES ASSUME NEW e \in Missed' PROVE e \in Missed
    OBVIOUS
  <2>1. e \in kept /\ e \notin Members(found) /\ e # x
        /\ \E i \in DOMAIN list : i <= n + 1 /\ list[i] = e
    BY <1>1, <1>5, <1>10 DEF Missed
  <2>2. PICK i \in DOMAIN list : i <= n + 1 /\ list[i] = e
    BY <2>1
  <2>3. i <= n
    BY <1>2, <1>3, <2>1, <2>2 DEF x
  <2> QED
    BY <1>2, <2>1, <2>2, <2>3 DEF Missed
<1>12. Missed \subseteq kept
  BY DEF Missed
<1>13. /\ Cardinality(Missed) \in Nat /\ Cardinality(Missed') \in Nat
       /\ Cardinality(Missed') <= Cardinality(Missed)
  BY <1>11, <1>12, MissedFinite
<1>14. removals \in Nat /\ removals' = removals /\ request' = request
  BY <1>1 DEF Base
<1>15. Reading /\ ~Enumerating'
  BY <1>1 DEF Reading, Enumerating
<1>16. request.form = "list" => Cardinality(Missed') <= removals'
  BY <1>13, <1>14, <1>15 DEF LInv, Explained
<1>17. Explained'
  BY <1>14, <1>15, <1>16 DEF Explained
<1> QED
  BY <1>7, <1>9, <1>17 DEF LInv

\* There is nothing at the next index.
LEMMA EnumeratedKeeps ==
  ASSUME Parts, Base, LInv, Enumerated
  PROVE  LInv'
<1>1. /\ UNCHANGED <<request, list, found, removals, touched, kept>> /\ pc = "enum"
      /\ ~(Len(found) < Len(list)) /\ pc' \in {"item", "ended"}
  <2>1. Len(found) \in Nat /\ Len(list) \in Nat
    BY SeqIs DEF Base
  <2> QED
    BY <2>1 DEF Enumerated, Index, End, server, watched
<1>2. OnlyForward' /\ NothingTwice'
  BY <1>1 DEF LInv, OnlyForward, NothingTwice
<1>3. kept' \ Members(found') \subseteq Missed
  <2> SUFFICES ASSUME NEW e \in kept, e \notin Members(found) PROVE e \in Missed
    BY <1>1 DEF Members
  <2>1. PICK i \in DOMAIN list : list[i] = e
    BY DEF Base, Members
  <2>2. i \in Nat /\ i <= Len(list) /\ Len(found) \in Nat /\ Len(list) \in Nat
    BY SeqIs DEF Base
  <2>3. i <= Len(found)
    BY <1>1, <2>2
  <2> QED
    BY <2>1, <2>3 DEF Missed
<1>4. Missed \subseteq kept
  BY DEF Missed
<1>5. /\ Cardinality(Missed) \in Nat /\ Cardinality(kept' \ Members(found')) \in Nat
      /\ Cardinality(kept' \ Members(found')) <= Cardinality(Missed)
  BY <1>3, <1>4, MissedFinite
<1>6. removals \in Nat /\ removals' = removals /\ Reading /\ ~Reading' /\ request.form = "list"
  BY <1>1 DEF Base, Reading, Parts
<1>7. Cardinality(Missed) <= removals
  BY <1>6 DEF LInv, Explained
<1>8. Cardinality(kept' \ Members(found')) <= removals'
  BY <1>5, <1>6, <1>7
<1> QED
  BY <1>2, <1>6, <1>8 DEF LInv, Explained

\* Another administrator puts an entry in: nothing is missed for that.
LEMMA RivalPuts ==
  ASSUME Base, LInv, NEW e \in Entries \ Members(list), Put(e),
         UNCHANGED <<request, pc, end, found, removals, touched>>,
         kept' = kept \cap Members(list')
  PROVE  LInv'
<1>1. /\ Members(list') = Members(list) \cup {e}
      /\ \A k \in DOMAIN list : k \in DOMAIN list' /\ list'[k] = list[k]
      /\ \A k \in DOMAIN list' : k \in DOMAIN list \/ list'[k] = e
  BY PutAppends DEF Base
<1>2. kept' = kept /\ e \notin kept
  BY <1>1 DEF Base
<1>3. OnlyForward'
  BY <1>1 DEF LInv, OnlyForward
<1>4. NothingTwice'
  BY DEF LInv, NothingTwice
<1>5. Missed' \subseteq Missed
  <2> SUFFICES ASSUME NEW x \in Missed' PROVE x \in Missed
    OBVIOUS
  <2>1. PICK i \in DOMAIN list' : i <= Len(found) /\ list'[i] = x
    BY DEF Missed
  <2>2. x \in kept /\ x \notin Members(found)
    BY <1>2 DEF Missed, Members
  <2>3. i \in DOMAIN list /\ list[i] = x
    BY <1>1, <1>2, <2>1, <2>2
  <2> QED
    BY <2>1, <2>2, <2>3 DEF Missed
<1>6. Missed \subseteq kept
  BY DEF Missed
<1>7. /\ Cardinality(Missed) \in Nat /\ Cardinality(Missed') \in Nat
      /\ Cardinality(Missed') <= Cardinality(Missed)
  BY <1>5, <1>6, MissedFinite
<1>8. removals \in Nat
  BY DEF Base
<1>9. request.form = "list" /\ Reading => Cardinality(Missed') <= removals
  BY <1>7, <1>8 DEF LInv, Explained
<1>10. (Reading' <=> Reading) /\ (Enumerating' <=> Enumerating)
       /\ kept' \ Members(found') = kept \ Members(found)
  BY <1>2 DEF Reading, Enumerating, Members
<1>11. Explained'
  BY <1>9, <1>10 DEF LInv, Explained
<1> QED
  BY <1>3, <1>4, <1>11 DEF LInv

\* Another administrator takes an entry out: one more may be missed for that.
LEMMA RivalTakesOut ==
  ASSUME Base, LInv, NEW e, TakeOut(e),
         UNCHANGED <<request, pc, end, found>>, removals' = removals + 1,
         touched' = touched \cup {e}, kept' = kept \cap Members(list')
  PROVE  LInv'
<1>1. /\ Members(list') = Members(list) \ {e}
      /\ \A k \in DOMAIN list' :
           \/ k \in DOMAIN list /\ list'[k] = list[k]
           \/ k + 1 \in DOMAIN list /\ list'[k] = list[k + 1]
      /\ \A j \in DOMAIN list : list[j] # e =>
           \E k \in DOMAIN list' : k <= j /\ list'[k] = list[j]
      /\ list' \in Seq(Entries)
  BY TakeOutShifts DEF Base
<1>2. PICK n \in Nat : n = Len(found) /\ DOMAIN found = 1 .. n
  BY SeqIs DEF Base
<1>3. /\ \A k \in DOMAIN list : k \in Nat
      /\ \A k \in DOMAIN list' : k \in Nat
  <2>1. DOMAIN list = 1 .. Len(list) /\ DOMAIN list' = 1 .. Len(list')
    BY <1>1, SeqIs DEF Base
  <2> QED
    BY <2>1
<1>4. OnlyForward'
  <2> SUFFICES ASSUME NEW j \in DOMAIN found, found[j] \notin touched, found[j] # e
               PROVE  \E k \in DOMAIN list' : k <= j /\ list'[k] = found[j]
    BY DEF OnlyForward
  <2>1. PICK i \in DOMAIN list : i <= j /\ list[i] = found[j]
    BY DEF LInv, OnlyForward
  <2>2. PICK k \in DOMAIN list' : k <= i /\ list'[k] = list[i]
    BY <1>1, <2>1
  <2>3. k <= j
    BY <1>2, <1>3, <2>1, <2>2
  <2> QED
    BY <2>1, <2>2, <2>3
<1>5. NothingTwice'
  BY DEF LInv, NothingTwice
<1>6. Missed' \subseteq Missed \cup {list[n + 1]}
  <2> SUFFICES ASSUME NEW x \in Missed', x # list[n + 1] PROVE x \in Missed
    OBVIOUS
  <2>1. PICK k \in DOMAIN list' : k <= n /\ list'[k] = x
    BY <1>2 DEF Missed
  <2>2. x \in kept /\ x \notin Members(found)
    BY DEF Missed, Members
  <2>3. CASE k \in DOMAIN list /\ list'[k] = list[k]
    BY <1>2, <2>1, <2>2, <2>3 DEF Missed
  <2>4. CASE k + 1 \in DOMAIN list /\ list'[k] = list[k + 1]
    <3>1. k + 1 <= n
      BY <1>2, <1>3, <2>1, <2>4
    <3> QED
      BY <1>2, <2>1, <2>2, <2>4, <3>1 DEF Missed
  <2> QED
    BY <1>1, <2>3, <2>4
<1>7. Missed \subseteq kept
  BY DEF Missed
<1>8. /\ Cardinality(Missed) \in Nat /\ Cardinality(Missed') \in Nat
      /\ Cardinality(Missed') <= Cardinality(Missed) + 1
  BY <1>6, <1>7, MissedFinite
<1>9. removals \in Nat
  BY DEF Base
<1>10. request.form = "list" /\ Reading => Cardinality(Missed') <= removals'
  BY <1>8, <1>9 DEF LInv, Explained
<1>11. kept \ Members(found) \subseteq kept
       /\ kept' \ Members(found') \subseteq kept \ Members(found)
  BY DEF Members
<1>12. /\ Cardinality(kept \ Members(found)) \in Nat
       /\ Cardinality(kept' \ Members(found')) \in Nat
       /\ Cardinality(kept' \ Members(found')) <= Cardinality(kept \ Members(found))
  BY <1>11, MissedFinite
<1>13. (Reading' <=> Reading) /\ (Enumerating' <=> Enumerating)
  BY DEF Reading, Enumerating
<1>14. Enumerating => Cardinality(kept' \ Members(found')) <= removals'
  BY <1>9, <1>12 DEF LInv, Explained
<1>15. Explained'
  BY <1>10, <1>13, <1>14 DEF Explained
<1> QED
  BY <1>4, <1>5, <1>15 DEF LInv

\* Every step keeps the invariant.
LEMMA LInvKept == Parts /\ Base /\ LInv /\ [Next]_vars => LInv'
<1> SUFFICES ASSUME Parts, Base, LInv, [Next]_vars PROVE LInv'
  OBVIOUS
<1>1. Base' /\ request' = request /\ request \in Requests /\ (pc # "ended" => end = "")
  BY BaseKept, SameRequest DEF Parts
<1>2. CASE request.form # "list"
  <2>1. found' = <<>> /\ request'.form # "list"
    BY <1>1, <1>2 DEF Base
  <2>2. DOMAIN found' = {}
    BY <2>1
  <2>3. OnlyForward' /\ NothingTwice'
    BY <2>2 DEF OnlyForward, NothingTwice
  <2> QED
    BY <2>1, <2>3 DEF LInv, Explained, Enumerating
<1>3. CASE request.form = "list"
  <2>1. ASSUME UNCHANGED <<list, found, removals, touched>>, kept' \subseteq kept,
               Enumerating' => Enumerating, Reading' => Reading
        PROVE  LInv'
    BY <1>1, <2>1, NotEnumerating
  <2>2. ASSUME UNCHANGED <<list, found, removals, touched>>, kept' \subseteq kept,
               pc \notin {"begin", "name", "enum", "ended"},
               pc' \notin {"begin", "name", "enum"}
        PROVE  LInv'
    <3>1. Enumerating /\ ~Reading'
      BY <1>1, <1>3, <2>2 DEF Enumerating, Reading
    <3> QED
      BY <2>1, <2>2, <3>1
  <2>3. ASSUME UNCHANGED <<list, found, removals, touched>>, kept' \subseteq kept,
               pc' = "ended", end' \in {"OSError", "Abort"}
        PROVE  LInv'
    <3>1. ~Enumerating' /\ ~Reading'
      BY <2>3 DEF Enumerating, Reading
    <3> QED
      BY <2>1, <2>3, <3>1
  <2>4. CASE Begin \/ CellName
    <3>1. /\ UNCHANGED <<list, found, removals, touched>> /\ kept' = kept
          /\ pc \in {"begin", "name"} /\ pc' \in {"name", "enum"}
      BY <1>3, <2>4 DEF Begin, CellName, End, server, watched
    <3>2. Reading /\ ~Enumerating'
      BY <3>1 DEF Reading, Enumerating
    <3> QED
      BY <2>1, <3>1, <3>2
  <2>5. CASE Enumerate
    BY <2>5, EnumerateKeeps
  <2>6. CASE Enumerated
    BY <2>6, EnumeratedKeeps
  <2>7. CASE Succeed \/ Fail
    <3>1. /\ InLoop /\ UNCHANGED <<found, removals, touched>> /\ kept' \subseteq kept
          /\ \E answer : Served(item, answer)
      BY <2>7 DEF Succeed, Fail, CallDue, InLoop, Watch, watched
    <3>2. list' = list
      BY <1>1, <1>3, <3>1, ServedList
    <3>3. \/ pc' = "ended"
          \/ \E failed : NextItem(failed)
      BY <2>7 DEF Succeed, Fail, Aborted, End
    <3>4. pc' \notin {"begin", "name", "enum"}
      BY <3>1, <3>3, GoesToItem
    <3>5. pc \notin {"begin", "name", "enum", "ended"}
      BY <3>1 DEF InLoop
    <3> QED
      BY <2>2, <3>1, <3>2, <3>4, <3>5
  <2>8. CASE All
    BY <1>3, <2>8 DEF All, Parts
  <2>9. CASE Wait
    <3>1. pc = "wait" /\ pc' = "ended" /\ UNCHANGED <<list, found, removals, touched, kept>>
      BY <2>9 DEF Wait, End, server, watched
    <3> QED
      BY <2>2, <3>1
  <2>10. CASE Display \/ DisplayGone
    <3>1. InLoop /\ UNCHANGED <<list, found, removals, touched, kept>>
      BY <2>10 DEF Display, DisplayGone, Displaying, InLoop, server, watched
    <3>2. \/ pc' \in {"ended", "status", "strings", "parm"}
          \/ \E failed : NextItem(failed)
          \/ pc = "parm" /\ pc' = pc
      BY <2>10 DEF Display, DisplayGone, Aborted, End
    <3>3. pc' \notin {"begin", "name", "enum"}
      BY <3>1, <3>2, GoesToItem
    <3>4. pc \notin {"begin", "name", "enum", "ended"}
      BY <3>1 DEF InLoop
    <3> QED
      BY <2>2, <3>1, <3>3, <3>4
  <2>11. CASE NotCarriedOut
    <3>1. pc' = "ended" /\ end' = "OSError" /\ UNCHANGED <<list, found, removals, touched, kept>>
      BY <2>11 DEF NotCarriedOut, End, server, watched
    <3> QED
      BY <2>3, <3>1
  <2>12. CASE AnswerLost
    <3>1. /\ pc' = "ended" /\ end' = "OSError"
          /\ UNCHANGED <<found, removals, touched>> /\ kept' \subseteq kept
      BY <2>12 DEF AnswerLost, End, Watch
    <3>2. list' = list \/ \E answer : Served(item, answer)
      BY <2>12 DEF AnswerLost, ServedAll
    <3>3. list' = list
      BY <1>1, <1>3, <3>2, ServedList
    <3> QED
      BY <2>3, <3>1, <3>3
  <2>13. CASE Settle \/ UNCHANGED vars
    <3>1. UNCHANGED <<pc, end, list, found, removals, touched, kept>>
      BY <2>13 DEF Settle, vars, server, control, watched
    <3>2. (Enumerating' <=> Enumerating) /\ (Reading' <=> Reading)
      BY <1>1, <3>1 DEF Enumerating, Reading
    <3> QED
      BY <2>1, <3>1, <3>2
  <2>14. CASE Rival
    <3>1. UNCHANGED <<pc, end, found>> /\ kept' = kept \cap Members(list')
      BY <2>14 DEF Rival, control
    <3>2. \/ /\ \E e \in Entries \ Members(list) : Put(e)
             /\ UNCHANGED <<removals, touched>>
          \/ /\ \E e : TakeOut(e) /\ touched' = touched \cup {e}
             /\ removals' = removals + 1
          \/ /\ UNCHANGED <<list, removals>> /\ touched \subseteq touched'
      BY <2>14 DEF Rival
    <3>3. ASSUME UNCHANGED <<list, removals>>, touched \subseteq touched' PROVE LInv'
      <4>1. kept' = kept
        BY <3>1, <3>3 DEF Base
      <4>2. OnlyForward' /\ NothingTwice'
        BY <3>1, <3>3 DEF LInv, OnlyForward, NothingTwice
      <4>3. (Enumerating' <=> Enumerating) /\ (Reading' <=> Reading)
            /\ Missed' = Missed /\ kept' \ Members(found') = kept \ Members(found)
        BY <1>1, <3>1, <3>3, <4>1 DEF Enumerating, Reading, Missed, Members
      <4>4. Explained'
        BY <1>1, <3>3, <4>3 DEF LInv, Explained
      <4> QED
        BY <4>2, <4>4 DEF LInv
    <3>4. ASSUME NEW e \in Entries \ Members(list), Put(e), UNCHANGED <<removals, touched>>
          PROVE  LInv'
      BY <1>1, <3>1, <3>4, RivalPuts
    <3>5. ASSUME NEW e, TakeOut(e), touched' = touched \cup {e}, removals' = removals + 1
          PROVE  LInv'
      BY <1>1, <3>1, <3>5, RivalTakesOut
    <3> QED
      BY <3>2, <3>3, <3>4, <3>5
  <2> QED
    BY <2>4, <2>5, <2>6, <2>7, <2>8, <2>9, <2>10, <2>11, <2>12, <2>13, <2>14 DEF Next, Run
<1> QED
  BY <1>2, <1>3

\* The command begins with nothing found, nothing missed and no item told.
LEMMA InitBase == Init => Parts /\ Base /\ LInv
<1> SUFFICES ASSUME Init PROVE Parts /\ Base /\ LInv
  OBVIOUS
<1>1. /\ request \in Requests /\ at = 1 /\ pc = "begin" /\ end = "" /\ found = <<>>
      /\ list \in Lists /\ kept = Members(list) /\ seen = Members(list) /\ removals = 0
  BY DEF Init
<1>2. Parts
  BY <1>1 DEF Parts
<1>3. request.items \in Seq(Entries) /\ list \in Seq(Entries) /\ OnceEach(list)
  BY <1>1, BosAssumption DEF Request, OnceEach
<1>4. found \in Seq(Entries) /\ DOMAIN found = {} /\ Len(found) = 0
  BY <1>1, EmptyIn
<1>5. Base
  BY <1>1, <1>3, <1>4 DEF Base, Members, Reading, InLoop
<1>6. OnlyForward /\ NothingTwice
  BY <1>4 DEF OnlyForward, NothingTwice
<1>7. Missed = {}
  <2>1. DOMAIN list = 1 .. Len(list)
    BY <1>3
  <2>2. \A i \in DOMAIN list : ~(i <= 0)
    BY <2>1
  <2> QED
    BY <1>4, <2>2 DEF Missed
<1>8. Cardinality(Missed) = 0
  BY <1>7, FS_EmptySet
<1>9. Explained
  <2>1. ~Enumerating
    BY <1>1 DEF Enumerating
  <2>2. Cardinality(Missed) <= removals
    <3>1. removals = 0
      BY <1>1
    <3> QED
      BY <1>8, <3>1
  <2> QED
    BY <2>1, <2>2 DEF Explained
<1> QED
  BY <1>2, <1>5, <1>6, <1>9 DEF LInv

\* What an enumeration by index leaves out or brings twice is explained by what
\* others took out meanwhile, and it shows nothing that was never there: for any
\* list and any number of changes.
THEOREM ListingIsExplained == Spec => []ListingExplained
<1>1. Parts /\ Base /\ LInv /\ [Next]_vars => (Parts /\ Base /\ LInv)'
  BY PartsKept, BaseKept, LInvKept
<1>2. Base /\ LInv => ListingExplained
  BY DEF Base, LInv, NothingTwice, Explained, ListingExplained
<1> QED
  BY <1>1, <1>2, InitBase, PTL DEF Spec

-----------------------------------------------------------------------------
(* What the exit code says.                                                *)

\* The commands that go from item to item.
ByItem == request.form \in {"items", "list"}
            /\ request.command \notin {"listhosts", "listkeys", "listusers"}

\* All items before one have been acknowledged.
Told(a) == \A k \in DOMAIN items : k < a => k \in told

\* Nothing has happened.
Untold == at = 1 /\ told = {} /\ exitcode = 0

\* In the loop: only items before this one have been acknowledged, and if they all
\* have, then no error has been reported.
Telling == (\A k \in told : k \in Nat /\ k < at) /\ (exitcode = 0 <=> Told(at))

\* At the end, and before it when the command waits.
TellsEnd ==
  /\ end = "normal" /\ exitcode = 0 => AllTold
  /\ AllTold => \/ end = "normal" /\ exitcode = 0
                \/ request.wait
                \/ request.form = "list" /\ end = "OSError"

\* The inductive invariant: ExitTellsTruth speaks of the end only.
EInv ==
  ByItem => /\ Reading => Untold
            /\ InLoop => Telling
            /\ pc = "wait" => request.wait /\ (exitcode = 0 => AllTold)
            /\ pc = "ended" => TellsEnd

\* An item is acknowledged, and main() goes on.
LEMMA ToldKeeps ==
  ASSUME Base, Telling, InLoop, told' = told \cup {at}, NextItem(error_occurred),
         UNCHANGED <<request, found, exitcode>>
  PROVE  EInv'
<1>1. PICK n \in Nat : n = Len(items) /\ DOMAIN items = 1 .. n
  BY ItemsAre
<1>2. items' = items /\ at \in 1 .. n
  BY <1>1 DEF items, Base
<1>3. \A k \in told : k \in Nat /\ k < at
  BY DEF Telling
<1>4. exitcode = 0 <=> \A k \in 1 .. n : k < at => k \in told
  BY <1>1 DEF Telling, Told
<1>5. \A k \in 1 .. n : k \in told' <=> k \in told \/ k = at
  OBVIOUS
<1>6. CASE at < n
  <2>1. at' = at + 1 /\ pc' = "item"
    BY <1>1, <1>6 DEF NextItem
  <2>2. \A k \in 1 .. n : k < at' <=> k < at \/ k = at
    BY <1>2, <2>1
  <2>3. \A k \in told' : k \in Nat /\ k < at'
    BY <1>2, <1>3, <2>1
  <2>4. Told(at)' <=> \A k \in 1 .. n : k < at' => k \in told'
    BY <1>1, <1>2 DEF Told
  <2>5. exitcode' = 0 <=> Told(at)'
    BY <1>4, <1>5, <2>2, <2>4
  <2> QED
    BY <2>1, <2>3, <2>5 DEF EInv, Telling, Reading, InLoop
<1>7. CASE ~(at < n)
  <2>1. AfterLoop(error_occurred)
    BY <1>1, <1>7 DEF NextItem
  <2>2. \A k \in 1 .. n : k < at \/ k = at
    BY <1>2, <1>7
  <2>3. AllTold' <=> \A k \in 1 .. n : k \in told'
    BY <1>1, <1>2 DEF AllTold
  <2>4. exitcode' = 0 <=> AllTold'
    BY <1>4, <1>5, <2>2, <2>3
  <2>5. (pc' = "wait" /\ request'.wait) \/ (pc' = "ended" /\ end' = "normal")
    BY <2>1 DEF AfterLoop, End
  <2> QED
    BY <2>4, <2>5 DEF EInv, TellsEnd, Reading, InLoop
<1> QED
  BY <1>6, <1>7

\* An item is not acknowledged, and main() ends or says so and goes on.
LEMMA UntoldKeeps ==
  ASSUME Base, Telling, InLoop, UNCHANGED <<request, found, told>>,
         \/ pc' = "ended" /\ (end' # "normal" \/ exitcode' # 0)
         \/ exitcode' # 0 /\ \E failed : NextItem(failed)
  PROVE  EInv'
<1>1. PICK n \in Nat : n = Len(items) /\ DOMAIN items = 1 .. n
  BY ItemsAre
<1>2. items' = items /\ at \in 1 .. n
  BY <1>1 DEF items, Base
<1>3. \A k \in told : k \in Nat /\ k < at
  BY DEF Telling
<1>4. at \notin told
  BY <1>2, <1>3
<1>5. ~AllTold'
  BY <1>1, <1>2, <1>4 DEF AllTold
<1>6. CASE pc' = "ended" /\ (end' # "normal" \/ exitcode' # 0)
  BY <1>5, <1>6 DEF EInv, TellsEnd, Reading, InLoop
<1>7. CASE exitcode' # 0 /\ \E failed : NextItem(failed)
  <2>1. CASE at' = at + 1 /\ pc' = "item"
    <3>1. \A k \in told' : k \in Nat /\ k < at'
      BY <1>2, <1>3, <2>1
    <3>2. ~Told(at)'
      <4>1. Told(at)' <=> \A k \in 1 .. n : k < at' => k \in told'
        BY <1>1, <1>2 DEF Told
      <4>2. at < at'
        BY <1>2, <2>1
      <4> QED
        BY <1>2, <1>4, <4>1, <4>2
    <3> QED
      BY <1>7, <2>1, <3>1, <3>2 DEF EInv, Telling, Reading, InLoop
  <2>2. CASE (pc' = "wait" /\ request'.wait) \/ pc' = "ended"
    BY <1>5, <1>7, <2>2 DEF EInv, TellsEnd, Reading, InLoop
  <2>3. \/ at' = at + 1 /\ pc' = "item"
        \/ (pc' = "wait" /\ request'.wait) \/ pc' = "ended"
    BY <1>7 DEF NextItem, AfterLoop, End
  <2> QED
    BY <2>1, <2>2, <2>3
<1> QED
  BY <1>6, <1>7

\* A step that changes nothing of it.
LEMMA TellingStays ==
  ASSUME EInv, UNCHANGED <<request, at, found, told, exitcode>>,
         \/ pc' = pc /\ end' = end
         \/ Reading /\ Reading'
         \/ InLoop /\ InLoop'
  PROVE  EInv'
<1>1. (ByItem' <=> ByItem) /\ items' = items
  BY DEF ByItem, items
<1>2. (Untold => Untold') /\ (Telling => Telling') /\ (AllTold' <=> AllTold)
  BY <1>1 DEF Untold, Telling, Told, AllTold
<1>3. CASE Reading /\ Reading'
  BY <1>1, <1>2, <1>3 DEF EInv, Reading, InLoop
<1>4. CASE InLoop /\ InLoop'
  BY <1>1, <1>2, <1>4 DEF EInv, Reading, InLoop
<1>5. CASE pc' = pc /\ end' = end
  <2>1. TellsEnd => TellsEnd'
    BY <1>2, <1>5 DEF TellsEnd
  <2>2. (Reading' <=> Reading) /\ (InLoop' <=> InLoop)
    BY <1>5 DEF Reading, InLoop
  <2> QED
    BY <1>1, <1>2, <1>5, <2>1, <2>2 DEF EInv
<1> QED
  BY <1>3, <1>4, <1>5

\* main() comes to the first item.
LEMMA FirstItem ==
  ASSUME Untold, UNCHANGED <<at, told, exitcode>>, pc' = "item",
         NEW n \in Nat, DOMAIN items' = 1 .. n
  PROVE  EInv'
<1>1. \A k \in 1 .. n : ~(k < 1)
  BY FirstIsFirst, Zenon
<1>2. Told(at)' /\ exitcode' = 0 /\ told' = {}
  BY <1>1 DEF Untold, Told
<1> QED
  BY <1>2 DEF EInv, Telling, Reading, InLoop

\* Every step keeps the invariant.
LEMMA EInvKept == Parts /\ Base /\ EInv /\ [Next]_vars => EInv'
<1> SUFFICES ASSUME Parts, Base, EInv, [Next]_vars, ByItem PROVE EInv'
  BY SameRequest DEF EInv, ByItem
<1>1. Base' /\ request' = request /\ request \in Requests
  BY BaseKept, SameRequest DEF Parts
<1>2. request.form \in {"items", "list"}
  BY DEF ByItem
<1>3. InLoop => Telling
  BY DEF EInv
<1>4. Reading => Untold
  BY DEF EInv
<1>5. PICK n \in Nat : DOMAIN items' = 1 .. n
  <2>1. request'.items \in Seq(Entries) /\ found' \in Seq(Entries)
    BY <1>1 DEF Base
  <2>2. /\ DOMAIN found' = 1 .. Len(found') /\ Len(found') \in Nat
        /\ DOMAIN request'.items = 1 .. Len(request'.items) /\ Len(request'.items) \in Nat
        /\ DOMAIN get_vlservers(request'.items) = DOMAIN request'.items
    BY <2>1, SeqIs, VlserversAre
  <2> QED
    BY <2>2 DEF items
<1>6. CASE Begin
  <2>1. pc = "begin" /\ Reading /\ UNCHANGED <<at, found, told, exitcode>>
    BY <1>6 DEF Begin, Reading
  <2>2. pc' \in {"item", "name", "enum"}
    BY <1>2, <1>6 DEF Begin
  <2>3. CASE pc' = "item"
    BY <1>4, <1>5, <2>1, <2>3, FirstItem
  <2>4. CASE pc' \in {"name", "enum"}
    BY <1>1, <2>1, <2>4, TellingStays DEF Reading
  <2> QED
    BY <2>2, <2>3, <2>4
<1>7. CASE CellName
  BY <1>1, <1>7, TellingStays DEF CellName, Reading
<1>8. CASE Enumerate
  <2>1. Untold /\ pc' = "enum" /\ UNCHANGED <<at, told, exitcode>>
    BY <1>4, <1>8 DEF Enumerate, Reading
  <2>2. Untold'
    BY <2>1 DEF Untold
  <2> QED
    BY <2>1, <2>2 DEF EInv, Reading, InLoop
<1>9. CASE Enumerated
  <2>1. Untold /\ UNCHANGED <<request, at, found, told, exitcode>> /\ request.form = "list"
    BY <1>4, <1>9 DEF Enumerated, Reading, Parts
  <2>2. request.command = "status"
    BY <1>1, <2>1, BosAssumption DEF ByItem
  <2>3. CASE found # <<>>
    <3>1. pc' = "item"
      BY <1>9, <2>2, <2>3 DEF Enumerated
    <3> QED
      BY <1>5, <2>1, <3>1, FirstItem
  <2>4. CASE found = <<>>
    <3>1. pc' = "ended" /\ end' = "normal" /\ exitcode' = 0
      BY <1>9, <2>1, <2>4 DEF Enumerated, End, Untold
    <3>2. DOMAIN items' = {}
      BY <2>1, <2>4, EmptyIn DEF items
    <3>3. AllTold'
      BY <3>2 DEF AllTold
    <3> QED
      BY <3>1, <3>3 DEF EInv, TellsEnd, Reading, InLoop
  <2> QED
    BY <2>3, <2>4
<1>10. CASE Succeed
  <2>1. /\ InLoop /\ told' = told \cup {at} /\ NextItem(error_occurred)
        /\ UNCHANGED <<request, found, exitcode>>
    BY <1>10 DEF Succeed, CallDue, InLoop
  <2> QED
    BY <1>3, <2>1, ToldKeeps
<1>11. CASE Fail \/ DisplayGone
  <2>1. /\ InLoop /\ UNCHANGED <<request, found, told>>
        /\ \E answer : Aborted(answer)
    BY <1>11 DEF Fail, CallDue, DisplayGone, Displaying, InLoop
  <2>2. \/ pc' = "ended" /\ (end' # "normal" \/ exitcode' # 0)
        \/ exitcode' # 0 /\ \E failed : NextItem(failed)
    BY <2>1 DEF Aborted, Error, End
  <2> QED
    BY <1>3, <2>1, <2>2, UntoldKeeps
<1>12. CASE All
  BY <1>2, <1>12 DEF All, Parts
<1>13. CASE Wait
  <2>1. /\ pc = "wait" /\ pc' = "ended" /\ end' = "normal"
        /\ UNCHANGED <<request, found, told, exitcode>>
    BY <1>13 DEF Wait, End
  <2>2. request.wait /\ (exitcode = 0 => AllTold)
    BY <2>1 DEF EInv
  <2>3. AllTold' <=> AllTold
    BY <2>1 DEF AllTold, items
  <2>4. TellsEnd'
    BY <2>1, <2>2, <2>3 DEF TellsEnd
  <2> QED
    BY <2>1, <2>4 DEF EInv, Reading, InLoop
<1>14. CASE Display
  <2>1. InLoop /\ UNCHANGED <<request, found, exitcode>>
    BY <1>14 DEF Display, Displaying, InLoop
  <2>2. \/ InLoop' /\ UNCHANGED <<at, told>>
        \/ told' = told \cup {at} /\ NextItem(error_occurred)
    BY <1>14 DEF Display, InLoop
  <2> QED
    BY <1>3, <2>1, <2>2, ToldKeeps, TellingStays
<1>15. CASE NotCarriedOut
  <2>1. /\ UNCHANGED <<request, at, found, told, exitcode>> /\ pc' = "ended" /\ end' = "OSError"
        /\ pc \in {"name", "enum", "item", "status", "strings", "parm", "all", "wait"}
    BY <1>15 DEF NotCarriedOut, End
  <2>2. CASE InLoop
    BY <1>3, <2>1, <2>2, UntoldKeeps
  <2>3. CASE pc \in {"name", "enum", "wait"}
    <3>1. request'.form = "list" \/ request'.wait
      BY <1>1, <2>3 DEF Parts, EInv
    <3>2. TellsEnd'
      BY <2>1, <3>1 DEF TellsEnd
    <3> QED
      BY <2>1, <3>2 DEF EInv, Reading, InLoop
  <2>4. pc # "all"
    BY <1>2 DEF Parts
  <2> QED
    BY <2>1, <2>2, <2>3, <2>4 DEF InLoop
<1>16. CASE AnswerLost
  <2>1. /\ UNCHANGED <<request, found, told>> /\ pc' = "ended" /\ end' = "OSError"
        /\ InLoop
    BY <1>2, <1>16 DEF AnswerLost, End, CallDue, InLoop, Parts
  <2> QED
    BY <1>3, <2>1, UntoldKeeps
<1>17. CASE Settle \/ Rival \/ UNCHANGED vars
  <2>1. UNCHANGED <<request, pc, end, at, found, told, exitcode>>
    BY <1>1, <1>17 DEF Settle, Rival, vars, control
  <2> QED
    BY <2>1, TellingStays
<1> QED
  BY <1>6, <1>7, <1>8, <1>9, <1>10, <1>11, <1>12, <1>13, <1>14, <1>15, <1>16, <1>17 DEF Next, Run

\* When all calls have been acknowledged, so has everything that was named, but for
\* hosts that are not known.
LEMMA NamedAreTold == AllTold => AllNamedTold \/ HostsMissed
<1> SUFFICES ASSUME AllTold, ~HostsMissed, NEW k \in DOMAIN Named
             PROVE  \E j \in told \cap DOMAIN items : items[j] = Named[k]
  BY DEF AllNamedTold
<1>1. CASE request.form = "list" \/ request.command \notin OfHosts
  BY <1>1 DEF AllTold, items, Named
<1>2. CASE request.form # "list" /\ request.command \in OfHosts
  <2>1. items = [j \in DOMAIN request.items |-> request.items[1]]
    BY <1>2 DEF items, get_vlservers
  <2>2. k \in DOMAIN items /\ Named[k] = request.items[1]
    BY <1>2, <2>1 DEF Named, HostsMissed
  <2>3. items[k] = Named[k] /\ k \in told
    BY <2>1, <2>2 DEF AllTold
  <2> QED
    BY <2>2, <2>3
<1> QED
  BY <1>1, <1>2

\* A command that ends with zero has had everything that was named acknowledged, or
\* shown, but for the hosts after the first of addhost and removehost, and one that
\* has had all its calls answered and still fails could not wait or read its list:
\* for any list, any command line and whatever the server answers.
THEOREM ExitAlwaysTrue == Spec => []ExitTellsTruth
<1>1. Init => EInv
  BY DEF Init, EInv, Untold, Reading, InLoop
<1>2. Parts /\ Base /\ EInv /\ [Next]_vars => (Parts /\ Base /\ EInv)'
  BY PartsKept, BaseKept, EInvKept
<1>3. EInv => ExitTellsTruth
  BY NamedAreTold DEF EInv, ByItem, TellsEnd, ExitTellsTruth
<1> QED
  BY <1>1, <1>2, <1>3, InitBase, PTL DEF Spec
=============================================================================
