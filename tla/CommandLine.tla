---------------------------- MODULE CommandLine ----------------------------
(***************************************************************************)
(* From the words of a command line to the command (main.py, argparse.py): *)
(* the command's name is looked up, its module and the one it is an alias  *)
(* of are found, its words are distributed over its arguments by the AFS   *)
(* rules for abbreviating and omitting switches, it is run, and the exit   *)
(* status is made of what became of it; and the help command and switch.   *)
(*                                                                         *)
(* A name is a sequence of letters, as abbreviations are prefixes of it.   *)
(* Of any other word only what the parser tells apart is kept.             *)
(***************************************************************************)
EXTENDS Naturals, Sequences, FiniteSets, SequencesExt

CONSTANTS
  Commands,    \* a command set: name -> [alias, args, cant], help included
  Orders,      \* orders in which the directory may list the commands
  Typed,       \* bound: names typed for a command
  Words,       \* bound: words typed after it
  MaxWords     \* bound: how many

VARIABLES
  order,       \* the list of commands
  typed,       \* the command's name as typed
  words,       \* the words after it
  stage,       \* "lookup", "parse", "missing", "combine", "cell", "run",
               \* "topics" or "exit"
  cmd,         \* the command
  i, av,       \* parse_arguments: the next word, the next argument by position
  need_switch,
  result,      \* name of an argument -> the words it was given
  exitcode,    \* output.exitcode; in "exit" the exit status
  how          \* what the status tells

lineVars == <<order, typed, words, stage, cmd, i, av, need_switch, result, exitcode, how>>

HelpName == <<"h", "e", "l", "p">>
AproposName == <<"a", "p">>
Builtin == {HelpName, AproposName}   \* not in the command set's directory
None == <<>>

\* An argument has a place ("r", "o", "f": required, optional, flag), a number
\* of words ("s", "m", "n": single, multiple, none), a syntax checker, a limit to
\* the size of its words or not, and the text that shows its usage or not.
Arguments(c) == Commands[c].args
args == Arguments(cmd)
NamesOf(table) == [k \in DOMAIN table |-> table[k].name]
Ambiguous == <<"?">>

\* So the commands' tables are: the flags take no words and the others do, and
\* no two names before a third in a table begin with it.
ProperTable(table) ==
  /\ table \in Seq(Range(table)) /\ IsInjective(NamesOf(table))
  /\ \A k \in DOMAIN table :
       /\ table[k].place \in {"r", "o", "f"} /\ table[k].number \in {"s", "m", "n"}
       /\ table[k].place = "f" <=> table[k].number = "n"
       /\ table[k].name \in Seq(Range(table[k].name)) /\ table[k].name \notin {None, Ambiguous}
       /\ \A m, n \in 1 .. k - 1 :
            IsPrefix(table[k].name, table[m].name) /\ IsPrefix(table[k].name, table[n].name)
              => m = n
       /\ table[k].name = HelpName =>
            \A n \in DOMAIN table : table[n].place = "f" \/ table[n].described

ASSUME CommandLineAssumption ==
  /\ \A c \in Builtin : c \in DOMAIN Commands /\ Commands[c].alias = None
  /\ {None, Ambiguous} \cap DOMAIN Commands = {}
  /\ \A c \in DOMAIN Commands :
       /\ ProperTable(Arguments(c))
       /\ Commands[c].alias # None =>
            /\ Commands[c].alias \in DOMAIN Commands
            /\ Commands[Commands[c].alias].alias = None
  /\ \A o \in Orders : \* a directory has no name twice
       o \in Seq(DOMAIN Commands) /\ Range(o) = DOMAIN Commands /\ IsInjective(o)
  /\ \A w \in Words : w.kind \in {"switch", "number", "value", "long", "empty"}
  /\ MaxWords \in Nat

IsSwitch(w) == w.kind = "switch"

\* Mutant: a name typed in full is not preferred.
LookupAll(names, w) ==
  LET hits == {k \in DOMAIN names : IsPrefix(w, names[k])}
  IN  CASE hits = {} -> None
        [] Cardinality(hits) = 1 -> names[CHOOSE k \in hits : TRUE]
        [] OTHER -> Ambiguous
\* The first name that is the word, or else the only one that starts with it.
\* Names that start with it and come first make it ambiguous all the same.
Lookup(names, w) ==
  LET exact == {k \in DOMAIN names : names[k] = w}
      until == IF exact = {} THEN Len(names) ELSE CHOOSE k \in exact : TRUE
      hits == {k \in 1 .. until : IsPrefix(w, names[k])} \ exact
  IN  IF Cardinality(hits) > 1 THEN Ambiguous
      ELSE IF exact # {} THEN w
      ELSE IF hits = {} THEN None ELSE names[CHOOSE k \in hits : TRUE]
Argument(table, a) == table[CHOOSE k \in DOMAIN table : table[k].name = a]

LineTypeOK ==
  /\ stage \in {"lookup", "parse", "missing", "combine", "cell", "run", "topics", "exit"}
  /\ cmd \in DOMAIN Commands \cup {None}
  /\ stage \notin {"lookup", "exit"} => cmd # None /\ Commands[cmd].alias = None
  /\ i \in 1 .. Len(words) + 1 /\ need_switch \in BOOLEAN
  /\ cmd # None =>
       /\ av \in 1 .. Len(args) + 1
       /\ DOMAIN result \subseteq Range(NamesOf(args))
       /\ \A a \in DOMAIN result :
            CASE Argument(args, a).number = "s" -> Len(result[a]) = 1
              [] Argument(args, a).number = "n" -> result[a] = <<>>
              [] OTHER -> result[a] # <<>>
  /\ exitcode \in {0, 1, 2, 3, 5}

-----------------------------------------------------------------------------
LineInit ==
  /\ order \in Orders /\ typed \in Typed
  /\ \E n \in 0 .. MaxWords : words \in [1 .. n -> Words]
  /\ stage = "lookup" /\ cmd = None
  /\ i = 1 /\ av = 1 /\ need_switch = FALSE /\ result = <<>>
  /\ exitcode = 0 /\ how = "running"

Exit(status, why) == stage' = "exit" /\ exitcode' = status /\ how' = why
Crash == Exit(1, "traceback")        \* an exception that leaves _main()
Misused == Exit(2, "usage")          \* AFSArgumentError
Stay == UNCHANGED <<order, typed, words>>
Parsed == UNCHANGED <<i, av, need_switch, result>>

\* _main(), up to the parameters.
FindCommand ==
  LET found == Lookup(order, typed)
  IN  /\ stage = "lookup" /\ Stay /\ Parsed
      /\ IF found \in {None, Ambiguous}
         THEN cmd' = cmd /\ Crash
         ELSE /\ cmd' = IF Commands[found].alias # None THEN Commands[found].alias ELSE found
              /\ stage' = "parse" /\ UNCHANGED <<exitcode, how>>

\* The words from k up to the next switch; they cannot be looked at when one of
\* them is empty.
Upto(k) == SelectInSubSeq(words, k, Len(words), IsSwitch)
Group(k) == SubSeq(words, k, IF Upto(k) = 0 THEN Len(words) ELSE Upto(k) - 1)
Unreadable(ws) == \E k \in DOMAIN ws : ws[k].kind = "empty"

\* Mutant: every argument that takes several words takes all there are.
TakesAll(k) == args[k].number = "m"
TakesMore(k) == args[k].number = "m" /\ ~(k < Len(args) /\ args[k + 1].place = "r")

\* The last part of the loop.  The messages name the switch, which has no value
\* before the first one.
Accept(a, ws, next) ==
  LET named == \E k \in 1 .. next - 1 : IsSwitch(words[k])
      complain == IF named THEN Misused ELSE Crash
  IN  IF \/ a.number = "n" /\ ws # <<>>
         \/ a.number = "s" /\ Len(ws) # 1
         \/ a.number = "m" /\ ws = <<>>
         \/ a.limited /\ \E k \in DOMAIN ws : ws[k].kind = "long"
      THEN complain /\ UNCHANGED <<i, result>>
      ELSE IF a.syntax = "number" /\ \E k \in DOMAIN ws : ws[k].kind # "number"
      THEN Misused /\ UNCHANGED <<i, result>>
      ELSE /\ i' = next
           /\ result' = [n \in DOMAIN result \cup {a.name} |->
                           IF n = a.name THEN ws ELSE result[n]]
           /\ UNCHANGED <<stage, exitcode, how>>

Parsing == stage = "parse" /\ i <= Len(words) /\ Stay /\ UNCHANGED cmd

\* A word without a switch goes to the next argument, with those that follow if
\* it takes several, unless yet another required argument is to come.
Positional ==
  /\ Parsing /\ ~IsSwitch(words[i])
  /\ IF words[i].kind = "empty" \/ need_switch
     THEN Crash /\ Parsed
     ELSE IF av > Len(args) \/ args[av].place = "f"
     THEN Misused /\ Parsed
     ELSE LET a == args[av]
              ws == IF TakesMore(av) THEN Group(i) ELSE <<words[i]>>
          IN  IF Unreadable(ws) THEN Crash /\ Parsed
              ELSE /\ av' = av + 1
                   /\ need_switch' = (need_switch \/ TakesMore(av))
                   /\ Accept(a, ws, i + Len(ws))

\* Mutant: a switch may be repeated.
RejectedUnknown(a) == a \in {None, Ambiguous}
Rejected(a) == a \in {None, Ambiguous} \/ a \in DOMAIN result
Tagged ==
  /\ Parsing /\ IsSwitch(words[i])
  /\ UNCHANGED <<av, need_switch>>
  /\ LET switch == words[i].text
         found == Lookup(NamesOf(args), switch)
         ws == Group(i + 1)
     IN  IF switch = HelpName
         THEN \* helpflag(): shows each argument, and how it is used
              /\ IF \A k \in DOMAIN args : args[k].place = "f" \/ args[k].described
                 THEN Exit(0, "help") ELSE Crash
              /\ UNCHANGED <<i, result>>
         ELSE IF switch = <<>> \/ Rejected(found)
         THEN Misused /\ UNCHANGED <<i, result>>
         ELSE IF Unreadable(ws) THEN Crash /\ UNCHANGED <<i, result>>
         ELSE Accept(Argument(args, found), ws, i + 1 + Len(ws))

\* A line without words returns early: what is compared with "r" there is the
\* name of the first argument, not its place.
EndOfWords ==
  /\ stage = "parse" /\ i > Len(words) /\ Stay /\ UNCHANGED cmd
  /\ stage' = IF words = <<>> THEN "cell" ELSE "missing"
  /\ Parsed /\ UNCHANGED <<exitcode, how>>

\* Only the required arguments before the first other one are looked for.
CheckMissing ==
  /\ stage = "missing" /\ Stay /\ UNCHANGED cmd /\ Parsed
  /\ IF \E k \in DOMAIN args :
          /\ \A n \in 1 .. k : args[n].place = "r"
          /\ args[k].name \notin DOMAIN result
     THEN Misused ELSE stage' = "combine" /\ UNCHANGED <<exitcode, how>>

CheckCombinations ==
  /\ stage = "combine" /\ Stay /\ UNCHANGED cmd /\ Parsed
  /\ IF \E c \in Commands[cmd].cant : c \subseteq DOMAIN result
     THEN Misused ELSE stage' = "cell" /\ UNCHANGED <<exitcode, how>>

\* The default cell is made outside of any try, and may be unknown.
DefaultCell ==
  /\ stage = "cell" /\ Stay /\ UNCHANGED cmd /\ Parsed
  /\ \/ stage' = (IF cmd = HelpName THEN "topics" ELSE "run") /\ UNCHANGED <<exitcode, how>>
     \/ Crash

\* command.main(params): it looks its required parameters up, and may end well,
\* having reported errors or not, or in one of the exceptions told apart here.
\* SystemExit is the command's own sys.exit(), which no command calls.
Run ==
  /\ stage = "run" /\ Stay /\ UNCHANGED cmd /\ Parsed
  /\ IF \E k \in DOMAIN args : args[k].place = "r" /\ args[k].name \notin DOMAIN result
     THEN Exit(3, "unhandled")       \* KeyError
     ELSE \/ Exit(0, "done")
          \/ Exit(1, "error")        \* error() was called
          \/ Exit(1, "failed")       \* AFSException, IOError
          \/ Exit(2, "misused")      \* AFSArgumentError of module exception, not afs.exception
          \/ Exit(1, "interrupted")  \* KeyboardInterrupt
          \/ Exit(3, "unhandled")

\* help.main(): an unknown topic is complained of and the others are shown.
Topics == IF <<"t">> \in DOMAIN result THEN result[<<"t">>] ELSE <<>>
Topic(w) == IF w.kind = "value" THEN Lookup(order, w.text) ELSE None
Target(c) == IF Commands[c].alias # None THEN Commands[c].alias ELSE c
Showable(w, c) == /\ c \in Builtin => w.text = c   \* or else it is imported
                  /\ \A k \in DOMAIN Arguments(Target(c)) :
                       LET a == Arguments(Target(c))[k] IN a.place = "f" \/ a.described
ShowTopics ==
  /\ stage = "topics" /\ Stay /\ UNCHANGED cmd /\ Parsed
  /\ LET found(k) == Topic(Topics[k])
         unknown == {k \in DOMAIN Topics : found(k) \in {None, Ambiguous}}
     IN  IF HelpName \notin DOMAIN result
            /\ \E k \in DOMAIN Topics \ unknown : ~Showable(Topics[k], found(k))
         THEN Exit(3, "unhandled")   \* IndexError, ImportError
         ELSE IF HelpName \notin DOMAIN result /\ unknown # {}
         THEN Exit(5, "error") ELSE Exit(0, "help")

LineNext ==
  \/ FindCommand
  \/ Positional \/ Tagged \/ EndOfWords \/ CheckMissing \/ CheckCombinations
  \/ DefaultCell \/ Run \/ ShowTopics

LineSpec == LineInit /\ [][LineNext]_lineVars

-----------------------------------------------------------------------------
(* A command's name typed in full runs that command, and an abbreviation of   *)
(* just one name runs that one, in whatever order the directory lists them,   *)
(* as long as no two other names begin with the name that is typed.           *)
Longer(w) == {c \in DOMAIN Commands : IsPrefix(w, c) /\ c # w}
RightCommand ==
  stage # "lookup" =>
    /\ typed \in DOMAIN Commands /\ Cardinality(Longer(typed)) < 2 => cmd = Target(typed)
    /\ typed \notin DOMAIN Commands /\ Cardinality(Longer(typed)) = 1 =>
         \A c \in Longer(typed) : cmd = Target(c)

(* When the words have been taken, each of them that is no switch has gone to *)
(* exactly one argument, with its neighbours and in the order of the line:    *)
(* the first ones to the arguments in their places, one word each, with all   *)
(* that follow if that takes several, and those after a switch to its         *)
(* argument.  Nothing that was given to an argument has been replaced by a    *)
(* later word: no argument is found both by position and by switch.           *)
Switches == {k \in DOMAIN words : IsSwitch(words[k])}
EveryWordUsedOnce ==
  stage \in {"missing", "combine"} =>
    /\ \A k \in DOMAIN words :
         (\A n \in 1 .. k : ~IsSwitch(words[n])) => k < av \/ need_switch
    /\ \A k \in 1 .. av - 1 :
         result[args[k].name] = IF k = av - 1 /\ need_switch THEN Group(k) ELSE <<words[k]>>
    /\ \A k \in Switches : result[Lookup(NamesOf(args), words[k].text)] = Group(k + 1)
    /\ Cardinality(DOMAIN result) = Cardinality(Switches) + av - 1

(* What the excerpt of the AFS manual above the parser says: the switch may   *)
(* be typed always, in any order; it may be left out where all the required   *)
(* arguments come first and in order, with one value each, more at the end    *)
(* belonging to the final one.                                                *)
Fit(a, ws) == /\ a.limited => \A k \in DOMAIN ws : ws[k].kind # "long"
              /\ a.syntax = "number" => \A k \in DOMAIN ws : ws[k].kind = "number"
              /\ \A k \in DOMAIN ws : ws[k].kind # "empty"
Given == {words[k].text : k \in Switches}
AllTagged ==
  /\ words # <<>> /\ IsSwitch(words[1])
  /\ Cardinality(Given) = Cardinality(Switches)
  /\ \A k \in Switches :
       /\ words[k].text \in Range(NamesOf(args))
       /\ LET a == Argument(args, words[k].text) IN
            /\ Fit(a, Group(k + 1))
            /\ Len(Group(k + 1)) \in (CASE a.number = "n" -> {0} [] a.number = "s" -> {1}
                                       [] a.number = "m" -> 1 .. MaxWords)
  /\ \A k \in DOMAIN args : args[k].place = "r" => args[k].name \in Given
Required == {k \in DOMAIN args : args[k].place = "r"}
InPlace ==
  /\ Switches = {} /\ Required # {} /\ Required = 1 .. Cardinality(Required)
  /\ \A k \in Required : k < Cardinality(Required) => args[k].number \in {"s", "m"}
  /\ IF args[Cardinality(Required)].number = "m" THEN Len(words) >= Cardinality(Required)
     ELSE Len(words) = Cardinality(Required)
  /\ \A k \in DOMAIN words : Fit(args[IF k > Cardinality(Required) THEN Cardinality(Required)
                                      ELSE k], <<words[k]>>)
ManualHolds ==
  /\ stage = "exit" /\ how = "usage" /\ cmd # None /\ (AllTagged \/ InPlace) =>
       \E c \in Commands[cmd].cant : c \subseteq DOMAIN result
  /\ stage = "exit" /\ how = "traceback" /\ i <= Len(words) /\ cmd # None => ~AllTagged /\ ~InPlace
  /\ stage = "combine" /\ AllTagged => DOMAIN result = Given
  /\ stage = "combine" /\ InPlace => \A k \in Required : result[args[k].name][1] = words[k]
=============================================================================
