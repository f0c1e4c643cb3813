----------------------------- MODULE Completion -----------------------------
(***************************************************************************)
(* What the shell is offered for a word (bash-comp-helper.py).  It reads   *)
(* the words before the cursor by rules of its own: arguments required by  *)
(* position, then switches and what follows them.  The word being          *)
(* completed is the last; those after it are cut off first.                *)
(***************************************************************************)
EXTENDS CommandLine

\* Unlike the parser's, this test takes a negative number for a switch...
Dashed(w) == w.kind \in {"switch", "number"}
NoArgument == [name |-> None, number |-> "n", place |-> "f"]
\* Mutant: a switch that begins another one is ambiguous.
UniquePrefix(table, w) ==
  LET found == LookupAll(NamesOf(table), w.text)
  IN  IF found \in {None, Ambiguous} THEN NoArgument ELSE Argument(table, found)
Unique(table, w) ==
  LET found == Lookup(NamesOf(table), w.text)
  IN  IF found \in {None, Ambiguous} THEN NoArgument ELSE Argument(table, found)

\* ... and a word with a dash after a switch that takes words for one of those.
Skipped(table, ws) ==
  LET skip[k \in 1 .. Len(ws) + 1] ==
        /\ k > 1 /\ Dashed(ws[k - 1]) /\ ~skip[k - 1]
        /\ Unique(table, ws[k - 1]).number # "n"
  IN  skip
Canon(table, ws) ==
  [k \in DOMAIN ws |-> IF Dashed(ws[k]) /\ ~Skipped(table, ws)[k]
                       THEN Unique(table, ws[k]) ELSE NoArgument]

\* Required arguments take the words up to the first dash, the first that takes
\* several all that are left.
FirstOf(s, n) == IF s = {} THEN n + 1 ELSE Min(s)
Leading(ws) == FirstOf({k \in DOMAIN ws : Dashed(ws[k])}, Len(ws)) - 1
ByPosition(table, ws) ==
  LET required == FirstOf({k \in DOMAIN table : table[k].place # "r"}, Len(table)) - 1
      several == FirstOf({k \in DOMAIN table : table[k].number # "s"}, Len(table))
      taken == Min({required, several, Leading(ws)})
  IN  [taken |-> taken,
       types |-> [k \in DOMAIN ws |->
                    IF k <= taken THEN table[k]
                    ELSE IF taken = several /\ k <= Leading(ws) THEN table[several]
                    ELSE NoArgument],
       extra |-> [k \in DOMAIN ws |-> k > taken /\ taken = several /\ k <= Leading(ws)]]

\* Then switches take what follows them: the switch in force after a word, and
\* whether it has had a word already.
InForce(last, more) == [last |-> last, more |-> more]
After(read, canon) ==
  IF canon # NoArgument
  THEN InForce(IF canon.number = "n" THEN NoArgument ELSE canon, FALSE)
  ELSE IF read.last.number = "s" THEN InForce(NoArgument, FALSE)
  ELSE InForce(read.last, read.last # NoArgument)
Reading(table, ws) ==
  LET canon == Canon(table, ws)
      read[k \in 0 .. Len(ws)] == IF k = 0 THEN InForce(NoArgument, FALSE)
                                  ELSE After(read[k - 1], canon[k])
  IN  read
BySwitch(table, ws) ==
  LET canon == Canon(table, ws)
      read == Reading(table, ws)
  IN  [k \in DOMAIN ws |->
         [takes |-> canon[k] = NoArgument /\ read[k - 1].last # NoArgument,
          type |-> read[k - 1].last, extra |-> read[k - 1].more]]

WordType(table, ws, k) == IF BySwitch(table, ws)[k].takes THEN BySwitch(table, ws)[k].type
                          ELSE ByPosition(table, ws).types[k]
Additional(table, ws, k) == IF BySwitch(table, ws)[k].takes THEN BySwitch(table, ws)[k].extra
                            ELSE ByPosition(table, ws).extra[k]

\* argnames: the arguments that have not been used.
Left(table, ws) ==
  LET used == {k \in DOMAIN table :
                 \/ k <= ByPosition(table, ws).taken
                 \/ \E n \in DOMAIN ws : Canon(table, ws)[n].name = table[k].name}
  IN  {table[k].name : k \in DOMAIN table \ used}

\* What is offered: these switches, a value, or a list that was printed as such.
Flags(names) == [kind |-> "flags", names |-> names]
Other(kind) == [kind |-> kind, names |-> {}]
Offer(table, ws) ==
  LET c == Len(ws)
      word == ws[c]
      type == WordType(table, ws, c)
      extra == Additional(table, ws, c)
      left == Left(table, ws)
      required == {k \in DOMAIN table : table[k].place = "r" /\ table[k].name \in left}
      next == CHOOSE k \in required : \A n \in required : k <= n
      options == {n \in left : IsPrefix(word.text, n)}
  IN  CASE word.kind = "empty" /\ c <= ByPosition(table, ws).taken -> Flags({table[c].name})
        [] Canon(table, ws)[c] # NoArgument -> Flags({Canon(table, ws)[c].name})
        [] OTHER ->
           IF required # {} /\ (type = NoArgument \/ (extra /\ IsSwitch(word) /\ word.text = None))
           THEN Flags({table[next].name})
           ELSE IF type # NoArgument /\ ~extra THEN Other("value")
           ELSE IF extra /\ Dashed(word) /\ required # {} THEN Other("garbled")
           ELSE IF /\ word.kind = "empty" \/ Dashed(word)
                   /\ options # {} /\ (type = NoArgument \/ Dashed(word))
           THEN Flags(options)
           ELSE IF extra THEN Other("value") ELSE Other("nothing")

-----------------------------------------------------------------------------
(* The helper knows arguments by position only if they are required, no two   *)
(* of them take several words, and no word is a negative number.              *)
Plain == /\ \A k \in DOMAIN words : words[k].kind # "number"
         /\ ByPosition(args, words).taken = av - 1

(* Of a line that the parser takes, the helper takes each word for what the   *)
(* parser takes it for.                                                       *)
WordsAgree ==
  \A k \in DOMAIN words :
    LET a == WordType(args, words, k)
    IN  IF IsSwitch(words[k]) THEN Canon(args, words)[k].name \in DOMAIN result
        ELSE a # NoArgument /\ words[k] \in Range(result[a.name])

(* It offers no switch that the parser would refuse as a second one, where a  *)
(* dash alone does not name an argument already because there is only one.    *)
Cursor == {[kind |-> "empty", text |-> None], [kind |-> "switch", text |-> None]}
OffersUnused ==
  Len(args) > 1 =>
    \A w \in Cursor : Offer(args, words \o <<w>>).names \cap DOMAIN result = {}

(* The helper and the parser, each with its own code for the same grammar,    *)
(* agree on every line the parser takes.                                      *)
HelperAgrees == stage = "combine" /\ Plain => WordsAgree /\ OffersUnused
=============================================================================
