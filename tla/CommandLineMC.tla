--------------------------- MODULE CommandLineMC ---------------------------
(***************************************************************************)
(* An instance of CommandLine and Completion: arguments of each sort that  *)
(* the command sets have, in the orders in which they have them.           *)
(***************************************************************************)
EXTENDS Completion

arg(name, place, number, limited, syntax) ==
  [name |-> name, place |-> place, number |-> number, limited |-> limited,
   syntax |-> syntax, described |-> TRUE]
undescribed(a) == [a EXCEPT !.described = FALSE]

cell == arg(<<"c">>, "o", "s", FALSE, "any")
noauth == arg(<<"n", "o">>, "f", "n", FALSE, "any")
nosort == arg(<<"n", "s">>, "f", "n", FALSE, "any")
user == arg(<<"u">>, "r", "m", TRUE, "any")
group == arg(<<"g">>, "r", "m", FALSE, "any")
name == arg(<<"n">>, "r", "s", FALSE, "any")
id == arg(<<"i">>, "o", "m", FALSE, "number")
kvno == arg(<<"k">>, "r", "s", FALSE, "any")
topic == arg(<<"t">>, "o", "m", FALSE, "any")

command(alias, table, cant) == [alias |-> alias, args |-> table, cant |-> cant]
Adduser == <<"a">>
Addkey == <<"a", "k">>
Create == <<"c", "u">>
Alias == <<"c">>
CommandsDef ==
  [c \in {Adduser, Addkey, Create, Alias, HelpName, AproposName} |->
     CASE c = Adduser -> command(None, <<user, group, noauth, cell>>, {{<<"c">>, <<"n", "o">>}})
       [] c = Addkey -> command(None, <<name, undescribed(cell), undescribed(kvno), noauth, nosort>>, {})
       [] c = Create -> command(None, <<user, id, cell>>, {})
       [] c = Alias -> command(Create, <<>>, {})
       [] c = HelpName -> command(None, <<topic, arg(HelpName, "f", "n", FALSE, "any")>>, {})
       [] c = AproposName -> command(None, <<[topic EXCEPT !.place = "r", !.number = "s"]>>, {})]
OrdersDef == {<<Adduser, Addkey, Create, Alias, HelpName, AproposName>>,
              <<Alias, Create, Addkey, Adduser, HelpName, AproposName>>}
TypedDef == {Adduser, Addkey, Create, Alias, HelpName, <<"h">>, AproposName, <<"x">>}

word(kind, text) == [kind |-> kind, text |-> text]
switch(text) == word("switch", text)
WordsDef == {word("value", <<"c", "u">>), word("value", <<"h">>), word("long", <<"l">>),
             word("number", <<"5">>), word("empty", None), switch(None), switch(HelpName),
             switch(<<"n">>), switch(<<"n", "o">>), switch(<<"u">>), switch(<<"g">>),
             switch(<<"c">>), switch(<<"i">>)}
=============================================================================
