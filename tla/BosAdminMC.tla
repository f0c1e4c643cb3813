---------------------------- MODULE BosAdminMC ----------------------------
(* Command lines for BosAdmin: every command, with up to three items.       *)
EXTENDS BosAdmin

CONSTANTS a, b, c

MCEntries == {a, b, c}
MCLists == {<<a, b>>, <<b, c, a>>}

Line(command, form, s) ==
  [command |-> command, form |-> form, items |-> s, wait |-> FALSE, long |-> FALSE]

ForItems == {"addhost", "adduser", "delete", "uninstall", "removehost",
             "removekey", "removeuser", "start", "startup", "stop", "shutdown", "restart"}
Once == {"addkey", "create", "setauth", "setrestricted", "exec", "setcellname",
         "setrestart", "prune", "getrestricted"}

MCRequests ==
  {Line(m, "items", s) : m \in ForItems, s \in {<<a, c>>, <<c, b, c>>}}
  \cup {[Line(m, "items", <<a, b>>) EXCEPT !.wait = TRUE] : m \in {"stop", "shutdown"}}
  \cup {Line(m, "items", <<c>>) : m \in Once}
  \cup {Line(m, "items", <<a, b>>) : m \in {"getdate", "getrestart"}}
  \cup {Line(m, "all", <<>>) : m \in {"startup", "shutdown", "restart"}}
  \cup {[Line("shutdown", "all", <<>>) EXCEPT !.wait = TRUE]}
  \cup {Line(m, "bad", <<>>) : m \in {"create", "setauth", "setrestricted", "restart"}}
  \cup {Line(m, "list", <<>>) : m \in {"listhosts", "listkeys", "listusers", "status"}}
  \cup {Line("status", "items", <<b, c>>)}
  \cup {[Line("status", f, <<a, c>>) EXCEPT !.long = TRUE] : f \in {"items", "list"}}
=============================================================================
