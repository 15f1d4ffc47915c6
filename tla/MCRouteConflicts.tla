---------------------------- MODULE MCRouteConflicts ----------------------------
(* TLC instances of RouteConflicts: a wildcard server name and two names it
   covers, on two nodes. *)
EXTENDS RouteConflicts

CONSTANTS n1, n2

MCSpreads == {{n1, n2}, {n2}}
MCMatches == {"api", "web", "wild"}
MCClash == {<<m, m>> : m \in MCMatches}
           \union {<<"wild", "api">>, <<"api", "wild">>, <<"wild", "web">>, <<"web", "wild">>}
MCStatics == {{}, {"web"}}
\* The wildcard is the oldest, between the two names, or the youngest.
MCStarts == {<<"wild", "api", "web">>, <<"api", "wild", "web">>, <<"api", "web", "wild">>}
=============================================================================
