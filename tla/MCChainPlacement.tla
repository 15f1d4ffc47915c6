--------------------------- MODULE MCChainPlacement ---------------------------
(* TLC instances of ChainPlacement: the kinds of match that are hard to tell
   apart (case, wildcard, trailing dot, several keys in one list, addresses
   before and after masking), on two nodes and three Listeners, of which "l3"
   does not exist. *)
EXTENDS ChainPlacement

Label == {"", "*", "api", "web", "com", "we*"}
MCWidth == [f \in {"v4", "v6", "none"} |-> IF f = "none" THEN 0 ELSE 2]
MCLower == [l \in Label \union {"API"} |-> IF l = "API" THEN "api" ELSE l]

Named(names) == [CatchAll EXCEPT !.serverNames = names]
V4(b, n) == [family |-> "v4", bits |-> b, len |-> n]

Wild == Named(<<<<"*", "com">>>>)
Api == Named(<<<<"API", "com">>>>)
ApiDot == Named(<<<<"api", "com", "">>>>)
Both == [Named(<<<<"api", "com">>, <<"web", "com">>>>) EXCEPT !.alpn = <<"h2", "h1">>]
WebH1 == [Named(<<<<"web", "com">>, <<"", "com">>>>) EXCEPT !.alpn = <<"h1">>]
Half == [CatchAll EXCEPT !.source = <<V4(<<1, 0>>, 1)>>]
Halves == [CatchAll EXCEPT !.source = <<V4(<<0, 1>>, 9), V4(<<1, 1>>, 1)>>]
AllV4 == [CatchAll EXCEPT !.source = <<V4(<<1, 0>>, 0)>>, !.destinationPort = <<80>>]
Port == [CatchAll EXCEPT !.destinationPort = <<80>>]
Twice == Named(<<<<"*", "com">>, <<"", "com">>>>)
PartialName == Named(<<<<"we*", "com">>>>)

Route(refs, nodes, match, domains) ==
    [refs |-> refs, nodes |-> nodes, match |-> match, domains |-> domains, hcm |-> TRUE]
NoHCM(route) == [route EXCEPT !.hcm = FALSE]

MCSpecs ==
    {Route(<<"l1">>, {0, 1}, Wild, {"api"}),
     Route(<<"l1">>, {0}, Api, {"api"}),
     Route(<<"l2", "l1">>, {0, 1}, ApiDot, {"web"}),
     Route(<<"l1", "l2">>, {0, 1}, Both, {"api", "web"}),
     NoHCM(Route(<<"l2">>, {0, 1}, WebH1, {"web"})),
     Route(<<"l1", "l3">>, {0, 1}, Half, {}),
     Route(<<"l3", "l1">>, {1}, Halves, {}),
     Route(<<"l2">>, {1}, AllV4, {}),
     Route(<<"l3", "l1">>, {0}, Api, {}),
     Route(<<"l1">>, {0, 1}, Twice, {})}

\* l1 is everywhere and l2 on one node.  Their own chains clash with chains
\* of Routes, with each other, or are invalid.
Listener(nodes, chains) == {[nodes |-> nodes, chains |-> chains]}

Layout(chains1, chains2) ==
    [l \in {"l1", "l2", "l3"} |-> CASE l = "l1" -> Listener({0, 1}, chains1)
                                    [] l = "l2" -> Listener({1}, chains2)
                                    [] OTHER -> {}]

MCLayouts == {Layout(<<>>, <<PartialName, Port>>), Layout(<<Api, Half>>, <<Port>>),
              Layout(<<Half, Halves>>, <<>>)}
=============================================================================
