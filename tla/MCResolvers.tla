---------------------------- MODULE MCResolvers ----------------------------
(* Resolvers over five state words and six resources: failover between      *)
(* simplefo and multifo with both families, weighted sets with and without  *)
(* groups and multi, two services per address, names, and failover to the   *)
(* client's own addresses and to plugins without state.                     *)
EXTENDS Resolvers

A(name, weight, ws) == [addr |-> name, weight |-> weight, words |-> ws]
One(name, ws) == <<A(name, 1, ws)>>
None == [items |-> <<>>, multi |-> FALSE, thresh |-> <<1, 2>>]
Set(items) == [None EXCEPT !.items = items]
DC(plugin, v4, v6) == [plugin |-> plugin, resname |-> "res", v4 |-> v4, v6 |-> v6, cnames |-> <<>>]
Name(plugin, n) == [DC(plugin, None, None) EXCEPT !.cnames = <<[name |-> n, weight |-> 1]>>]
Reflected(n) == [DC("reflect", None, None) EXCEPT !.resname = n]

Failover ==
    [dcs   |-> << DC("simplefo", Set(<<One("p", <<1>>), One("s", <<2>>)>>), None),
                  DC("multifo", Set(<<One("a", <<3>>), One("b", <<4>>)>>), Set(<<One("x", <<5>>)>>)) >>,
     lists |-> {<<1, 2>>, <<2, 1>>, <<>>},
     dyncs |-> {}]
Grouped ==
    [dcs   |-> << DC("weighted", Set(<<<<A("a", 1, <<1>>), A("b", 2, <<2>>)>>, <<A("c", 2, <<3>>)>>>>), None),
                  DC("static", Set(<<One("n", <<>>)>>), None) >>,
     lists |-> {<<1, 2>>},
     dyncs |-> {}]
Multi ==
    [dcs   |-> << DC("weighted", [Set(<<<<A("a", 1, <<1>>), A("b", 1, <<2>>)>>, <<A("c", 2, <<3>>)>>>>)
                                    EXCEPT !.multi = TRUE, !.thresh = <<9, 10>>], None),
                  DC("simplefo", None, Set(<<One("y", <<4>>), One("z", <<5>>)>>)) >>,
     lists |-> {<<1, 2>>},
     dyncs |-> {}]
Services ==
    [dcs   |-> << DC("multifo", [Set(<<One("a", <<1, 2>>), One("b", <<3, 4>>)>>) EXCEPT !.thresh = <<1, 1>>], None),
                  DC("multifo", Set(<<One("c", <<5>>)>>), None) >>,
     lists |-> {<<1, 2>>},
     dyncs |-> {}]
Weighted == [DC("weighted", Set(<<One("a", <<1>>)>>), None)
               EXCEPT !.cnames = <<[name |-> "x", weight |-> 1], [name |-> "y", weight |-> 2]>>]
Null == [DC("null", Set(<<One("0.0.0.0", <<>>)>>), Set(<<One("m", <<>>)>>))
           EXCEPT !.cnames = <<[name |-> "invalid", weight |-> 1]>>]
Names ==
    [dcs   |-> << Weighted, Name("cname", "direct"), Name("static", "s"), Null >>,
     lists |-> {},
     dyncs |-> {<<1, 2>>, <<2, 1>>, <<3>>}]
Client ==
    [dcs   |-> << DC("multifo", Set(<<One("a", <<1>>)>>), Set(<<One("x", <<2>>)>>)),
                  Reflected(""), Reflected("dns"), Reflected("edns"), Reflected("both"), Null >>,
     lists |-> {<<1, d, 6>> : d \in 2 .. 5} \cup {<<1, 6>>},
     dyncs |-> {}]
\* Refused: one address too many, no threshold, a group without addresses, a
\* DYNC of multifo or of reflect, a DYNA of a name, an unknown kind of response.
MCRefused ==
    {[Services EXCEPT !.dcs[2].v4 = Set(<<One("a", <<1>>), One("b", <<2>>), One("c", <<3>>), One("d", <<4>>)>>)],
     [Services EXCEPT !.dcs[2].v4.thresh = <<0, 1>>],
     [Grouped EXCEPT !.dcs[1].v4.items = @ \o <<<<>>>>],
     [Services EXCEPT !.dyncs = {<<1>>}],
     [Client EXCEPT !.dyncs = {<<2>>}],
     [Names EXCEPT !.lists = {<<1>>}],
     [Client EXCEPT !.dcs[2].resname = "worst"]}
MCResources == {Failover, Grouped, Multi, Services, Names, Client} \cup MCRefused
MCClients == {[src |-> "c", edns |-> "0.0.0.0"], [src |-> "x", edns |-> "c"],
              [src |-> "c", edns |-> "c"], [src |-> "z", edns |-> "0.0.0.0"]}

\* The hypotheses of the theorems of ResolversProofs hold of these resources.
ASSUME MCWellFormed ==
    \A x \in Resources :
       /\ WellFormed(x, {"p", "s", "a", "b", "c", "d", "n", "x", "y", "z", "m", "0.0.0.0"})
       /\ DistinctAddrs(x) /\ <<>> \notin x.dyncs
============================================================================
