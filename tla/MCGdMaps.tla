------------------------------ MODULE MCGdMaps ------------------------------
(* IPv4 addresses of 2 bits in IPv6 addresses of 6; three datacenters; four *)
(* locations; databases that end above, at and below the IPv4-mapped space, *)
(* with equal neighbours to merge, and corrupt ones.                        *)
EXTENDS GdMaps

CONSTANT none

MCmapped == <<0, 0, 1, 1>>
MCcompat == <<0, 0, 0, 0>>
MCsiit   == <<0, 1, 1, 0>>
MCteredo == <<1, 0, 0>>
MC6to4   == <<1, 1, 0>>

MCLocations ==
    [l \in 0..3 |->
       CASE l = 0 -> [cc |-> <<"--", "--">>, region |-> none, city |-> none, dist |-> none]
         [] l = 1 -> [cc |-> <<"NA", "US">>, region |-> "TX", city |-> "Dallas", dist |-> <<1, 3, 2>>]
         [] l = 2 -> [cc |-> <<"EU", "DE">>, region |-> none, city |-> "Bonn", dist |-> <<3, 1, 1>>]
         [] l = 3 -> [cc |-> <<"EU", "FR">>, region |-> "A8", city |-> none, dist |-> <<2, 2, 1>>]]

L(l) == Base + l

\* IPv4: all of it merges; a split; a cycle; a node that is not there.
Same4   == <<<<1, 1>>, <<L(2), L(2)>>>>
Split4  == <<<<1, L(1)>>, <<L(2), L(3)>>>>
Cycle4  == <<<<L(3), 0>>>>
Few4    == <<<<L(3), L(3)>>>>
Short4  == <<<<L(3), 7>>>>

\* IPv6: ends above the mapped space; reaches it and splits it; reaches it as a
\* terminal, next to an equal sibling.
High6   == <<<<L(2), 1>>, <<2, L(1)>>, <<L(3), L(3)>>>>
Deep6   == <<<<1, L(1)>>, <<2, L(3)>>, <<3, 4>>, <<L(2), L(2)>>, <<L(2), 5>>, <<6, L(3)>>, <<L(1), L(1)>>>>
Even6   == <<<<1, 5>>, <<2, L(2)>>, <<3, 4>>, <<L(1), L(2)>>, <<L(2), L(2)>>, <<L(3), 6>>, <<7, L(3)>>, <<L(1), L(3)>>>>

Few6    == <<<<L(3), L(3)>>>>

\* Node numbers start at 0.
Db(type, ipv6, nodes) ==
    [type |-> type, ipv6 |-> ipv6, nodes |-> [i \in 0..(Len(nodes) - 1) |-> nodes[i + 1]]]

MCContents ==
    [f \in File |->
       IF f = "db" THEN {Db("country", FALSE, Split4), Db("region", FALSE, Same4), Db("city", TRUE, High6),
                         Db("city", TRUE, Deep6), Db("city", TRUE, Even6), Db("city", TRUE, Few6),
                         Db("city", FALSE, Cycle4)}
       ELSE {Db("city", FALSE, Split4), Db("city", FALSE, Few4), Db("city", FALSE, Short4)}]

MCUpdates ==
    [f \in File |->
       IF f = "db" THEN {Db("city", TRUE, Even6), Db("city", FALSE, Cycle4)} ELSE {Db("city", FALSE, Split4), Db("city", FALSE, Short4)}]

Hash(path, dcs) == [path |-> path, hash |-> TRUE, skip |-> FALSE, dcs |-> dcs]
List(path, dcs) == [path |-> path, hash |-> FALSE, skip |-> FALSE, dcs |-> dcs]
Net(v6, ip, mask, dcs) == [v6 |-> v6, ip |-> ip, mask |-> mask, dcs |-> dcs]

Plain ==
    [names |-> <<"A", "B", "C">>, limit |-> none, auto |-> FALSE, map |-> <<>>, nets |-> <<>>,
     v4o |-> FALSE, no_region |-> FALSE, no_city |-> FALSE, rebased |-> TRUE]

ByMap == [Plain EXCEPT !.map = << Hash(<<>>, <<"B", "A">>), List(<<"NA">>, <<"C">>),
                                  Hash(<<"EU">>, <<"A", "C">>), Hash(<<"EU", "FR">>, none),
                                  List(<<"EU", "FR", "A8">>, <<"B">>) >>,
                       !.nets = << Net(FALSE, <<0, 1>>, 2, <<"C", "B">>),
                                   Net(TRUE, <<0, 1, 0, 0, 0, 0>>, 3, <<"C">>),
                                   Net(TRUE, <<0, 1, 0, 0, 1, 1>>, 6, <<"A">>) >>]

Skipping == [Plain EXCEPT !.map = << [Hash(<<>>, none) EXCEPT !.skip = TRUE], List(<<"DE">>, <<"B">>),
                                     Hash(<<"US">>, <<"C">>), List(<<"US", "TX">>, <<"A">>) >>,
                          !.nets = << Net(FALSE, <<1, 0>>, 1, <<"B", "C">>) >>, !.rebased = FALSE]

Nearest == [Plain EXCEPT !.auto = TRUE, !.limit = 2, !.v4o = TRUE,
                         !.map = << Hash(<<>>, none), Hash(<<"EU">>, none), List(<<"EU", "FR">>, <<"C">>),
                                    Hash(<<"NA">>, <<"auto">>) >>,
                         !.nets = << Net(TRUE, <<1, 1, 1, 0, 0, 0>>, 4, <<"B">>) >>]

Refused == { [Plain EXCEPT !.nets = << Net(TRUE, <<1, 0, 0, 0, 0, 0>>, 2, <<"A">>) >>],
             [Plain EXCEPT !.map = << Hash(<<>>, none), List(<<"XX">>, <<"A">>) >>] }

MCConfigs == {ByMap, Skipping, Nearest} \cup Refused

\* One network inside another with the same network number.
NestedNets == {[Plain EXCEPT !.nets = << Net(FALSE, <<0, 0>>, 1, <<"B">>), Net(FALSE, <<0, 0>>, 2, <<"C">>) >>]}

MCClients == {[src |-> <<1, 0>>, edns |-> <<0, 1, 0, 0, 1, 1>>]}

\* The first build of every map, and a later one that starts with a list more.
LaterLists(m) == {m.lists} \cup {Append(m.lists, x) : x \in {<<3>>, <<2, 3, 1>>}}

ASSUME BuildsSound ==
    \A c \in {x \in Configs : ~ConfigFatal(x)} : \A m \in gdmap_new(c) :
        \A l \in LaterLists(m), d \in Databases("db"), o \in Databases("v4o") :
            /\ gdmap_make_tree(c, m, l, d, o).lists \in Seq(Seq(1..3))
            /\ BuildSound(c, m, l, d, o)
=============================================================================
