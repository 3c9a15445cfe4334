------------------------------- MODULE NTree -------------------------------
(***************************************************************************)
(* The lookup tree of libgdmaps (gdmaps.c): lists of datacenters, the map  *)
(* from locations to lists, the translation of a GeoIP database to a tree  *)
(* over address bits, the overrides of the "nets" stanza, and lookups.     *)
(*                                                                         *)
(* An address is a sequence of bits, B4 or B6 of them instead of 32 and    *)
(* 128.  A database is a record whose nodes are numbered from 0; a child   *)
(* is the number of a node or, from Base on, a location.  Loops of the     *)
(* code are iterations of a step (Iterate), bounded by what they can do.   *)
(***************************************************************************)
EXTENDS Integers, Sequences, FiniteSets, SequencesExt

CONSTANTS B4, B6,       \* bits of an IPv4 and of an IPv6 address
          v4mapped,     \* the prefixes of B6 - B4 bits that hold IPv4 addresses ...
          v4compat,
          siit,
          teredo,       \* ... and those that hold them elsewhere
          sixto4,
          Base,         \* children from here on are locations
          Locations,    \* location number -> [cc, region, city, dist]
          NoneSuch      \* no value

Bit == {0, 1}
v4bits == B6 - B4
Addr(v6) == [1..(IF v6 THEN B6 ELSE B4) -> Bit]

ASSUME NTreeAssumption ==
    /\ B4 \in Nat \ {0} /\ B6 \in Nat /\ B6 > B4
    /\ \A p \in {v4mapped, v4compat, siit} : Len(p) = v4bits
    /\ Last(v4mapped) = 1 /\ Last(v4compat) = 0
    /\ Len(teredo) <= v4bits /\ Len(sixto4) <= v4bits

\* n times Op, starting from s.
Iterate(Op(_), s, n) ==
    LET f[i \in 0..n] == IF i = 0 THEN s ELSE Op(f[i - 1])
    IN  f[n]

-----------------------------------------------------------------------------
(* Datacenters and lists of datacenters.  A configuration names them; a    *)
(* list is a sequence of their numbers.                                    *)

name2num(conf, name) ==
    IF name \in ToSet(conf.names) THEN SelectInSeq(conf.names, LAMBDA x : x = name) ELSE 0

auto_limit(conf) ==
    LET n == Len(conf.names)
    IN  IF conf.limit = NoneSuch THEN (IF n > 3 THEN 3 ELSE n)
        ELSE IF conf.limit > n \/ conf.limit = 0 THEN n ELSE conf.limit

\* "auto" alone stands for -1 where it is allowed.
IsAuto(dcs, allow_auto) == allow_auto /\ dcs = <<"auto">>

xlate(conf, dcs) == [i \in DOMAIN dcs |-> name2num(conf, dcs[i])]

BadList(conf, dcs, allow_auto) ==
    ~IsAuto(dcs, allow_auto) /\ \E i \in DOMAIN dcs : name2num(conf, dcs[i]) = 0

\* Lists are numbered from 0 in the order in which they are first needed.
find_or_add_raw(lists, new) ==
    IF new \in ToSet(lists)
    THEN [lists |-> lists, idx |-> SelectInSeq(lists, LAMBDA l : l = new) - 1]
    ELSE [lists |-> Append(lists, new), idx |-> Len(lists)]

find_or_add_vscf(conf, lists, dcs, allow_auto) ==
    IF IsAuto(dcs, allow_auto) THEN [lists |-> lists, idx |-> -1]
    ELSE find_or_add_raw(lists, xlate(conf, dcs))

\* dclists_new: list 0 is the order of the configuration.
dclists_new(conf) == << [i \in DOMAIN conf.names |-> i] >>

\* One round of the insertion sort by distance.
InsertByDistance(dist, s, d) ==
    LET k == Cardinality({i \in DOMAIN s : dist[s[i]] <= dist[d]})
    IN  SubSeq(s, 1, k) \o <<d>> \o SubSeq(s, k + 1, Len(s))

\* The default list sorted by distance and cut; locations without coordinates
\* get the default.  It takes list 0 to name all datacenters.
city_auto_map(conf, lists, dist) ==
    IF dist = NoneSuch THEN [lists |-> lists, idx |-> 0]
    ELSE LET sorted == FoldLeft(LAMBDA s, d : InsertByDistance(dist, s, d), <<>>, lists[1])
         IN  find_or_add_raw(lists, SubSeq(sorted, 1, auto_limit(conf)))

-----------------------------------------------------------------------------
(* The map from locations to lists.  conf.map is the stanza as a sequence  *)
(* of its hashes and lists, in the order in which dcmap_new meets them; a  *)
(* dcmap gives each path of keys its default, skip_level or list.          *)

\* The default of a hash below the root: its own, else its parent's.
dcmap_default(conf, d, e) ==
    IF e.dcs # NoneSuch THEN find_or_add_vscf(conf, d.lists, e.dcs, conf.auto)
    ELSE [lists |-> d.lists, idx |-> d.def[Front(e.path)]]

\* The default of the root takes the place of list 0.
dcmap_root(conf, d, e) ==
    IF e.dcs = NoneSuch THEN [lists |-> d.lists, idx |-> IF conf.auto THEN -1 ELSE 0]
    ELSE IF IsAuto(e.dcs, conf.auto) THEN [lists |-> d.lists, idx |-> -1]
    ELSE [lists |-> [d.lists EXCEPT ![1] = xlate(conf, e.dcs)], idx |-> 0]

dcmap_entry(conf, d, e) ==
    LET r == IF ~e.hash THEN find_or_add_vscf(conf, d.lists, e.dcs, conf.auto)
             ELSE IF e.path = <<>> THEN dcmap_root(conf, d, e)
             ELSE dcmap_default(conf, d, e)
        Put(f, v) == [p \in DOMAIN f \cup {e.path} |-> IF p = e.path THEN v ELSE f[p]]
    IN  [d EXCEPT !.lists = r.lists,
                  !.def   = IF e.hash THEN Put(@, r.idx) ELSE @,
                  !.leaf  = IF e.hash THEN @ ELSE Put(@, r.idx),
                  !.skip  = IF e.skip THEN @ \cup {e.path} ELSE @]

dcmap_new(conf, lists) ==
    LET empty == [p \in {} |-> 0]
    IN  FoldLeft(LAMBDA d, e : dcmap_entry(conf, d, e),
                 [lists |-> lists, def |-> empty, leaf |-> empty, skip |-> {}], conf.map)

\* One level of the search: s.path is the hash, s.loc what is left of the
\* location; the level is skipped, or the key decides, or the default does.
dcmap_level(d, s) ==
    LET loc == IF s.loc # <<>> /\ s.path \in d.skip THEN Tail(s.loc) ELSE s.loc
        p   == IF loc = <<>> THEN s.path ELSE Append(s.path, Head(loc))
    IN  IF s.idx # NoneSuch THEN s
        ELSE IF loc # <<>> /\ p \in DOMAIN d.leaf THEN [s EXCEPT !.idx = <<d.leaf[p]>>]
        ELSE IF loc # <<>> /\ p \in DOMAIN d.def  THEN [s EXCEPT !.path = p, !.loc = Tail(loc)]
        ELSE [s EXCEPT !.idx = <<d.def[s.path]>>]

dcmap_lookup_loc(d, loc) ==
    Iterate(LAMBDA s : dcmap_level(d, s), [path |-> <<>>, loc |-> loc, idx |-> NoneSuch],
            Len(loc) + 1).idx[1]

\* The location string: a country database knows no region, a region database
\* those of a few countries, a city database both.  A region that is not named
\* counts as "--", a city that is not named is left out.
locstr(conf, type, l) ==
    LET reg  == CASE type = "country" -> <<>>
                  [] type = "region"  -> IF l.region = NoneSuch THEN <<>> ELSE <<l.region>>
                  [] type = "city"    -> IF conf.no_region \/ l = Locations[0] THEN <<>>
                                         ELSE <<IF l.region = NoneSuch THEN "--" ELSE l.region>>
        city == IF type # "city" \/ conf.no_city \/ l.city = NoneSuch THEN <<>> ELSE <<l.city>>
    IN  l.cc \o reg \o city

\* The list of a location; in city databases it may be a new one.
get_dclist(conf, dcmap, lists, type, l) ==
    LET idx == IF conf.map = <<>> THEN (IF conf.auto THEN -1 ELSE 0)
               ELSE dcmap_lookup_loc(dcmap, locstr(conf, type, l))
    IN  IF idx < 0 THEN city_auto_map(conf, lists, l.dist) ELSE [lists |-> lists, idx |-> idx]

-----------------------------------------------------------------------------
(* The tree: nodes numbered from 0.  A node that is not terminal has two   *)
(* children, 0 while they are missing; "zero" of a terminal is its list.   *)

Empty == [zero |-> 0, one |-> 0, term |-> FALSE]
Terminal(idx) == [zero |-> idx, one |-> 0, term |-> TRUE]

Count(store) == Cardinality(DOMAIN store)

ntree_new(ipv6, lists) ==
    [store |-> [i \in {0} |-> Empty], root4 |-> 0, ipv6 |-> ipv6, lists |-> lists]

add_node(store) ==
    [i \in 0..Count(store) |-> IF i < Count(store) THEN store[i] ELSE Empty]

Child(node, bit) == IF bit = 0 THEN node.zero ELSE node.one
SetChild(node, bit, n) == IF bit = 0 THEN [node EXCEPT !.zero = n] ELSE [node EXCEPT !.one = n]

-----------------------------------------------------------------------------
(* geoip_tree_xlate_v4 and _v6: a walk through the database, zero before   *)
(* one.  x.ip is the path taken, the depth of the code counted from above. *)

Mergeable(store, off, root4) ==
    /\ off > 1 /\ store[off - 2].one = off /\ off # root4 /\ store[off - 2].zero = off - 1
    /\ store[off - 1] = store[off]

\* Equal terminal siblings become one terminal; they are the last two nodes.
MergeStep(m, root4) ==
    IF ~Mergeable(m.store, m.off, root4) THEN m
    ELSE [off   |-> m.off - 2,
          store |-> [i \in 0..(Count(m.store) - 3) |->
                       IF i = m.off - 2 THEN m.store[m.off - 1] ELSE m.store[i]]]

Merge(store, off, root4) ==
    Iterate(LAMBDA m : MergeStep(m, root4), [store |-> store, off |-> off], B6).store

\* Take up the last one-child that was put off.
Resume(x, v6) ==
    LET top == Last(x.ones)
        new == Count(x.tree.store)
    IN  IF x.ones = <<>> THEN [x EXCEPT !.status = "done"]
        ELSE [x EXCEPT !.tree.store = [add_node(@) EXCEPT ![top.off].one = new],
                       !.tree.root4 = IF v6 /\ top.ip = v4mapped THEN new ELSE @,
                       !.ones = Front(@), !.off = new, !.offset = top.offset, !.ip = top.ip]

\* The node becomes a terminal with the list r.
Place(x, r) ==
    [x EXCEPT !.tree.lists = r.lists,
              !.tree.store = Merge([@ EXCEPT ![x.off] = Terminal(r.idx)], x.off, x.tree.root4)]

Leaf(conf, dcmap, db, x) ==
    Resume(Place(x, get_dclist(conf, dcmap, x.tree.lists, db.type, Locations[x.offset - Base])),
           db.ipv6)

\* What an IPv6 database says of spaces that are looked up as IPv4 is left out:
\* the mapped space if there is an overlay, the others in any case.
SkipOne(conf, v6, ip) == v6 /\ conf.v4o /\ Append(ip, 1) = v4mapped
SkipZero(v6, ip) == v6 /\ Append(ip, 0) \in {v4compat, sixto4}

Corrupt(db, x, bits) == Len(x.ip) = bits \/ x.offset \notin DOMAIN db.nodes

Inner(conf, db, x) ==
    LET v6  == db.ipv6
        new == Count(x.tree.store)
        rec == db.nodes[x.offset]
        one == [offset |-> rec[2], off |-> x.off, ip |-> Append(x.ip, 1)]
        s   == [add_node(x.tree.store) EXCEPT ![x.off].zero = new]
    IN  IF Corrupt(db, x, IF v6 THEN B6 ELSE B4) THEN [x EXCEPT !.status = "corrupt"]
        ELSE IF SkipZero(v6, x.ip)
        THEN [x EXCEPT !.tree.store = [add_node(s) EXCEPT ![new] = Terminal(0), ![x.off].one = new + 1],
                       !.off = new + 1, !.offset = rec[2], !.ip = Append(x.ip, 1)]
        ELSE [x EXCEPT !.tree.store = s, !.off = new, !.offset = rec[1], !.ip = Append(x.ip, 0),
                       !.ones = IF SkipOne(conf, v6, x.ip) THEN @ ELSE Append(@, one)]

XlateStep(conf, dcmap, db, x) ==
    IF x.status # "go" THEN x
    ELSE IF x.offset >= Base THEN Leaf(conf, dcmap, db, x) ELSE Inner(conf, db, x)

\* No walk takes more than 2^(bits + 1) steps: each is a node of the tree.  They
\* are taken in rounds of 2^(bits \div 2 + 1).
XlateRound(conf, dcmap, db, x, n) ==
    IF x.status # "go" THEN x ELSE Iterate(LAMBDA y : XlateStep(conf, dcmap, db, y), x, n)

tree_xlate_one(conf, dcmap, tree, db) ==
    LET n == 2^((IF db.ipv6 THEN B6 ELSE B4) \div 2 + 1)
    IN  Iterate(LAMBDA x : XlateRound(conf, dcmap, db, x, n),
                [tree |-> tree, ones |-> <<>>, off |-> tree.root4, offset |-> 0, ip |-> <<>>,
                 status |-> "go"], n)

-----------------------------------------------------------------------------
(* ntree_append_net                                                        *)

\* Make sure a child is there.  The mapped space is noted when its node appears.
NeedChild(a, v6, ip, k, bit) ==
    LET new == Count(a.store)
    IN  IF Child(a.store[a.off], bit) # 0 THEN a
        ELSE [a EXCEPT !.store = LET s == add_node(@) IN [s EXCEPT ![a.off] = SetChild(s[a.off], bit, new)],
                       !.root4 = IF v6 /\ bit = 1 /\ k = v4bits /\ IsPrefix(v4mapped, ip) THEN new ELSE @]

\* (Mutant) The other half of a terminal that is split gets the default list.
MutSplitOff(a, bit) ==
    [a EXCEPT !.store = [@ EXCEPT ![Child(@[a.off], 1 - bit)] = Terminal(0)]]

\* The half of a split terminal that we do not enter keeps its list.
SplitOff(a, bit) ==
    [a EXCEPT !.store = [@ EXCEPT ![Child(@[a.off], 1 - bit)] = Terminal(a.saved)]]

\* A terminal in the way is opened; from here on we are below it.
OpenTerminal(a) ==
    IF ~a.store[a.off].term THEN a
    ELSE [a EXCEPT !.under = TRUE, !.saved = a.store[a.off].zero, !.store = [@ EXCEPT ![a.off] = Empty]]

\* Below a former terminal both children are made.
MakeChildren(a, v6, ip, k) ==
    IF a.under THEN SplitOff(NeedChild(NeedChild(a, v6, ip, k, 0), v6, ip, k, 1), ip[k])
    ELSE NeedChild(a, v6, ip, k, ip[k])

Descend(a, bit) == [a EXCEPT !.k = @ + 1, !.off = Child(a.store[@], bit)]

AppendStep(a, v6, ip) == Descend(MakeChildren(OpenTerminal(a), v6, ip, a.k + 1), ip[a.k + 1])

AppendEnd(tree, a, idx) ==
    [tree EXCEPT !.store = [a.store EXCEPT ![a.off] = Terminal(idx)], !.root4 = a.root4]

append_net(tree, v6, ip, mask, idx) ==
    AppendEnd(tree,
              Iterate(LAMBDA s : AppendStep(s, v6, ip),
                      [store |-> tree.store, root4 |-> tree.root4, k |-> 0, under |-> FALSE,
                       saved |-> 0, off |-> IF v6 THEN 0 ELSE tree.root4], mask),
              idx)

\* An IPv6 tree without a node for the mapped space gets one, with the default
\* list, or empty if an overlay is to follow.
fixup_v4root(tree, v4o) ==
    LET pad == v4mapped \o [i \in 1..B4 |-> 0]
        Emptied(t) == [t EXCEPT !.store = [@ EXCEPT ![t.root4] = Empty]]
        Done(t)    == IF v4o THEN Emptied(t) ELSE t
    IN  IF tree.root4 # 0 THEN tree ELSE Done(append_net(tree, TRUE, pad, v4bits, 0))

\* What follows the translation x of an IPv6 database.
Overlaid(conf, dcmap, x, t, db_v4o) ==
    IF conf.v4o /\ x.status = "done" THEN tree_xlate_one(conf, dcmap, t, db_v4o)
    ELSE [x EXCEPT !.tree = t]

geoip_tree_xlate(conf, dcmap, tree, db, db_v4o) ==
    LET Next4(x) == IF ~db.ipv6 THEN x
                    ELSE Overlaid(conf, dcmap, x, fixup_v4root(x.tree, conf.v4o), db_v4o)
    IN  Next4(tree_xlate_one(conf, dcmap, tree, db))

-----------------------------------------------------------------------------
(* The nets stanza.  Related networks are one inside the other.            *)

Related(ip, mask, p) ==
    LET m == IF mask < Len(p) THEN mask ELSE Len(p) IN SubSeq(ip, 1, m) = SubSeq(p, 1, m)

BadNet(conf, n) ==
    \/ n.mask > (IF n.v6 THEN B6 ELSE B4)
    \/ n.v6 /\ \E p \in {v4mapped, v4compat, siit, teredo, sixto4} : Related(n.ip, n.mask, p)
    \/ BadList(conf, n.dcs, FALSE)

BitsLess(a, b) == \E i \in DOMAIN a : a[i] < b[i] /\ SubSeq(a, 1, i - 1) = SubSeq(b, 1, i - 1)

\* _net_sorter: IPv6 first, then the lowest address; the mask does not count.
NetLess(a, b) == IF a.v6 = b.v6 THEN BitsLess(a.ip, b.ip) ELSE a.v6

\* qsort() leaves equal elements in any order.
NetOrders(nets) ==
    {s \in SetToSeqs(ToSet(nets)) : \A i, j \in DOMAIN s : i < j => ~NetLess(s[j], s[i])}

nets_entry(conf, m, n) ==
    LET r == find_or_add_vscf(conf, m.lists, n.dcs, FALSE)
    IN  [lists |-> r.lists,
         nets  |-> Append(m.nets, [v6 |-> n.v6, ip |-> n.ip, mask |-> n.mask, idx |-> r.idx])]

nets_new(conf, lists) ==
    FoldLeft(LAMBDA m, n : nets_entry(conf, m, n), [lists |-> lists, nets |-> <<>>], conf.nets)

-----------------------------------------------------------------------------
(* gdmap_new: a configuration is refused, or gives one of these maps.      *)

BadKey(conf, e) ==
    LET depth == Len(e.path) + Cardinality({h \in ToSet(conf.map) :
                                  h.hash /\ h.skip /\ IsStrictPrefix(h.path, e.path)})
    IN  \/ depth = 1 /\ Last(e.path) \notin {Locations[l].cc[1] : l \in DOMAIN Locations}
        \/ depth = 2 /\ Last(e.path) \notin {Locations[l].cc[2] : l \in DOMAIN Locations}

BadEntry(conf, e) ==
    \/ e.path # <<>> /\ BadKey(conf, e)
    \/ e.dcs # NoneSuch /\ BadList(conf, e.dcs, conf.auto)

ConfigFatal(conf) ==
    \/ conf.names = <<>> \/ "auto" \in ToSet(conf.names)
    \/ \E i \in DOMAIN conf.map  : BadEntry(conf, conf.map[i])
    \/ \E i \in DOMAIN conf.nets : BadNet(conf, conf.nets[i])

gdmap_new(conf) ==
    LET d == IF conf.map = <<>> THEN [lists |-> dclists_new(conf)] ELSE dcmap_new(conf, dclists_new(conf))
        n == nets_new(conf, d.lists)
    IN  {[lists |-> n.lists, dcmap |-> d, nets |-> s] : s \in NetOrders(n.nets)}

\* ntree_apply_nets
apply_nets(tree, nets) ==
    FoldLeft(LAMBDA t, n : append_net(t, n.v6, n.ip, n.mask, n.idx), tree, nets)

\* geoip_db_open and the tests of gdmap_make_tree.
Opens(conf, db) ==
    /\ db # NoneSuch /\ db.type \in {"country", "region", "city"}
    /\ conf.auto => db.type = "city"

Usable(conf, db, db_v4o) ==
    /\ Opens(conf, db)
    /\ conf.v4o => db.ipv6 /\ Opens(conf, db_v4o) /\ ~db_v4o.ipv6

\* The new tree, or none.
gdmap_make_tree(conf, map, lists, db, db_v4o) ==
    LET Finish(x) ==
            IF x.status = "corrupt" \/ (~db.ipv6 /\ \E i \in DOMAIN map.nets : map.nets[i].v6)
            THEN [ok |-> FALSE, lists |-> x.tree.lists]
            ELSE [ok |-> TRUE, tree |-> apply_nets(x.tree, map.nets), lists |-> x.tree.lists]
    IN  IF ~Usable(conf, db, db_v4o) THEN [ok |-> FALSE, lists |-> lists]
        ELSE Finish(geoip_tree_xlate(conf, map.dcmap, ntree_new(db.ipv6, lists), db, db_v4o))

-----------------------------------------------------------------------------
(* Lookups: the list and the length of the network it is good for.         *)

\* A walk that would leave the tree stays where it is.
WalkStep(tree, w, ip) ==
    LET node == tree.store[w.off]
        next == Child(node, ip[w.mask + 1])
    IN  IF node.term THEN w
        ELSE IF w.mask = Len(ip) \/ node.zero = 0 \/ node.one = 0 \/ next \notin DOMAIN tree.store
        THEN [w EXCEPT !.off = 0, !.bad = TRUE]
        ELSE [w EXCEPT !.off = next, !.mask = @ + 1]

Walk(tree, root, ip) ==
    LET w == Iterate(LAMBDA s : WalkStep(tree, s, ip), [off |-> root, mask |-> 0, bad |-> FALSE],
                     Len(ip) + 1)
    IN  IF w.bad \/ ~tree.store[w.off].term THEN NoneSuch
        ELSE [idx |-> tree.store[w.off].zero, mask |-> w.mask]

lookup_v4(tree, ip) == Walk(tree, tree.root4, ip)
lookup_v6(tree, ip) == Walk(tree, 0, ip)

\* The IPv4 address in an IPv6 address, and what to add to its masks.
v6_v4compat(ip) ==
    LET tail == SubSeq(ip, v4bits + 1, B6)
    IN  CASE \E p \in {v4compat, v4mapped, siit} : IsPrefix(p, ip) -> [adj |-> v4bits, ip |-> tail]
          [] IsPrefix(teredo, ip) -> [adj |-> v4bits, ip |-> [i \in 1..B4 |-> 1 - tail[i]]]
          [] IsPrefix(sixto4, ip) -> [adj |-> Len(sixto4),
                                      ip  |-> SubSeq(ip, Len(sixto4) + 1, Len(sixto4) + B4)]
          [] OTHER -> [adj |-> 0, ip |-> <<>>]

\* (Mutant) The mask of the IPv4 lookup is reported for an IPv6 address.
MutAdjusted(r, adj) == r

Adjusted(r, adj) == IF r = NoneSuch THEN r ELSE [r EXCEPT !.mask = @ + adj]

\* One address; "none" if it is IPv6 and the tree is not.
LookupAddr(tree, ip) ==
    LET c == v6_v4compat(ip)
    IN  IF Len(ip) = B4 THEN lookup_v4(tree, ip)
        ELSE IF c.adj # 0 THEN Adjusted(lookup_v4(tree, c.ip), c.adj)
        ELSE IF tree.ipv6 THEN lookup_v6(tree, ip)
        ELSE [idx |-> -1, mask |-> 0]

\* The client's own subnet is tried first if the query has one, the source of the
\* query otherwise, whose lookups report no scope.
ntree_lookup(tree, client) ==
    LET e == LookupAddr(tree, client.edns)
        s == LookupAddr(tree, client.src)
        Scopeless(r) == IF r = NoneSuch THEN r
                        ELSE [idx  |-> IF r.idx < 0 THEN 0 ELSE r.idx,
                              mask |-> IF client.edns = NoneSuch THEN 0 ELSE Len(client.edns)]
    IN  IF client.edns # NoneSuch /\ (e = NoneSuch \/ e.idx >= 0) THEN e ELSE Scopeless(s)

-----------------------------------------------------------------------------
(* What a lookup should find, without a tree.                              *)

Inside(n, ip) == (n.v6 <=> Len(ip) = B6) /\ SubSeq(n.ip, 1, n.mask) = SubSeq(ip, 1, n.mask)

\* Where a database puts an address, and after how many bits.
DbStep(db, s, ip) ==
    IF s.offset >= Base THEN s ELSE [offset |-> db.nodes[s.offset][1 + ip[s.k + 1]], k |-> s.k + 1]
DbFind(db, ip) == Iterate(LAMBDA s : DbStep(db, s, ip), [offset |-> 0, k |-> 0], Len(ip))

\* The default list, and the list of the nearest datacenters.
RefDefault(conf) ==
    IF conf.map = <<>> \/ conf.map[1].dcs = NoneSuch \/ IsAuto(conf.map[1].dcs, conf.auto)
    THEN [i \in DOMAIN conf.names |-> i] ELSE xlate(conf, conf.map[1].dcs)

RefNearest(conf, dist) ==
    LET all == RefDefault(conf)
        Rank(i) == Cardinality({j \in DOMAIN all : \/ dist[all[j]] < dist[all[i]]
                                                   \/ dist[all[j]] = dist[all[i]] /\ j <= i})
    IN  IF dist = NoneSuch THEN all
        ELSE [k \in 1..auto_limit(conf) |-> all[CHOOSE i \in DOMAIN all : Rank(i) = k]]

\* A path of the map agrees with a location; a skipped level agrees with anything.
Agrees(conf, path, loc) ==
    \A i \in DOMAIN path :
        LET at == i + Cardinality({h \in ToSet(conf.map) :
                        h.skip /\ Len(h.path) < i /\ IsPrefix(h.path, path)})
        IN  at <= Len(loc) /\ loc[at] = path[i]

\* The list of a location: the longest path of the map that agrees and has one.
RefList(conf, db, ip) ==
    LET l     == Locations[DbFind(db, ip).offset - Base]
        loc   == locstr(conf, db.type, l)
        given == {e \in ToSet(conf.map) : e.dcs # NoneSuch /\ Agrees(conf, e.path, loc)}
        best  == CHOOSE e \in given : \A f \in given : Len(f.path) <= Len(e.path)
    IN  IF given = {} THEN (IF conf.auto THEN RefNearest(conf, l.dist) ELSE RefDefault(conf))
        ELSE IF IsAuto(best.dcs, conf.auto) THEN RefNearest(conf, l.dist)
        ELSE xlate(conf, best.dcs)

\* The list of an address: that of the smallest network of nets around it; else
\* the list of its location.  IPv4 addresses are those of the overlay, of the
\* database, or of the mapped space of an IPv6 database, if it has one.
RefLookup(conf, db, db_v4o, ip) ==
    LET around == {n \in ToSet(conf.nets) : Inside(n, ip)}
        best   == CHOOSE n \in around : \A m \in around : m.mask <= n.mask
    IN  IF around # {} THEN xlate(conf, best.dcs)
        ELSE IF (Len(ip) = B6) = db.ipv6 THEN RefList(conf, db, ip)
        ELSE IF conf.v4o THEN RefList(conf, db_v4o, ip)
        ELSE IF DbFind(db, v4mapped \o ip).k < v4bits THEN RefDefault(conf)
        ELSE RefList(conf, db, v4mapped \o ip)
=============================================================================
