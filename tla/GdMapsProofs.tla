---------------------------- MODULE GdMapsProofs ----------------------------
(***************************************************************************)
(* Proofs about the reload protocol of libgdmaps, for any configurations,  *)
(* databases, clients and number of I/O threads, and any number of changes *)
(* of the files.                                                           *)
(*                                                                         *)
(* What a single build does to its array of lists is a hypothesis          *)
(* (TreesSound): it is the result of folds over a database.  TLC evaluates *)
(* it for the maps and databases of MCGdMaps (BuildsSound there).          *)
(*                                                                         *)
(* Neither property is inductive.  A list must stay what it was while some *)
(* thread uses it after the lock is free, so no step may change or free an *)
(* allocated list (ListsStay); that a failed build frees exactly what it   *)
(* has added needs the addresses behind an array, which are those of its   *)
(* indexes (Ident); that the array of every tree is a prefix of the newest *)
(* one (TreeOk) makes the lists of both trees the allocated ones; and a    *)
(* thread under the lock has the current tree, because the swap waits for  *)
(* the lock to be free (ReaderOk).                                         *)
(***************************************************************************)
EXTENDS GdMaps, SequenceTheorems, TLAPS

List == Seq(Nat)

\* Every build from lists that start with those of the map yields lists again, only
\* adds to them, and if there is a tree, every client finds one of them in it.
TreesSound ==
    \A c \in Configs : ~ConfigFatal(c) => \A m \in gdmap_new(c) :
        /\ m.lists \in Seq(List)
        /\ \A l \in Seq(List), d \in Databases("db"), o \in Databases("v4o") :
             IsPrefix(m.lists, l) =>
                /\ gdmap_make_tree(c, m, l, d, o).lists \in Seq(List)
                /\ BuildSound(c, m, l, d, o)

-----------------------------------------------------------------------------
(* Memory.                                                                 *)

Ident(p) == p \in Seq(Nat) /\ \A i \in 1..Len(p) : p[i] = i

LEMMA MaxInterval == ASSUME NEW k \in Nat PROVE Max({0} \cup (1..k)) = k
<1>1. k \in {0} \cup (1..k) OBVIOUS
<1>2. \A y \in {0} \cup (1..k) : k >= y OBVIOUS
<1> QED BY <1>1, <1>2 DEF Max

LEMMA MaxOne == ASSUME NEW k \in Nat PROVE Max({0} \cup {k}) = k
<1>1. k \in {0} \cup {k} OBVIOUS
<1>2. \A y \in {0} \cup {k} : k >= y OBVIOUS
<1> QED BY <1>1, <1>2 DEF Max

LEMMA FreshAddrs ==
  ASSUME NEW f, NEW k \in Nat, DOMAIN f = 1..k, NEW n \in Nat
  PROVE  /\ Fresh(f, n) \in Seq(Nat) /\ Len(Fresh(f, n)) = n
         /\ \A i \in 1..n : Fresh(f, n)[i] = k + i
<1>1. Fresh(f, n) = [i \in 1..n |-> k + i] BY MaxInterval DEF Fresh
<1> QED BY <1>1

LEMMA AllocatedLists ==
  ASSUME NEW f, NEW k \in Nat, DOMAIN f = 1..k, NEW n \in Nat, NEW vals
  PROVE  /\ DOMAIN Allocated(f, Fresh(f, n), vals) = 1..(k + n)
         /\ \A a \in 1..k : Allocated(f, Fresh(f, n), vals)[a] = f[a]
         /\ \A i \in 1..n : Allocated(f, Fresh(f, n), vals)[k + i] = vals[i]
<1>1. ToSet(Fresh(f, n)) = (k + 1)..(k + n)
  <2>1. DOMAIN Fresh(f, n) = 1..n BY DEF Fresh
  <2>2. \A i \in 1..n : Fresh(f, n)[i] = k + i BY FreshAddrs
  <2>3. \A a \in (k + 1)..(k + n) : a - k \in 1..n /\ k + (a - k) = a OBVIOUS
  <2>4. \A a \in (k + 1)..(k + n) : a \in ToSet(Fresh(f, n))
    BY <2>1, <2>2, <2>3 DEF ToSet
  <2>5. \A a \in ToSet(Fresh(f, n)) : a \in (k + 1)..(k + n)
    BY <2>1, <2>2 DEF ToSet
  <2> QED BY <2>4, <2>5
<1>2. Max({0} \cup DOMAIN f) = k BY MaxInterval
<1>3. (1..k) \cup ((k + 1)..(k + n)) = 1..(k + n) OBVIOUS
<1>4. Allocated(f, Fresh(f, n), vals) =
         [a \in 1..(k + n) |-> IF a \in 1..k THEN f[a] ELSE vals[a - k]]
  BY <1>1, <1>2, <1>3 DEF Allocated
<1>5. \A i \in 1..n : k + i \in 1..(k + n) /\ k + i \notin 1..k /\ (k + i) - k = i OBVIOUS
<1>6. \A a \in 1..k : a \in 1..(k + n) OBVIOUS
<1> QED BY <1>4, <1>5, <1>6

LEMMA ExtendedIdent ==
  ASSUME NEW p, Ident(p), DOMAIN mem = 1..Len(p), NEW l \in Seq(List), Len(p) <= Len(l)
  PROVE  /\ Ident(Extended(p, l)) /\ Len(Extended(p, l)) = Len(l)
         /\ DOMAIN WithAdded(p, l) = 1..Len(l)
         /\ \A a \in 1..Len(p) : WithAdded(p, l)[a] = mem[a]
         /\ \A a \in (Len(p) + 1)..Len(l) : WithAdded(p, l)[a] = l[a]
<1> DEFINE k == Len(p)
           n == Len(l) - k
           q == Fresh(mem, n)
<1>1. k \in Nat /\ n \in Nat /\ Len(l) = k + n /\ p \in Seq(Nat)
      /\ \A i \in 1..k : p[i] = i
  BY DEF Ident
<1>2. q \in Seq(Nat) /\ Len(q) = n /\ \A i \in 1..n : q[i] = k + i
  <2>1. DOMAIN mem = 1..k /\ k \in Nat /\ n \in Nat BY <1>1
  <2> HIDE DEF k, n, q
  <2>2. /\ Fresh(mem, n) \in Seq(Nat) /\ Len(Fresh(mem, n)) = n
        /\ \A i \in 1..n : Fresh(mem, n)[i] = k + i
    BY ONLY <2>1, FreshAddrs
  <2> QED BY <2>2 DEF q
<1>3. Ident(p \o q) /\ Len(p \o q) = k + n
  <2> HIDE DEF q, k, n
  <2>1. p \o q \in Seq(Nat) /\ Len(p \o q) = k + n BY <1>1, <1>2 DEF k
  <2>2. ASSUME NEW i \in 1..(k + n) PROVE (p \o q)[i] = i
    <3>1. (p \o q)[i] = IF i <= k THEN p[i] ELSE q[i - k] BY <1>1, <1>2 DEF k
    <3> QED BY <3>1, <1>1, <1>2
  <2> QED BY <2>1, <2>2 DEF Ident
<1>4. Added(p, l) = SubSeq(l, k + 1, Len(l)) BY DEF Added
<1>5. \A i \in 1..n : Added(p, l)[i] = l[k + i]
  <2>1. \A i \in (k + 1)..Len(l) : l[i] \in List BY <1>1
  <2>2. \A i \in 1..(Len(l) - (k + 1) + 1) : SubSeq(l, k + 1, Len(l))[i] = l[k + 1 + i - 1]
    BY <1>1, <2>1, SubSeqProperties
  <2> QED BY <1>1, <1>4, <2>2
<1>6. WithAdded(p, l) = Allocated(mem, q, Added(p, l)) BY DEF WithAdded
<1>7. /\ DOMAIN WithAdded(p, l) = 1..(k + n)
      /\ \A a \in 1..k : WithAdded(p, l)[a] = mem[a]
      /\ \A i \in 1..n : WithAdded(p, l)[k + i] = Added(p, l)[i]
  BY <1>1, <1>6, AllocatedLists
<1>8. \A a \in (k + 1)..Len(l) : a - k \in 1..n /\ k + (a - k) = a BY <1>1
<1>9. \A a \in (k + 1)..Len(l) : WithAdded(p, l)[a] = l[a]
  BY <1>5, <1>7, <1>8
<1> QED BY <1>1, <1>3, <1>7, <1>9 DEF Extended

LEMMA PrefixOf ==
  ASSUME NEW S, NEW s \in Seq(S), NEW t \in Seq(S), Len(s) <= Len(t),
         \A i \in 1..Len(s) : s[i] = t[i]
  PROVE  IsPrefix(s, t)
<1>1. SubSeq(s, 1, Len(s)) = s BY SubSeqFull
<1>2. /\ SubSeq(t, 1, Len(s)) \in Seq(S) /\ Len(SubSeq(t, 1, Len(s))) = Len(s)
      /\ \A i \in 1..Len(s) : SubSeq(t, 1, Len(s))[i] = t[i]
  <2>1. \A i \in 1..Len(s) : t[i] \in S OBVIOUS
  <2> QED BY <2>1, SubSeqProperties
<1>3. SubSeq(t, 1, Len(s)) = s BY <1>2, SeqEqual
<1> QED BY <1>1, <1>3 DEF IsPrefix

-----------------------------------------------------------------------------
(* The invariant of the daemon's startup and of the reload thread.         *)

Basics ==
    /\ conf \in Configs
    /\ DOMAIN file = File /\ \A f \in File : file[f].db \in Databases(f)
    /\ main \in {"config", "load", "paths", "run", "fixed", "fatal"}
    /\ rt \in {"none", "loop", "built", "wait", "destroy", "ended"}
    /\ rt # "none" => main = "run"
    /\ cur \in Nat /\ new \in [old : Nat, new : Nat]
    /\ main \in {"load", "paths", "run", "fixed"} =>
         ~ConfigFatal(conf) /\ map \in gdmap_new(conf)

Loaded == main \in {"paths", "run", "fixed"}
TwoTrees == rt \in {"built", "wait", "destroy"}

\* The tree with the longest array of lists.
Newest == IF TwoTrees THEN new.new ELSE cur

\* The lists of the map have the first addresses.
MapLists ==
    /\ Len(map.lists) \in Nat
    /\ \A i \in 1..Len(map.lists) : i \in DOMAIN mem /\ mem[i] = map.lists[i]

\* Before the first load.
Before ==
    /\ ~Loaded => DOMAIN trees = {}
    /\ main = "config" => DOMAIN mem = {} /\ init_ptr = <<>>
    /\ main = "fatal" => DOMAIN mem = ToSet(init_ptr)
    /\ main = "load" =>
         /\ Ident(init_ptr) /\ Len(init_ptr) = Len(map.lists)
         /\ DOMAIN mem = 1..Len(init_ptr) /\ MapLists

\* A tree answers every client, and its array is a prefix of the newest one.
TreeOk(t) ==
    /\ Ident(trees[t].ptr)
    /\ Len(map.lists) <= Len(trees[t].ptr) /\ Len(trees[t].ptr) <= Len(trees[Newest].ptr)
    /\ \A client \in Clients :
         /\ ntree_lookup(trees[t].tree, client) # NoneSuch
         /\ ntree_lookup(trees[t].tree, client).idx \in 0..(Len(trees[t].ptr) - 1)

\* From the first load on: one tree, or the old and the new one.
Afterwards ==
    Loaded =>
      /\ init_ptr = <<>> /\ MapLists
      /\ DOMAIN trees = IF TwoTrees THEN {new.old, new.new} ELSE {cur}
      /\ TwoTrees => new.old # new.new
      /\ rt \in {"built", "wait"} => cur = new.old
      /\ rt = "destroy" => cur = new.new
      /\ \A t \in DOMAIN trees : TreeOk(t)
      /\ DOMAIN mem = 1..Len(trees[Newest].ptr)

Memory ==
    /\ \A a \in DOMAIN mem : mem[a] \in List
    /\ Before /\ Afterwards

\* No step touches a list that is allocated.
ListsStay == \A a \in DOMAIN mem : a \in DOMAIN mem' /\ mem'[a] = mem[a]

LEMMA BasicsInit == Init => Basics /\ Memory
<1> SUFFICES ASSUME Init PROVE Basics /\ Memory OBVIOUS
<1>1. Basics
  <2>1. \A f \in File : file[f].db \in Contents[f] BY DEF Init
  <2> QED BY <2>1 DEF Init, Basics, Databases, NoTree
<1>2. Memory
  BY DEF Init, Memory, Before, Afterwards, Loaded
<1> QED BY <1>1, <1>2

\* A build from the lists of an array that starts with the map's.
LEMMA BuildFrom ==
  ASSUME TreesSound, Basics, main \in {"load", "paths", "run", "fixed"}, MapLists,
         \A a \in DOMAIN mem : mem[a] \in List,
         NEW p, Ident(p), Len(map.lists) <= Len(p), DOMAIN mem = 1..Len(p)
  PROVE  LET t == make_tree(Lists(p))
         IN  /\ t.lists \in Seq(List) /\ Len(p) <= Len(t.lists)
             /\ t.ok => \A client \in Clients :
                  /\ ntree_lookup(t.tree, client) # NoneSuch
                  /\ ntree_lookup(t.tree, client).idx \in 0..(Len(t.lists) - 1)
<1> DEFINE d == content["db"]
           o == IF conf.v4o THEN content["v4o"] ELSE NoneSuch
<1>1. d \in Databases("db") BY DEF Basics, content, watched, File
<1>2. o \in Databases("v4o") BY DEF Basics, content, watched, File, Databases
<1>3. /\ Lists(p) \in Seq(List) /\ Len(Lists(p)) = Len(p)
      /\ \A i \in 1..Len(p) : Lists(p)[i] = mem[i]
  BY DEF Ident, Lists
<1>4. map.lists \in Seq(List) BY DEF Basics, TreesSound
<1>5. IsPrefix(map.lists, Lists(p)) BY <1>3, <1>4, PrefixOf DEF MapLists
<1> HIDE DEF d, o
<1>6. /\ gdmap_make_tree(conf, map, Lists(p), d, o).lists \in Seq(List)
      /\ BuildSound(conf, map, Lists(p), d, o)
  BY <1>1, <1>2, <1>3, <1>5 DEF Basics, TreesSound
<1>7. make_tree(Lists(p)) = gdmap_make_tree(conf, map, Lists(p), d, o) BY DEF make_tree, d, o
<1>8. Len(p) <= Len(gdmap_make_tree(conf, map, Lists(p), d, o).lists)
  BY <1>3, <1>6 DEF BuildSound, IsPrefix
<1> QED BY <1>6, <1>7, <1>8 DEF BuildSound

LEMMA ConfigureStep ==
  ASSUME TreesSound, Basics, Memory, Configure
  PROVE  Basics' /\ Memory' /\ ListsStay
<1>1. /\ main = "config" /\ rt = "none" /\ DOMAIN mem = {} /\ init_ptr = <<>> /\ DOMAIN trees = {}
      /\ UNCHANGED <<conf, file, trees, cur, rt, new>>
  BY DEF Basics, Memory, Before, Loaded, Configure
<1>2. ListsStay BY <1>1 DEF ListsStay
<1>3. CASE ConfigFatal(conf)
  <2>1. main' = "fatal" /\ UNCHANGED <<map, mem, init_ptr>> BY <1>3 DEF Configure
  <2>2. ToSet(init_ptr) = {} BY <1>1 DEF ToSet
  <2> QED BY <1>1, <1>2, <2>1, <2>2 DEF Basics, Memory, Before, Afterwards, Loaded
<1>4. CASE ~ConfigFatal(conf)
  <2>1. PICK m \in gdmap_new(conf) :
          /\ map' = m /\ main' = "load"
          /\ init_ptr' = Fresh(mem, Len(m.lists))
          /\ mem' = Allocated(mem, Fresh(mem, Len(m.lists)), m.lists)
    BY <1>4 DEF Configure
  <2>2. m.lists \in Seq(List) /\ Len(m.lists) \in Nat BY <1>4 DEF TreesSound, Basics
  <2>3. DOMAIN mem = 1..0 BY <1>1
  <2>4. Ident(init_ptr') /\ Len(init_ptr') = Len(m.lists)
    <3> DEFINE n == Len(m.lists)
    <3>1. n \in Nat BY <2>2
    <3> HIDE DEF n
    <3>2. /\ Fresh(mem, n) \in Seq(Nat) /\ Len(Fresh(mem, n)) = n
          /\ \A i \in 1..n : Fresh(mem, n)[i] = 0 + i
      BY <2>3, <3>1, FreshAddrs
    <3>3. init_ptr' = Fresh(mem, n) BY <2>1 DEF n
    <3> QED BY <3>2, <3>3 DEF Ident, n
  <2>5. DOMAIN mem' = 1..Len(m.lists) /\ \A i \in 1..Len(m.lists) : mem'[i] = m.lists[i]
    BY <2>1, <2>2, <2>3, AllocatedLists
  <2>6. \A a \in DOMAIN mem' : mem'[a] \in List BY <2>2, <2>5
  <2>7. MapLists' BY <2>1, <2>2, <2>5 DEF MapLists
  <2>8. Basics' BY <1>1, <1>4, <2>1 DEF Basics
  <2>9. Memory' BY <1>1, <2>1, <2>4, <2>5, <2>6, <2>7 DEF Memory, Before, Afterwards, Loaded
  <2> QED BY <1>2, <2>8, <2>9
<1> QED BY <1>3, <1>4

LEMMA LoadStep ==
  ASSUME TreesSound, Basics, Memory, LoadGeoip
  PROVE  Basics' /\ Memory' /\ ListsStay
<1> DEFINE t == make_tree(Lists(init_ptr))
<1>1. /\ main = "load" /\ rt = "none" /\ UNCHANGED <<conf, map, file, rt, new>>
      /\ IF ~t.ok
         THEN main' = "fatal" /\ UNCHANGED <<init_ptr, treeVars>>
         ELSE /\ trees' = Planted([tree |-> t.tree, ptr |-> Extended(init_ptr, t.lists), from |-> content])
              /\ mem' = dclists_destroy(WithAdded(init_ptr, t.lists), init_ptr, 0, "KILL_NO_LISTS")
              /\ cur' = Fresh(trees, 1)[1] /\ init_ptr' = <<>> /\ main' = "paths"
  BY DEF LoadGeoip, Basics
<1>2. /\ DOMAIN trees = {} /\ Ident(init_ptr) /\ Len(init_ptr) = Len(map.lists)
      /\ DOMAIN mem = 1..Len(init_ptr) /\ MapLists
      /\ \A a \in DOMAIN mem : mem[a] \in List
  BY <1>1 DEF Memory, Before, Loaded
<1>3. /\ t.lists \in Seq(List) /\ Len(init_ptr) <= Len(t.lists)
      /\ t.ok => \A client \in Clients :
           /\ ntree_lookup(t.tree, client) # NoneSuch
           /\ ntree_lookup(t.tree, client).idx \in 0..(Len(t.lists) - 1)
  BY <1>1, <1>2, BuildFrom DEF Ident
<1> HIDE DEF t
<1>4. CASE ~t.ok
  <2>1. ToSet(init_ptr) = 1..Len(init_ptr) BY <1>2 DEF ToSet, Ident
  <2>2. main' = "fatal" /\ UNCHANGED <<init_ptr, mem, trees, cur>> BY <1>1, <1>4 DEF treeVars
  <2>3. Basics' BY <1>1, <2>2 DEF Basics
  <2>4. Memory' BY <1>2, <2>1, <2>2 DEF Memory, Before, Afterwards, Loaded
  <2> QED BY <2>2, <2>3, <2>4 DEF ListsStay
<1>5. CASE t.ok
  <2> DEFINE x == [tree |-> t.tree, ptr |-> Extended(init_ptr, t.lists), from |-> content]
  <2>1. trees' = Planted(x) /\ cur' = Fresh(trees, 1)[1] /\ init_ptr' = <<>> /\ main' = "paths"
        /\ mem' = dclists_destroy(WithAdded(init_ptr, t.lists), init_ptr, 0, "KILL_NO_LISTS")
    BY <1>1, <1>5
  <2>2. DOMAIN trees = 1..0 BY <1>2
  <2>3. cur' = 1
    <3>1. \A i \in 1..1 : Fresh(trees, 1)[i] = 0 + i BY <2>2, FreshAddrs
    <3> QED BY <2>1, <3>1
  <2>4. DOMAIN trees' = {1} /\ trees'[1] = x
    <3>1. DOMAIN trees' = 1..(0 + 1) /\ trees'[0 + 1] = <<x>>[1]
      <4> HIDE DEF x
      <4> QED BY <2>1, <2>2, AllocatedLists DEF Planted
    <3> QED BY <3>1
  <2>5. /\ Ident(x.ptr) /\ Len(x.ptr) = Len(t.lists) /\ x.tree = t.tree
    BY <1>2, <1>3, ExtendedIdent
  <2>6. /\ DOMAIN WithAdded(init_ptr, t.lists) = 1..Len(t.lists)
        /\ \A a \in 1..Len(init_ptr) : WithAdded(init_ptr, t.lists)[a] = mem[a]
        /\ \A a \in (Len(init_ptr) + 1)..Len(t.lists) : WithAdded(init_ptr, t.lists)[a] = t.lists[a]
    BY <1>2, <1>3, ExtendedIdent
  <2> HIDE DEF x
  <2>7. DOMAIN mem' = DOMAIN WithAdded(init_ptr, t.lists)
        /\ \A a \in DOMAIN mem' : mem'[a] = WithAdded(init_ptr, t.lists)[a]
    BY <2>1 DEF dclists_destroy, Freed
  <2>8. ListsStay BY <1>2, <1>3, <2>6, <2>7 DEF ListsStay, Ident
  <2>9. \A a \in DOMAIN mem' : mem'[a] \in List
    <3>1. \A a \in 1..Len(t.lists) : a \in 1..Len(init_ptr) \/ a \in (Len(init_ptr) + 1)..Len(t.lists)
      BY <1>2, <1>3 DEF Ident
    <3> QED BY <1>2, <1>3, <2>6, <2>7, <3>1
  <2>10. MapLists' BY <1>1, <1>2, <2>8 DEF MapLists, ListsStay
  <2>11. ~TwoTrees' BY <1>1 DEF TwoTrees
  <2>12. Newest' = 1 BY <2>3, <2>11 DEF Newest
  <2>13. TreeOk(1)'
    BY <1>1, <1>2, <1>3, <1>5, <2>4, <2>5, <2>12 DEF TreeOk
  <2>14. Afterwards'
    BY <1>1, <2>1, <2>3, <2>4, <2>5, <2>6, <2>7, <2>10, <2>11, <2>12, <2>13 DEF Afterwards
  <2>15. Basics' BY <1>1, <2>1, <2>3 DEF Basics
  <2>16. Before' BY <2>1 DEF Before, Loaded
  <2> QED BY <2>8, <2>9, <2>14, <2>15, <2>16 DEF Memory
<1> QED BY <1>4, <1>5

LEMMA PlantedOne ==
  ASSUME NEW k \in Nat, DOMAIN trees = {k}, NEW x
  PROVE  /\ Fresh(trees, 1)[1] = k + 1
         /\ DOMAIN Planted(x) = {k, k + 1}
         /\ Planted(x)[k] = trees[k] /\ Planted(x)[k + 1] = x
<1>1. Max({0} \cup DOMAIN trees) = k BY MaxOne
<1>2. Fresh(trees, 1) = [i \in 1..1 |-> k + i] BY <1>1 DEF Fresh
<1>3. Fresh(trees, 1)[1] = k + 1 BY <1>2
<1>4. ToSet(Fresh(trees, 1)) = {k + 1}
  <2>1. 1..1 = {1} OBVIOUS
  <2> QED BY <1>2, <2>1 DEF ToSet
<1>5. Planted(x) = [a \in {k} \cup {k + 1} |-> IF a \in {k} THEN trees[a] ELSE <<x>>[a - k]]
  BY <1>1, <1>4 DEF Planted, Allocated
<1>6. k + 1 # k /\ (k + 1) - k = 1 /\ <<x>>[1] = x OBVIOUS
<1> QED BY <1>3, <1>5, <1>6

LEMMA ReloadStep ==
  ASSUME TreesSound, Basics, Memory, reload_timer_cb
  PROVE  Basics' /\ Memory' /\ ListsStay /\ cur' = cur /\ trees'[cur] = trees[cur]
<1> DEFINE p == trees[cur].ptr
           t == make_tree(Lists(p))
<1>1. /\ rt = "loop" /\ main = "run" /\ UNCHANGED <<conf, map, main, init_ptr, file, cur>>
      /\ IF t.ok
         THEN /\ mem' = WithAdded(p, t.lists)
              /\ trees' = Planted([tree |-> t.tree, ptr |-> Extended(p, t.lists), from |-> content])
              /\ new' = [old |-> cur, new |-> Fresh(trees, 1)[1]] /\ rt' = "built"
         ELSE /\ mem' = dclists_destroy(WithAdded(p, t.lists), Extended(p, t.lists),
                                        Len(p), "KILL_NEW_LISTS")
              /\ UNCHANGED <<trees, new, rt>>
  BY DEF reload_timer_cb, Basics, confVars
<1>2. /\ DOMAIN trees = {cur} /\ TreeOk(cur) /\ DOMAIN mem = 1..Len(p)
      /\ MapLists /\ init_ptr = <<>> /\ \A a \in DOMAIN mem : mem[a] \in List
  BY <1>1 DEF Memory, Afterwards, Loaded, TwoTrees, Newest
<1>3. Ident(p) /\ Len(map.lists) <= Len(p) BY <1>2 DEF TreeOk
<1>4. /\ t.lists \in Seq(List) /\ Len(p) <= Len(t.lists)
      /\ t.ok => \A client \in Clients :
           /\ ntree_lookup(t.tree, client) # NoneSuch
           /\ ntree_lookup(t.tree, client).idx \in 0..(Len(t.lists) - 1)
  <2> HIDE DEF p
  <2> QED BY <1>1, <1>2, <1>3, BuildFrom
<1>5. /\ Ident(Extended(p, t.lists)) /\ Len(Extended(p, t.lists)) = Len(t.lists)
      /\ DOMAIN WithAdded(p, t.lists) = 1..Len(t.lists)
      /\ \A a \in 1..Len(p) : WithAdded(p, t.lists)[a] = mem[a]
      /\ \A a \in (Len(p) + 1)..Len(t.lists) : WithAdded(p, t.lists)[a] = t.lists[a]
  <2> HIDE DEF p, t
  <2> QED BY <1>2, <1>3, <1>4, ExtendedIdent
<1>6. cur \in Nat BY DEF Basics
<1>7. Len(p) \in Nat /\ Len(t.lists) \in Nat
  <2> HIDE DEF p, t
  <2> QED BY <1>3, <1>4 DEF Ident
<1> HIDE DEF t
<1>8. CASE t.ok
  <2> DEFINE x == [tree |-> t.tree, ptr |-> Extended(p, t.lists), from |-> content]
  <2>1. /\ mem' = WithAdded(p, t.lists) /\ trees' = Planted(x)
        /\ new' = [old |-> cur, new |-> Fresh(trees, 1)[1]] /\ rt' = "built"
    BY <1>1, <1>8
  <2>2. x.ptr = Extended(p, t.lists) /\ x.tree = t.tree OBVIOUS
  <2> HIDE DEF x
  <2>3. /\ Fresh(trees, 1)[1] = cur + 1 /\ DOMAIN trees' = {cur, cur + 1}
        /\ trees'[cur] = trees[cur] /\ trees'[cur + 1] = x
    BY <1>2, <1>6, <2>1, PlantedOne
  <2>4. new'.old = cur /\ new'.new = cur + 1 /\ new' \in [old : Nat, new : Nat]
    BY <1>6, <2>1, <2>3
  <2>5. TwoTrees' /\ Newest' = cur + 1 BY <2>1, <2>4 DEF TwoTrees, Newest
  <2>6. ListsStay BY <1>2, <1>4, <1>5, <1>7, <2>1 DEF ListsStay
  <2>7. \A a \in DOMAIN mem' : mem'[a] \in List
    <3>1. \A a \in 1..Len(t.lists) : a \in 1..Len(p) \/ a \in (Len(p) + 1)..Len(t.lists)
      BY <1>7
    <3>2. \A a \in 1..Len(t.lists) : t.lists[a] \in List BY <1>4
    <3>3. \A a \in (Len(p) + 1)..Len(t.lists) : a \in 1..Len(t.lists) BY <1>7
    <3> HIDE DEF p
    <3> QED BY <1>2, <1>5, <2>1, <3>1, <3>2, <3>3
  <2>8. MapLists' BY <1>1, <1>2, <2>6 DEF MapLists, ListsStay
  <2>9. Len(map.lists) \in Nat BY <1>2 DEF MapLists
  <2>10. TreeOk(cur + 1)'
    BY <1>1, <1>3, <1>4, <1>5, <1>7, <1>8, <2>2, <2>3, <2>5, <2>9 DEF TreeOk
  <2>11. TreeOk(cur)'
    BY <1>1, <1>2, <1>4, <1>5, <2>2, <2>3, <2>5 DEF TreeOk
  <2>12. DOMAIN mem' = 1..Len(trees'[Newest'].ptr) BY <1>5, <2>1, <2>2, <2>3, <2>5
  <2>13. Afterwards'
    BY <1>1, <1>2, <1>6, <2>1, <2>3, <2>4, <2>5, <2>8, <2>10, <2>11, <2>12 DEF Afterwards
  <2>14. Basics' BY <1>1, <2>1, <2>4 DEF Basics
  <2>15. Before' BY <1>1 DEF Before, Loaded
  <2> QED BY <1>1, <2>3, <2>6, <2>7, <2>13, <2>14, <2>15 DEF Memory
<1>9. CASE ~t.ok
  <2> DEFINE q == Extended(p, t.lists)
             kill == {q[i] : i \in (Len(p) + 1)..Len(q)}
  <2>1. mem' = Freed(WithAdded(p, t.lists), kill) /\ UNCHANGED <<trees, new, rt>>
    BY <1>1, <1>9 DEF dclists_destroy
  <2>2. kill = (Len(p) + 1)..Len(t.lists)
    <3> HIDE DEF q
    <3>1. \A i \in (Len(p) + 1)..Len(q) : q[i] = i BY <1>5, <1>7 DEF Ident, q
    <3> QED BY <1>5, <3>1 DEF q
  <2>3. DOMAIN mem' = 1..Len(p) /\ \A a \in 1..Len(p) : mem'[a] = mem[a]
    <3>1. (1..Len(t.lists)) \ ((Len(p) + 1)..Len(t.lists)) = 1..Len(p) BY <1>4, <1>7
    <3> QED BY <1>5, <2>1, <2>2, <3>1 DEF Freed
  <2>4. ListsStay BY <1>2, <2>3 DEF ListsStay
  <2>5. \A a \in DOMAIN mem' : mem'[a] \in List BY <1>2, <2>3
  <2>6. MapLists' BY <1>1, <1>2, <2>4 DEF MapLists, ListsStay
  <2>7. ~TwoTrees /\ ~TwoTrees' /\ Newest' = cur /\ Newest = cur BY <1>1, <2>1 DEF TwoTrees, Newest
  <2>8. TreeOk(cur)' BY <1>1, <1>2, <2>1, <2>7 DEF TreeOk
  <2>9. Afterwards'
    BY <1>1, <1>2, <2>1, <2>3, <2>6, <2>7, <2>8 DEF Afterwards
  <2>10. Basics' BY <1>1, <2>1 DEF Basics
  <2>11. Before' BY <1>1 DEF Before, Loaded
  <2> QED BY <1>1, <2>1, <2>4, <2>5, <2>9, <2>10, <2>11 DEF Memory
<1> QED BY <1>8, <1>9

LEMMA SwapStep ==
  ASSUME Basics, Memory, Swap
  PROVE  Basics' /\ Memory' /\ ListsStay
<1>1. /\ rt = "wait" /\ main = "run" /\ cur' = new.new /\ rt' = "destroy"
      /\ UNCHANGED <<conf, map, main, init_ptr, file, mem, trees, new>>
  BY DEF Swap, Basics, confVars
<1>2. TwoTrees /\ TwoTrees' /\ Newest' = Newest BY <1>1 DEF TwoTrees, Newest
<1>3. \A t \in DOMAIN trees : TreeOk(t)'
  BY <1>1, <1>2 DEF Memory, Afterwards, Loaded, TreeOk
<1>4. Afterwards' BY <1>1, <1>2, <1>3 DEF Memory, Afterwards, Loaded, MapLists
<1>5. Basics' BY <1>1 DEF Basics
<1>6. Before' BY <1>1 DEF Before, Loaded
<1> QED BY <1>1, <1>4, <1>5, <1>6 DEF Memory, ListsStay

LEMMA DestroyStep ==
  ASSUME Basics, Memory, DestroyOld
  PROVE  Basics' /\ Memory' /\ ListsStay /\ cur' = cur /\ trees'[cur] = trees[cur]
<1>1. /\ rt = "destroy" /\ rt' = "loop" /\ new' = NoTree /\ main = "run"
      /\ mem' = Freed(mem, {}) /\ trees' = Freed(trees, {new.old})
      /\ UNCHANGED <<conf, map, main, init_ptr, file, cur>>
  BY DEF DestroyOld, Basics, dclists_destroy, confVars
<1>2. /\ DOMAIN trees = {new.old, new.new} /\ new.old # new.new /\ cur = new.new
      /\ Newest = cur /\ DOMAIN mem = 1..Len(trees[cur].ptr) /\ MapLists
  BY <1>1 DEF Memory, Afterwards, Loaded, TwoTrees, Newest
<1>3. DOMAIN trees' = {cur} /\ trees'[cur] = trees[cur] BY <1>1, <1>2 DEF Freed
<1>4. DOMAIN mem' = DOMAIN mem /\ \A a \in DOMAIN mem : mem'[a] = mem[a] BY <1>1 DEF Freed
<1>5. ~TwoTrees' /\ Newest' = cur BY <1>1 DEF TwoTrees, Newest
<1>6. TreeOk(cur)'
  <2>1. TreeOk(cur) BY <1>1, <1>2 DEF Memory, Afterwards, Loaded
  <2> QED BY <1>1, <1>2, <1>3, <1>5, <2>1 DEF TreeOk
<1>7. MapLists' BY <1>1, <1>2, <1>4 DEF MapLists
<1>8. Afterwards'
  BY <1>1, <1>2, <1>3, <1>4, <1>5, <1>6, <1>7 DEF Memory, Afterwards, Loaded
<1>9. Basics' BY <1>1 DEF Basics, NoTree
<1>10. Before' BY <1>1 DEF Before, Loaded
<1> QED BY <1>1, <1>3, <1>4, <1>8, <1>9, <1>10 DEF Memory, ListsStay

\* What the other steps leave alone.
Still == UNCHANGED <<conf, map, init_ptr, mem, trees, cur, new>>

LEMMA StillStep ==
  ASSUME Basics, Memory, Still, Basics', Loaded' <=> Loaded, TwoTrees' <=> TwoTrees,
         Loaded \/ main' = main, rt' = rt \/ rt' = "wait" \/ ~TwoTrees,
         rt' = "wait" => rt \in {"built", "wait"}
  PROVE  Memory' /\ ListsStay
<1>1. UNCHANGED <<conf, map, init_ptr, mem, trees, cur, new>> BY DEF Still
<1>2. Newest' = Newest BY <1>1 DEF Newest
<1>3. \A t : TreeOk(t) => TreeOk(t)' BY <1>1, <1>2 DEF TreeOk
<1>4. MapLists => MapLists' BY <1>1 DEF MapLists
<1>5. ASSUME Loaded PROVE /\ rt' \in {"built", "wait"} => cur = new.old
                          /\ rt' = "destroy" => cur = new.new
  BY <1>5 DEF TwoTrees, Memory, Afterwards, Basics
<1>6. Before'
  <2>1. CASE Loaded
    <3>1. Loaded' /\ main' \notin {"config", "fatal", "load"} BY <2>1 DEF Loaded
    <3> QED BY <3>1 DEF Before
  <2>2. CASE ~Loaded
    <3>1. main' = main /\ Before BY <2>2 DEF Memory
    <3> QED BY <1>1, <1>4, <2>2, <3>1 DEF Before
  <2> QED BY <2>1, <2>2
<1>7. Afterwards'
  <2> SUFFICES ASSUME Loaded PROVE Afterwards' BY DEF Afterwards
  <2>1. /\ init_ptr = <<>> /\ MapLists
        /\ DOMAIN trees = IF TwoTrees THEN {new.old, new.new} ELSE {cur}
        /\ TwoTrees => new.old # new.new
        /\ \A t \in DOMAIN trees : TreeOk(t)
        /\ DOMAIN mem = 1..Len(trees[Newest].ptr)
    BY DEF Memory, Afterwards
  <2>2. DOMAIN trees' = IF TwoTrees' THEN {new'.old, new'.new} ELSE {cur'} BY <1>1, <2>1
  <2>3. TwoTrees' => new'.old # new'.new BY <1>1, <2>1
  <2>4. DOMAIN mem' = 1..Len(trees'[Newest'].ptr) BY <1>1, <1>2, <2>1
  <2>5. \A t \in DOMAIN trees' : TreeOk(t)' BY <1>1, <1>3, <2>1
  <2> QED BY <1>1, <1>4, <1>5, <2>1, <2>2, <2>3, <2>4, <2>5 DEF Afterwards
<1> QED BY <1>1, <1>6, <1>7 DEF Memory, ListsStay

\* Steps that neither load, build nor swap.
LEMMA OtherSteps ==
  ASSUME Basics, Memory,
         \/ SetupPaths \/ SetupWatchers \/ \E f \in File : FileChange(f)
         \/ Watching \/ wrlock
  PROVE  /\ Basics' /\ Memory' /\ ListsStay /\ cur' = cur /\ trees' = trees
         /\ main \in {"run", "fixed"} => main' \in {"run", "fixed"}
         /\ UNCHANGED <<pc, rd, lock>>
<1>1. CASE SetupPaths
  <2>1. /\ Still /\ UNCHANGED <<file, rt, pc, rd, lock>> /\ main = "paths"
        /\ main' \in {"run", "fixed"} /\ rt = "none"
    BY <1>1 DEF SetupPaths, Still, treeVars, Basics
  <2>2. Basics' BY <2>1 DEF Basics, Still
  <2>3. Loaded /\ Loaded' /\ ~TwoTrees /\ ~TwoTrees' BY <2>1 DEF Loaded, TwoTrees
  <2> QED BY <2>1, <2>2, <2>3, StillStep DEF Still
<1>2. CASE SetupWatchers
  <2>1. /\ Still /\ UNCHANGED <<file, main, pc, rd, lock>> /\ main = "run"
        /\ rt = "none" /\ rt' \in {"loop", "ended"}
    BY <1>2 DEF SetupWatchers, Still, treeVars, confVars
  <2>2. Basics' BY <2>1 DEF Basics, Still
  <2>3. Loaded /\ Loaded' /\ ~TwoTrees /\ ~TwoTrees' BY <2>1 DEF Loaded, TwoTrees
  <2> QED BY <2>1, <2>2, <2>3, StillStep DEF Still
<1>3. CASE \E f \in File : FileChange(f)
  <2>1. PICK f \in File : FileChange(f) BY <1>3
  <2>2. /\ Still /\ UNCHANGED <<rt, main, pc, rd, lock>> /\ Loaded
    BY <2>1 DEF FileChange, Still, treeVars, confVars, Loaded, Basics
  <2>3. PICK c \in Updates[f] \cup {NoneSuch} : \E m :
          file' = [file EXCEPT ![f] = [db |-> c, mtime |-> m, ver |-> @.ver + 1]]
    BY <2>1 DEF FileChange
  <2>4. DOMAIN file' = File /\ \A g \in File : file'[g].db \in Databases(g)
    BY <2>3 DEF Basics, Databases
  <2>5. Basics' BY <2>2, <2>4 DEF Basics, Still
  <2>6. (Loaded' <=> Loaded) /\ (TwoTrees' <=> TwoTrees) BY <2>2 DEF Loaded, TwoTrees
  <2> QED BY <2>2, <2>5, <2>6, StillStep DEF Still
<1>4. CASE Watching
  <2>1. /\ Still /\ UNCHANGED <<file, rt, main, pc, rd, lock>> /\ rt = "loop"
    BY <1>4 DEF Watching, Tick, stat_timer_cb, reload_stat_cb, Still, treeVars, confVars
  <2>2. Basics' /\ main = "run" BY <2>1 DEF Basics, Still
  <2>3. Loaded /\ Loaded' /\ ~TwoTrees /\ ~TwoTrees' BY <2>1, <2>2 DEF Loaded, TwoTrees
  <2> QED BY <2>1, <2>2, <2>3, StillStep DEF Still
<1>5. CASE wrlock
  <2>1. /\ Still /\ UNCHANGED <<file, main, pc, rd, lock>> /\ rt = "built" /\ rt' = "wait"
    BY <1>5 DEF wrlock, Still, treeVars, confVars
  <2>2. Basics' /\ main = "run" BY <2>1 DEF Basics, Still
  <2>3. Loaded /\ Loaded' /\ TwoTrees /\ TwoTrees' BY <2>1, <2>2 DEF Loaded, TwoTrees
  <2> QED BY <2>1, <2>2, <2>3, StillStep DEF Still
<1> QED BY <1>1, <1>2, <1>3, <1>4, <1>5

-----------------------------------------------------------------------------
(* The I/O threads.                                                        *)

Serving == main \in {"run", "fixed"}

RdRec == [client : Clients \cup {NoneSuch}, tree : Nat, idx : Nat, ptr : Nat, want : List]

\* Under the lock the thread's tree is the current one; the list it found stays.
ReaderOk(r) ==
    /\ pc[r] \in {"lookup", "walk", "list", "unlock"} => r \in lock
    /\ pc[r] # "idle" => Serving /\ rd[r].client \in Clients
    /\ pc[r] \in {"walk", "list"} => rd[r].tree = cur
    /\ pc[r] = "list" => rd[r].idx < Len(trees[cur].ptr)
    /\ pc[r] \in {"unlock", "use"} => rd[r].ptr \in DOMAIN mem /\ mem[rd[r].ptr] = rd[r].want

Reading ==
    /\ pc \in [Reader -> {"idle", "lookup", "walk", "list", "unlock", "use"}]
    /\ rd \in [Reader -> RdRec]
    /\ \A r \in Reader : ReaderOk(r)

IInv == Basics /\ Memory /\ Reading

\* A step of the main or of the reload thread.
LEMMA ReadingKept ==
  ASSUME Reading, ListsStay, UNCHANGED <<pc, rd, lock>>, Serving => Serving',
         (cur' = cur /\ trees'[cur] = trees[cur]) \/ lock = {} \/ ~Serving
  PROVE  Reading'
<1>1. ASSUME NEW r \in Reader PROVE ReaderOk(r)'
  <2>1. ReaderOk(r) BY DEF Reading
  <2>2. CASE cur' = cur /\ trees'[cur] = trees[cur]
    BY <2>1, <2>2 DEF ReaderOk, ListsStay
  <2>3. CASE lock = {}
    <3>1. pc[r] \notin {"lookup", "walk", "list", "unlock"} BY <2>1, <2>3 DEF ReaderOk
    <3> QED BY <2>1, <3>1 DEF ReaderOk, ListsStay
  <2>4. CASE ~Serving
    <3>1. pc[r] = "idle" BY <2>1, <2>4 DEF ReaderOk
    <3> QED BY <3>1 DEF ReaderOk
  <2> QED BY <2>2, <2>3, <2>4
<1> QED BY <1>1 DEF Reading

\* A step of an I/O thread leaves the rest of the daemon alone.
LEMMA ReaderFrame ==
  ASSUME IInv, NEW r \in Reader, NEW from, NEW to, RdStep(r, from, to)
  PROVE  Basics' /\ Memory' /\ pc[r] = from /\ pc' = [pc EXCEPT ![r] = to]
         /\ UNCHANGED <<main, mem, trees, cur, rt>>
<1>1. /\ Still /\ UNCHANGED <<file, main, rt>>
  BY DEF RdStep, Still, treeVars, confVars
<1>2. Basics' BY <1>1 DEF IInv, Basics, Still
<1>3. (Loaded' <=> Loaded) /\ (TwoTrees' <=> TwoTrees) BY <1>1 DEF Loaded, TwoTrees
<1>4. Memory' BY <1>1, <1>2, <1>3, StillStep DEF IInv
<1> QED BY <1>1, <1>2, <1>4 DEF RdStep, Still

\* The other threads do not notice.
LEMMA OthersKept ==
  ASSUME Reading, NEW r \in Reader, NEW to, NEW v,
         UNCHANGED <<main, mem, trees, cur>>,
         pc' = [pc EXCEPT ![r] = to], rd' = [rd EXCEPT ![r] = v],
         to \in {"idle", "lookup", "walk", "list", "unlock", "use"}, v \in RdRec,
         \A q \in Reader \ {r} : q \in lock => q \in lock',
         ReaderOk(r)'
  PROVE  Reading'
<1>1. ASSUME NEW q \in Reader \ {r} PROVE ReaderOk(q)'
  <2>1. pc'[q] = pc[q] /\ rd'[q] = rd[q] BY DEF Reading
  <2>2. ReaderOk(q) BY DEF Reading
  <2>3. Serving' <=> Serving BY DEF Serving
  <2> QED BY <2>1, <2>2, <2>3 DEF ReaderOk
<1> QED BY <1>1 DEF Reading

\* A thread that is being served finds everything there.
LEMMA Served ==
  ASSUME IInv, Serving
  PROVE  /\ cur \in DOMAIN trees /\ TreeOk(cur) /\ cur \in Nat
         /\ DOMAIN mem = 1..Len(trees[Newest].ptr)
         /\ Len(trees[cur].ptr) \in Nat /\ Len(trees[Newest].ptr) \in Nat
<1>1. Loaded /\ Afterwards BY DEF IInv, Memory, Serving, Loaded
<1>2. cur \in DOMAIN trees BY <1>1 DEF Afterwards, TwoTrees
<1>3. Newest \in DOMAIN trees BY <1>1 DEF Afterwards, Newest
<1>4. TreeOk(cur) /\ TreeOk(Newest) BY <1>1, <1>2, <1>3 DEF Afterwards
<1> QED BY <1>1, <1>2, <1>4 DEF Afterwards, TreeOk, Ident, IInv, Basics

LEMMA ReaderSteps ==
  ASSUME IInv, NEW r \in Reader,
         rdlock(r) \/ enter(r) \/ lookup(r) \/ get_list(r) \/ rdunlock(r) \/ Used(r)
  PROVE  IInv'
<1> USE DEF IInv
<1>1. rd \in [Reader -> RdRec] /\ ReaderOk(r) BY DEF Reading
<1>2. rd[r] \in RdRec BY <1>1
<1>3. CASE rdlock(r)
  <2>1. PICK c \in Clients : rd' = [rd EXCEPT ![r].client = c] BY <1>3 DEF rdlock
  <2>2. RdStep(r, "idle", "lookup") /\ Serving /\ lock' = lock \cup {r} BY <1>3 DEF rdlock, Serving
  <2>3. Basics' /\ Memory' /\ pc' = [pc EXCEPT ![r] = "lookup"] /\ UNCHANGED <<main, mem, trees, cur>>
    BY <2>2, ReaderFrame
  <2> DEFINE v == [rd[r] EXCEPT !.client = c]
  <2>4. rd' = [rd EXCEPT ![r] = v] /\ v \in RdRec /\ v.client = c BY <1>2, <2>1 DEF RdRec
  <2> HIDE DEF v
  <2>5. pc'[r] = "lookup" /\ rd'[r] = v BY <1>1, <2>3, <2>4 DEF Reading
  <2>6. ReaderOk(r)' BY <2>2, <2>3, <2>4, <2>5 DEF ReaderOk, Serving
  <2>7. Reading' BY <2>2, <2>3, <2>4, <2>6, OthersKept
  <2> QED BY <2>3, <2>7
<1>4. CASE enter(r)
  <2>1. RdStep(r, "lookup", "walk") /\ UNCHANGED lock /\ rd' = [rd EXCEPT ![r].tree = cur]
    BY <1>4 DEF enter
  <2>2. /\ Basics' /\ Memory' /\ pc[r] = "lookup" /\ pc' = [pc EXCEPT ![r] = "walk"]
        /\ UNCHANGED <<main, mem, trees, cur>>
    BY <2>1, ReaderFrame
  <2> DEFINE v == [rd[r] EXCEPT !.tree = cur]
  <2>3. cur \in Nat BY DEF Basics
  <2>4. rd' = [rd EXCEPT ![r] = v] /\ v \in RdRec /\ v.tree = cur /\ v.client = rd[r].client
    BY <1>2, <2>1, <2>3 DEF RdRec
  <2> HIDE DEF v
  <2>5. pc'[r] = "walk" /\ rd'[r] = v BY <1>1, <2>2, <2>4 DEF Reading
  <2>6. ReaderOk(r)' BY <1>1, <2>1, <2>2, <2>4, <2>5 DEF ReaderOk, Serving
  <2>7. Reading' BY <2>1, <2>2, <2>4, <2>6, OthersKept
  <2> QED BY <2>2, <2>7
<1>5. CASE lookup(r)
  <2> DEFINE i == ntree_lookup(trees[rd[r].tree].tree, rd[r].client).idx
             v == [rd[r] EXCEPT !.idx = i]
  <2>1. RdStep(r, "walk", "list") /\ UNCHANGED lock /\ rd' = [rd EXCEPT ![r].idx = i]
    BY <1>5 DEF lookup
  <2>2. /\ Basics' /\ Memory' /\ pc[r] = "walk" /\ pc' = [pc EXCEPT ![r] = "list"]
        /\ UNCHANGED <<main, mem, trees, cur>>
    BY <2>1, ReaderFrame
  <2>3. Serving /\ rd[r].tree = cur /\ rd[r].client \in Clients BY <1>1, <2>2 DEF ReaderOk
  <2>4. i \in Nat /\ i < Len(trees[cur].ptr)
    BY <2>3, Served DEF TreeOk
  <2>5. /\ rd' = [rd EXCEPT ![r] = v] /\ v \in RdRec /\ v.idx = i
        /\ v.tree = rd[r].tree /\ v.client = rd[r].client
    <3> HIDE DEF i
    <3> QED BY <1>2, <2>1, <2>4 DEF RdRec
  <2> HIDE DEF v, i
  <2>6. pc'[r] = "list" /\ rd'[r] = v BY <1>1, <2>2, <2>5 DEF Reading
  <2>7. ReaderOk(r)' BY <1>1, <2>1, <2>2, <2>3, <2>4, <2>5, <2>6 DEF ReaderOk, Serving
  <2>8. Reading' BY <2>1, <2>2, <2>5, <2>7, OthersKept
  <2> QED BY <2>2, <2>8
<1>6. CASE get_list(r)
  <2> DEFINE p == trees[cur].ptr[rd[r].idx + 1]
             v == [rd[r] EXCEPT !.ptr = p, !.want = mem[p]]
  <2>1. /\ RdStep(r, "list", "unlock") /\ UNCHANGED lock
        /\ rd' = [rd EXCEPT ![r].ptr = p, ![r].want = mem[p]]
    BY <1>6 DEF get_list
  <2>2. /\ Basics' /\ Memory' /\ pc[r] = "list" /\ pc' = [pc EXCEPT ![r] = "unlock"]
        /\ UNCHANGED <<main, mem, trees, cur>>
    BY <2>1, ReaderFrame
  <2>3. Serving /\ rd[r].idx \in Nat /\ rd[r].idx < Len(trees[cur].ptr) /\ rd[r].client \in Clients
    BY <1>1, <1>2, <2>2 DEF ReaderOk, RdRec
  <2>4. p \in Nat /\ p \in DOMAIN mem
    <3>1. Ident(trees[cur].ptr) /\ Len(trees[cur].ptr) <= Len(trees[Newest].ptr)
      BY <2>3, Served DEF TreeOk
    <3>2. p = rd[r].idx + 1 BY <2>3, <3>1, Served DEF Ident
    <3> HIDE DEF p
    <3> QED BY <2>3, <3>1, <3>2, Served
  <2>5. mem[p] \in List BY <2>4 DEF Memory
  <2> HIDE DEF p
  <2>6. /\ rd' = [rd EXCEPT ![r] = v] /\ v \in RdRec /\ v.ptr = p /\ v.want = mem[p]
        /\ v.client = rd[r].client
    BY <1>2, <2>1, <2>4, <2>5 DEF RdRec
  <2> HIDE DEF v
  <2>7. pc'[r] = "unlock" /\ rd'[r] = v BY <1>1, <2>2, <2>6 DEF Reading
  <2>8. ReaderOk(r)' BY <1>1, <2>1, <2>2, <2>3, <2>4, <2>6, <2>7 DEF ReaderOk, Serving
  <2>9. Reading' BY <2>1, <2>2, <2>6, <2>8, OthersKept
  <2> QED BY <2>2, <2>9
<1>7. CASE rdunlock(r)
  <2>1. RdStep(r, "unlock", "use") /\ lock' = lock \ {r} /\ UNCHANGED rd BY <1>7 DEF rdunlock
  <2>2. /\ Basics' /\ Memory' /\ pc[r] = "unlock" /\ pc' = [pc EXCEPT ![r] = "use"]
        /\ UNCHANGED <<main, mem, trees, cur>>
    BY <2>1, ReaderFrame
  <2>3. rd' = [rd EXCEPT ![r] = rd[r]] BY <1>1, <2>1
  <2>4. pc'[r] = "use" /\ rd'[r] = rd[r] BY <2>1, <2>2 DEF Reading
  <2>5. ReaderOk(r)' BY <1>1, <2>2, <2>4 DEF ReaderOk, Serving
  <2>6. Reading' BY <1>2, <2>1, <2>2, <2>3, <2>5, OthersKept
  <2> QED BY <2>2, <2>6
<1>8. CASE Used(r)
  <2>1. RdStep(r, "use", "idle") /\ rd' = [rd EXCEPT ![r] = Idle] /\ UNCHANGED lock BY <1>8 DEF Used
  <2>2. /\ Basics' /\ Memory' /\ pc' = [pc EXCEPT ![r] = "idle"]
        /\ UNCHANGED <<main, mem, trees, cur>>
    BY <2>1, ReaderFrame
  <2>3. Idle \in RdRec BY DEF Idle, RdRec, List
  <2>4. pc'[r] = "idle" BY <2>2 DEF Reading
  <2>5. ReaderOk(r)' BY <2>4 DEF ReaderOk
  <2>6. Reading' BY <2>1, <2>2, <2>3, <2>5, OthersKept
  <2> QED BY <2>2, <2>6
<1> QED BY <1>3, <1>4, <1>5, <1>6, <1>7, <1>8

-----------------------------------------------------------------------------
LEMMA Inductive == ASSUME TreesSound, IInv, [Next]_vars PROVE IInv'
<1> USE DEF IInv
<1>1. CASE Configure
  <2>1. ~Serving /\ UNCHANGED <<pc, rd, lock>> BY <1>1 DEF Configure, Serving
  <2> QED BY <1>1, <2>1, ConfigureStep, ReadingKept
<1>2. CASE LoadGeoip
  <2>1. ~Serving /\ UNCHANGED <<pc, rd, lock>> BY <1>2 DEF LoadGeoip, Serving
  <2> QED BY <1>2, <2>1, LoadStep, ReadingKept
<1>3. CASE SetupPaths \/ SetupWatchers \/ (\E f \in File : FileChange(f)) \/ Watching \/ wrlock
  BY <1>3, OtherSteps, ReadingKept DEF Serving
<1>4. CASE reload_timer_cb
  <2>1. UNCHANGED <<main, pc, rd, lock>> BY <1>4 DEF reload_timer_cb, confVars
  <2> QED BY <1>4, <2>1, ReloadStep, ReadingKept DEF Serving
<1>5. CASE Swap
  <2>1. UNCHANGED <<main, pc, rd, lock>> /\ lock = {} BY <1>5 DEF Swap, confVars
  <2> QED BY <1>5, <2>1, SwapStep, ReadingKept DEF Serving
<1>6. CASE DestroyOld
  <2>1. UNCHANGED <<main, pc, rd, lock>> BY <1>6 DEF DestroyOld, confVars
  <2> QED BY <1>6, <2>1, DestroyStep, ReadingKept DEF Serving
<1>7. CASE \E r \in Reader : rdlock(r) \/ enter(r) \/ lookup(r) \/ get_list(r) \/ rdunlock(r) \/ Used(r)
  BY <1>7, ReaderSteps
<1>8. CASE UNCHANGED vars
  <2>1. Still /\ UNCHANGED <<main, file, rt, lock, pc, rd>>
    BY <1>8 DEF vars, Still, confVars, treeVars
  <2>2. Basics' BY <2>1 DEF Basics, Still
  <2>3. (Loaded' <=> Loaded) /\ (TwoTrees' <=> TwoTrees) BY <2>1 DEF Loaded, TwoTrees
  <2>4. Memory' /\ ListsStay BY <2>1, <2>2, <2>3, StillStep
  <2> QED BY <2>1, <2>2, <2>4, ReadingKept DEF Serving, Still
<1> QED BY <1>1, <1>2, <1>3, <1>4, <1>5, <1>6, <1>7, <1>8 DEF Next, Reload

LEMMA Initial == Init => IInv
<1> SUFFICES ASSUME Init PROVE IInv OBVIOUS
<1>1. Idle \in RdRec BY DEF Idle, RdRec, List
<1>2. pc = [r \in Reader |-> "idle"] /\ rd = [r \in Reader |-> Idle] BY DEF Init
<1>3. Reading BY <1>1, <1>2 DEF Reading, ReaderOk
<1> QED BY <1>3, BasicsInit DEF IInv

LEMMA Always == ASSUME TreesSound PROVE Spec => []IInv
<1>1. Init => IInv BY Initial
<1>2. IInv /\ [Next]_vars => IInv' BY Inductive
<1> QED BY <1>1, <1>2, PTL DEF Spec

LEMMA OwnedThen == IInv => ListsOwned
<1> SUFFICES ASSUME IInv PROVE ListsOwned OBVIOUS
<1>1. \A p : Ident(p) => ToSet(p) = 1..Len(p) BY DEF Ident, ToSet
<1>2. ToSet(<<>>) = {} BY DEF ToSet
<1>3. CASE Loaded
  <2>1. Afterwards BY DEF IInv, Memory
  <2>2. Newest \in DOMAIN trees BY <1>3, <2>1 DEF Afterwards, Newest
  <2>3. \A t \in DOMAIN trees :
          /\ ToSet(trees[t].ptr) = 1..Len(trees[t].ptr) /\ Len(trees[t].ptr) \in Nat
          /\ Len(trees[t].ptr) <= Len(trees[Newest].ptr)
    BY <1>1, <1>3, <2>1 DEF Afterwards, TreeOk, Ident
  <2>4. \A t \in DOMAIN trees : ToSet(trees[t].ptr) \subseteq DOMAIN mem
    BY <1>3, <2>1, <2>2, <2>3 DEF Afterwards
  <2>5. ToSet(trees[Newest].ptr) = DOMAIN mem BY <1>3, <2>1, <2>2, <2>3 DEF Afterwards
  <2>6. UNION {ToSet(trees[t].ptr) : t \in DOMAIN trees} = DOMAIN mem BY <2>2, <2>4, <2>5
  <2> QED BY <1>2, <1>3, <2>1, <2>6 DEF ListsOwned, Afterwards
<1>4. CASE ~Loaded
  <2>1. Before /\ DOMAIN trees = {} BY <1>4 DEF IInv, Memory, Before
  <2>2. UNION {ToSet(trees[t].ptr) : t \in DOMAIN trees} = {} BY <2>1
  <2>3. DOMAIN mem = ToSet(init_ptr)
    BY <1>1, <1>2, <1>4, <2>1 DEF Before, Loaded, IInv, Basics
  <2> QED BY <2>2, <2>3 DEF ListsOwned
<1> QED BY <1>3, <1>4

LEMMA SafeThen == IInv => ReadersSafe
<1> SUFFICES ASSUME IInv, NEW r \in Reader
             PROVE  /\ pc[r] = "walk" => /\ rd[r].tree \in DOMAIN trees
                                         /\ ntree_lookup(trees[rd[r].tree].tree, rd[r].client) # NoneSuch
                    /\ pc[r] = "list" => rd[r].tree = cur /\ rd[r].idx < Len(trees[cur].ptr)
                    /\ pc[r] \in {"unlock", "use"} => rd[r].ptr \in DOMAIN mem /\ mem[rd[r].ptr] = rd[r].want
  BY DEF ReadersSafe
<1>1. ReaderOk(r) BY DEF IInv, Reading
<1>2. ASSUME pc[r] = "walk"
      PROVE  /\ rd[r].tree \in DOMAIN trees
             /\ ntree_lookup(trees[rd[r].tree].tree, rd[r].client) # NoneSuch
  <2>1. Serving /\ rd[r].client \in Clients /\ rd[r].tree = cur BY <1>1, <1>2 DEF ReaderOk
  <2> QED BY <2>1, Served DEF TreeOk
<1> QED BY <1>1, <1>2 DEF ReaderOk

\* If builds are sound, then for every configuration, every number of I/O threads
\* and however often the files change: the allocated lists are always those of the
\* trees that exist or of the configuration.  A reload leaks no list when
\* gdmap_update_db() fails, and the ones that live on under the new tree are not
\* freed with the old one.
THEOREM ListsOwnedAlways == ASSUME TreesSound PROVE Spec => []ListsOwned
<1>1. IInv => ListsOwned BY OwnedThen
<1> QED BY <1>1, Always, PTL

\* If builds are sound, an I/O thread inside gdmap_lookup() always walks through a
\* tree that is there, takes the list from the tree that gave it the index, and
\* the list it goes on using after pthread_rwlock_unlock() stays as it was, however
\* many reloads happen meanwhile.
THEOREM ReadersSafeAlways == ASSUME TreesSound PROVE Spec => []ReadersSafe
<1>1. IInv => ReadersSafe BY SafeThen
<1> QED BY <1>1, Always, PTL
=============================================================================
