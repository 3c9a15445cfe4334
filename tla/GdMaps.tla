------------------------------- MODULE GdMaps -------------------------------
(***************************************************************************)
(* A map of the geoip plugin in a running daemon (gdmaps.c, geoip.c, and   *)
(* ev_stat and ev_timer of libev): the initial load, the thread that       *)
(* watches the database files and builds a new tree when they change, the  *)
(* swap of the trees under the read-write lock, and I/O threads that look  *)
(* clients up and go on using the list they found after the lock is free.  *)
(* What a tree is and does is in NTree.                                    *)
(***************************************************************************)
EXTENDS NTree, FiniteSetsExt

CONSTANTS Configs,     \* configurations of the map
          Contents,    \* "db", "v4o" -> the contents such a file may have at first
          Updates,     \* "db", "v4o" -> and the contents it may be replaced by
          Clients,     \* [src, edns]: who asks
          Reader,      \* I/O threads
          WAIT,        \* GEOIP_RELOAD_WAIT in ticks
          MaxChanges,  \* bound: changes of the files
          StartupGap,  \* files may change between the first load and the watchers
          SameSecond   \* a change may leave st_mtime as it is

File == {"db", "v4o"}

ASSUME GdMapsAssumption ==
    /\ WAIT \in Nat \ {0} /\ MaxChanges \in Nat
    /\ StartupGap \in BOOLEAN /\ SameSecond \in BOOLEAN

VARIABLES conf, map,   \* the configuration, and gdmap_new()'s result
          main,        \* how far the daemon has come
          file,        \* [db, mtime, ver] of each file; ver is the number of changes so far
          mem,         \* allocated lists: address -> list
          init_ptr,    \* init_dclists, until the first load
          trees,       \* allocated trees: address -> [tree, ptr, from]
          cur,         \* gdmap->tree
          rt,          \* control point of the reload thread
          new,         \* the tree it has built, and the one it replaces
          tried,       \* (history) the files of the last attempt, and whether it gave a tree
          lock,        \* the threads that hold tree_lock for reading
          watch,       \* ev_stat of each file: [active, prev, attr]
          timer,       \* ticks until the settling timer expires, 0: not active
          pend,        \* pending events of the reload loop
          pc, rd       \* the I/O threads: where they are, and their variables

confVars == <<conf, map, main, init_ptr>>
loopVars == <<watch, timer, pend>>
treeVars == <<mem, trees, cur>>
vars == <<confVars, file, treeVars, rt, new, tried, lock, loopVars, pc, rd>>

watched == IF conf.v4o THEN File ELSE {"db"}
content == [f \in watched |-> file[f].db]
make_tree(lists) ==
    gdmap_make_tree(conf, map, lists, content["db"], IF conf.v4o THEN content["v4o"] ELSE NoneSuch)

Idle == [client |-> NoneSuch, tree |-> 0, idx |-> 0, ptr |-> 0, want |-> <<>>]
NoStat == [nlink |-> 0, mtime |-> 0, ver |-> 0]
NoTree == [old |-> 0, new |-> 0]

Init ==
    /\ conf \in Configs /\ map = NoneSuch /\ main = "config"
    /\ \E c \in [File -> UNION {Contents[f] : f \in File}] :
         /\ \A f \in File : c[f] \in Contents[f]
         /\ file = [f \in File |-> [db |-> c[f], mtime |-> 0, ver |-> 0]]
    /\ mem = <<>> /\ init_ptr = <<>> /\ trees = <<>> /\ cur = 0
    /\ rt = "none" /\ new = NoTree /\ tried = [from |-> <<>>, ok |-> FALSE]
    /\ lock = {}
    /\ watch = [f \in File |-> [active |-> FALSE, prev |-> NoStat, attr |-> NoStat]]
    /\ timer = 0 /\ pend = {} /\ pc = [r \in Reader |-> "idle"] /\ rd = [r \in Reader |-> Idle]

-----------------------------------------------------------------------------
(* Memory.  Lists and trees have addresses; new ones follow the last one   *)
(* that is allocated.                                                      *)

Fresh(f, n) == [i \in 1..n |-> Max({0} \cup DOMAIN f) + i]
Allocated(f, addrs, vals) ==
    [a \in DOMAIN f \cup ToSet(addrs) |->
        IF a \in DOMAIN f THEN f[a] ELSE vals[a - Max({0} \cup DOMAIN f)]]
Freed(f, S) == [a \in DOMAIN f \ S |-> f[a]]

\* A tree is put into memory.
Planted(t) == Allocated(trees, Fresh(trees, 1), <<t>>)

\* The lists behind an array of pointers.
Lists(ptr) == [i \in DOMAIN ptr |-> mem[ptr[i]]]

\* What dclists_find_or_add_raw() has added to a cloned array of pointers.
Added(ptr, lists) == SubSeq(lists, Len(ptr) + 1, Len(lists))
Extended(ptr, lists) == ptr \o Fresh(mem, Len(lists) - Len(ptr))
WithAdded(ptr, lists) == Allocated(mem, Fresh(mem, Len(lists) - Len(ptr)), Added(ptr, lists))

\* (Mutant) The last list of the array is taken for one of the clone's source.
Mutdclists_destroy(m, ptr, old_count, depth) ==
    Freed(m, IF depth = "KILL_NEW_LISTS" THEN {ptr[i] : i \in (old_count + 2)..Len(ptr)} ELSE {})

\* An array is destroyed with none of its lists, or with those that were added
\* to it after it was cloned from another.
dclists_destroy(m, ptr, old_count, depth) ==
    Freed(m, IF depth = "KILL_NEW_LISTS" THEN {ptr[i] : i \in (old_count + 1)..Len(ptr)} ELSE {})

-----------------------------------------------------------------------------
(* Startup: top_config_hook, full_config, pre_privdrop and pre_run.        *)

Configure ==
    /\ main = "config"
    /\ IF ConfigFatal(conf)
       THEN main' = "fatal" /\ UNCHANGED <<map, mem, init_ptr>>
       ELSE \E m \in gdmap_new(conf) :
              /\ map' = m /\ main' = "load"
              /\ init_ptr' = Fresh(mem, Len(m.lists))
              /\ mem' = Allocated(mem, Fresh(mem, Len(m.lists)), m.lists)
    /\ UNCHANGED <<conf, file, trees, cur, rt, new, tried, lock, loopVars, pc, rd>>

\* gdmap_load_geoip: like a reload, but nobody else is there yet.  A failure is
\* fatal; the lists of init_dclists go on as those of the tree.
LoadGeoip ==
    /\ main = "load"
    /\ \E t \in {make_tree(Lists(init_ptr))} :
           /\ tried' = [from |-> content, ok |-> t.ok]
           /\ IF ~t.ok
              THEN main' = "fatal" /\ UNCHANGED <<init_ptr, treeVars>>
              ELSE /\ trees' = Planted([tree |-> t.tree, ptr |-> Extended(init_ptr, t.lists), from |-> content])
                   /\ mem' = dclists_destroy(WithAdded(init_ptr, t.lists), init_ptr, 0, "KILL_NO_LISTS")
                   /\ cur' = Fresh(trees, 1)[1] /\ init_ptr' = <<>> /\ main' = "paths"
    /\ UNCHANGED <<conf, map, file, rt, new, lock, loopVars, pc, rd>>

\* Paths outside the chroot directory, of either file, end the hope of reloads.
SetupPaths ==
    /\ main = "paths" /\ main' = IF conf.rebased THEN "run" ELSE "fixed"
    /\ UNCHANGED <<conf, map, init_ptr, file, treeVars, rt, new, tried, lock, loopVars, pc, rd>>

ev_stat_stat(f) ==
    IF file[f].db = NoneSuch THEN [watch[f].attr EXCEPT !.nlink = 0]
    ELSE [nlink |-> 1, mtime |-> file[f].mtime, ver |-> file[f].ver]

\* The reload thread starts and sets up the watchers, if the files are there.
SetupWatchers ==
    /\ main = "run" /\ rt = "none"
    /\ IF \A f \in watched : file[f].db # NoneSuch
       THEN /\ watch' = [f \in File |-> [watch[f] EXCEPT !.active = f \in watched,
                                                         !.attr = ev_stat_stat(f)]]
            /\ rt' = "loop"
       ELSE rt' = "ended" /\ UNCHANGED watch
    /\ UNCHANGED <<confVars, file, treeVars, new, tried, lock, timer, pend, pc, rd>>

-----------------------------------------------------------------------------
(* The files: replaced by their owner, or removed.                         *)

FileChange(f) ==
    /\ f \in watched /\ file["db"].ver + file["v4o"].ver < MaxChanges
    /\ rt # "none" \/ (StartupGap /\ main \in {"paths", "run"})
    /\ \E c \in Updates[f] \cup {NoneSuch}, m \in {file[f].ver + 1, file[f].mtime} :
         /\ c # file[f].db /\ (SameSecond \/ m = file[f].ver + 1)
         /\ file' = [file EXCEPT ![f] = [db |-> c, mtime |-> m, ver |-> @.ver + 1]]
    /\ UNCHANGED <<confVars, treeVars, rt, new, tried, lock, loopVars, pc, rd>>

-----------------------------------------------------------------------------
(* The loop of the reload thread.                                          *)

\* ev_timer_again of a repeating timer.  An event that is pending stays so.
ev_timer_again == timer' = WAIT

\* Time passes while the loop waits; timers_reify makes the timer pending and
\* arms it anew.
Tick ==
    /\ rt = "loop" /\ pend = {} /\ timer > 0
    /\ IF timer = 1 THEN timer' = WAIT /\ pend' = {"reload"} ELSE timer' = timer - 1 /\ UNCHANGED pend
    /\ UNCHANGED <<confVars, file, treeVars, rt, new, tried, lock, watch, pc, rd>>

\* stat_timer_cb, called by the watcher's own timer or by inotify; both come
\* before callbacks of priority -1.
stat_timer_cb(f) ==
    LET attr == ev_stat_stat(f)
    IN  /\ rt = "loop" /\ watch[f].active /\ f \notin pend /\ attr # watch[f].attr
        /\ watch' = [watch EXCEPT ![f].prev = watch[f].attr, ![f].attr = attr]
        /\ pend' = pend \cup {f}
        /\ UNCHANGED <<confVars, file, treeVars, rt, new, tried, lock, timer, pc, rd>>

\* (Mutant) A file that comes back after it was gone is not read.
Mutreload_stat_cb(f) ==
    LET w == watch[f]
    IN  /\ rt = "loop" /\ f \in pend /\ pend' = pend \ {f}
        /\ IF w.attr.nlink = 1 /\ w.prev.nlink = 1 /\ w.attr.mtime # w.prev.mtime
           THEN ev_timer_again ELSE UNCHANGED timer
        /\ UNCHANGED <<confVars, file, treeVars, rt, new, tried, lock, watch, pc, rd>>

\* gdmap_geoip_reload_stat_cb: the settling timer starts anew.
reload_stat_cb(f) ==
    LET w == watch[f]
    IN  /\ rt = "loop" /\ f \in pend /\ pend' = pend \ {f}
        /\ IF w.attr.nlink = 1 /\ (w.attr.mtime # w.prev.mtime \/ w.prev.nlink = 0)
           THEN ev_timer_again ELSE UNCHANGED timer
        /\ UNCHANGED <<confVars, file, treeVars, rt, new, tried, lock, watch, pc, rd>>

-----------------------------------------------------------------------------
(* gdmap_reload_geoip                                                      *)

\* The timer's callback: the new tree is built on the side, from a clone of the
\* array of lists.
reload_timer_cb ==
    /\ rt = "loop" /\ pend = {"reload"} /\ pend' = {} /\ timer' = 0
    /\ \E ptr \in {trees[cur].ptr} : \E t \in {make_tree(Lists(ptr))} :
           /\ tried' = [from |-> content, ok |-> t.ok]
           /\ IF t.ok
              THEN /\ mem' = WithAdded(ptr, t.lists)
                   /\ trees' = Planted([tree |-> t.tree, ptr |-> Extended(ptr, t.lists), from |-> content])
                   /\ new' = [old |-> cur, new |-> Fresh(trees, 1)[1]] /\ rt' = "built"
              ELSE /\ mem' = dclists_destroy(WithAdded(ptr, t.lists), Extended(ptr, t.lists),
                                             Len(ptr), "KILL_NEW_LISTS")
                   /\ UNCHANGED <<trees, new, rt>>
    /\ UNCHANGED <<confVars, file, cur, lock, watch, pc, rd>>

wrlock ==
    /\ rt = "built" /\ rt' = "wait"
    /\ UNCHANGED <<confVars, file, treeVars, new, tried, lock, loopVars, pc, rd>>

\* (Mutant) The tree is swapped without the lock.
MutSwap ==
    /\ rt = "wait"
    /\ cur' = new.new /\ rt' = "destroy"
    /\ UNCHANGED <<confVars, file, mem, trees, new, tried, lock, loopVars, pc, rd>>

\* The lock is granted, the tree swapped, and the lock given back.
Swap ==
    /\ rt = "wait" /\ lock = {}
    /\ cur' = new.new /\ rt' = "destroy"
    /\ UNCHANGED <<confVars, file, mem, trees, new, tried, lock, loopVars, pc, rd>>

DestroyOld ==
    /\ rt = "destroy" /\ rt' = "loop" /\ new' = NoTree
    /\ mem' = dclists_destroy(mem, trees[new.old].ptr, 0, "KILL_NO_LISTS")
    /\ trees' = Freed(trees, {new.old})
    /\ UNCHANGED <<confVars, file, cur, tried, lock, loopVars, pc, rd>>

-----------------------------------------------------------------------------
(* gdmap_lookup in an I/O thread, and its caller.                          *)

RdStep(r, from, to) ==
    /\ pc[r] = from /\ pc' = [pc EXCEPT ![r] = to]
    /\ UNCHANGED <<confVars, file, treeVars, rt, new, tried, loopVars>>

\* (Mutant) Readers are let in although a writer waits.
Mutrdlock(r) ==
    /\ main \in {"run", "fixed"} /\ RdStep(r, "idle", "lookup")
    /\ \E c \in Clients : rd' = [rd EXCEPT ![r].client = c]
    /\ lock' = lock \cup {r}

\* Writers go first (PREFER_WRITER_NONRECURSIVE).
rdlock(r) ==
    /\ main \in {"run", "fixed"} /\ rt # "wait" /\ RdStep(r, "idle", "lookup")
    /\ \E c \in Clients : rd' = [rd EXCEPT ![r].client = c]
    /\ lock' = lock \cup {r}

\* ntree_lookup is given the tree and walks through it.
enter(r) ==
    /\ RdStep(r, "lookup", "walk") /\ UNCHANGED lock
    /\ rd' = [rd EXCEPT ![r].tree = cur]

lookup(r) ==
    /\ RdStep(r, "walk", "list") /\ UNCHANGED lock
    /\ rd' = [rd EXCEPT ![r].idx = ntree_lookup(trees[rd[r].tree].tree, rd[r].client).idx]

\* The pointer is fetched from the array of whatever is the tree by now.
get_list(r) ==
    /\ RdStep(r, "list", "unlock") /\ UNCHANGED lock
    /\ LET p == trees[cur].ptr[rd[r].idx + 1]
       IN  rd' = [rd EXCEPT ![r].ptr = p, ![r].want = mem[p]]

rdunlock(r) == RdStep(r, "unlock", "use") /\ lock' = lock \ {r} /\ UNCHANGED rd

\* meta_core.c has walked through the list.
Used(r) == RdStep(r, "use", "idle") /\ rd' = [rd EXCEPT ![r] = Idle] /\ UNCHANGED lock

-----------------------------------------------------------------------------
Watching == Tick \/ \E f \in watched : stat_timer_cb(f) \/ reload_stat_cb(f)
Reload == wrlock \/ Swap \/ DestroyOld

Next ==
    \/ Configure \/ LoadGeoip \/ SetupPaths \/ SetupWatchers
    \/ \E f \in File : FileChange(f)
    \/ Watching \/ reload_timer_cb \/ Reload
    \/ \E r \in Reader : rdlock(r) \/ enter(r) \/ lookup(r) \/ get_list(r) \/ rdunlock(r) \/ Used(r)

\* The daemon starts up; the reload thread runs, its loop sees changes by
\* inotify or the next poll and runs timers that have expired; a thread inside
\* gdmap_lookup() goes on.  Nothing is assumed of files and queries.  Of the steps
\* that build or search a tree the formulas name only what moves control: in a
\* step of Next this identifies them.
Startup == main \in {"config", "load", "paths"} /\ main' \in {"fatal", "load", "paths", "run", "fixed"}
Reloading == rt = "loop" /\ pend = {"reload"} /\ pend' = {}
After == [lookup |-> "walk", walk |-> "list", list |-> "unlock", unlock |-> "use", use |-> "idle"]
Lookup(r) == pc[r] # "idle" /\ pc' = [pc EXCEPT ![r] = After[@]]

Fairness ==
    /\ WF_main(Startup) /\ WF_rt(SetupWatchers)
    /\ WF_loopVars(Watching) /\ WF_pend(Reloading) /\ WF_rt(Reload)
    /\ \A r \in Reader : WF_pc(Lookup(r))

Spec == Init /\ [][Next]_vars /\ Fairness

-----------------------------------------------------------------------------
(* Properties.                                                             *)

TypeOK ==
    /\ main \in {"config", "load", "paths", "run", "fixed", "fatal"}
    /\ rt \in {"none", "loop", "built", "wait", "destroy", "ended"}
    /\ cur \in {0} \cup DOMAIN trees /\ timer \in 0..WAIT /\ pend \subseteq File \cup {"reload"}
    /\ lock \subseteq Reader /\ DOMAIN rd = Reader

\* What the reload protocol relies on in a build from lists l and databases d and o:
\* lists are only added, and if there is a tree, every client finds one of them.
BuildSound(c, m, l, d, o) ==
    LET t == gdmap_make_tree(c, m, l, d, o)
    IN  /\ IsPrefix(l, t.lists)
        /\ t.ok => \A client \in Clients :
              LET x == ntree_lookup(t.tree, client)
              IN  x # NoneSuch /\ x.idx \in 0..(Len(t.lists) - 1)

\* The databases a file may hold.
Databases(f) == Contents[f] \cup Updates[f] \cup {NoneSuch}

\* A thread inside gdmap_lookup never walks through a tree that has been destroyed
\* or is incomplete, and takes the list from the tree that gave the index; the list
\* it goes on to use without the lock stays what it was.
ReadersSafe ==
    \A r \in Reader :
        /\ pc[r] = "walk" => /\ rd[r].tree \in DOMAIN trees
                             /\ ntree_lookup(trees[rd[r].tree].tree, rd[r].client) # NoneSuch
        /\ pc[r] = "list" => rd[r].tree = cur /\ rd[r].idx < Len(trees[cur].ptr)
        /\ pc[r] \in {"unlock", "use"} => rd[r].ptr \in DOMAIN mem /\ mem[rd[r].ptr] = rd[r].want

\* The allocated lists are those of the current tree, of one under construction,
\* or of the configuration: reloads, successful or not, leak none and free none
\* that is in use.
ListsOwned ==
    DOMAIN mem = ToSet(init_ptr) \cup UNION {ToSet(trees[t].ptr) : t \in DOMAIN trees}

\* What addresses find in a tree, "gone" if the walk fails.
Found(t, ip) ==
    LET l == LookupAddr(t.tree, ip)
    IN  IF l = NoneSuch THEN <<"gone">>
        ELSE IF l.idx < 0 THEN mem[t.ptr[1]] ELSE mem[t.ptr[l.idx + 1]]

\* A tree that has just been built; that readers come and go meanwhile is no matter.
Built == {trees[t] : t \in IF rt = "built" /\ \A r \in Reader : pc[r] = "idle" THEN {new.new} ELSE IF main = "paths" THEN {cur} ELSE {}}

\* A new tree gives every address the list that nets, map and database say: the
\* merging of equal neighbours, the splitting of terminals for nets, the overlay
\* and the spaces left out of the translation change no answer.
LookupMatches ==
    \A t \in Built, v6 \in BOOLEAN : \A ip \in Addr(v6) :
        LET c  == IF v6 THEN v6_v4compat(ip) ELSE [adj |-> 0, ip |-> ip]
            ip4or6 == IF c.adj = 0 THEN ip ELSE c.ip
        IN  Found(t, ip) = IF Len(ip4or6) = B6 /\ ~t.tree.ipv6 THEN RefDefault(conf)
                           ELSE RefLookup(conf, t.from["db"],
                                          IF conf.v4o THEN t.from["v4o"] ELSE NoneSuch, ip4or6)

\* The scope of an answer may be cached: every address of the network it names
\* gets that list, as far as it is looked up in the same way.
ScopeUniform ==
    \A t \in Built, v6 \in BOOLEAN : \A ip \in Addr(v6) :
        LET l == LookupAddr(t.tree, ip)
            list == Found(t, ip)
            Kind(a) == v6 /\ v6_v4compat(a).adj # 0
            Network == {SubSeq(ip, 1, l.mask) \o s : s \in [1..(Len(ip) - l.mask) -> Bit]}
        IN  l # NoneSuch => \A ip2 \in Network : Kind(ip2) = Kind(ip) => Found(t, ip2) = list

\* Files that are replaced are read in the end, and served if they are any good,
\* whatever happened before: files that vanished, that were corrupt, that changed
\* again while they were read, or readers that never leave a gap.
Freshness ==
    <>[](rt \notin {"none", "ended"} /\ NoneSuch \notin Range(content)
         => tried.from = content /\ (tried.ok => trees[cur].from = content))
=============================================================================
