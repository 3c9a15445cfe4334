----------------------------- MODULE Resolvers -----------------------------
(***************************************************************************)
(* How an I/O thread resolves a DYNA or DYNC resource: the meta plugins    *)
(* (metafo, and geoip as far as meta_core.c goes) try the datacenters of a *)
(* list in turn, each of them resolved by simplefo, multifo, weighted or a *)
(* plugin without monitoring, while the main thread goes on storing new    *)
(* states.  A thread reads the state words one at a time and takes no lock.*)
(*                                                                         *)
(* A resource is [dcs, lists, dyncs]: its datacenters and the datacenter   *)
(* lists a client may be mapped to for DYNA and DYNC.  A datacenter is     *)
(* [plugin, resname, v4, v6, cnames], an address set [items, multi,        *)
(* thresh], an item a sequence of addresses [addr, weight, words], one     *)
(* word for each of the set's service types.  The primary and the          *)
(* secondary of simplefo are two items of one address each; "cname" is a   *)
(* datacenter that is the name itself.  The scope of a meta plugin's       *)
(* answer is its list's (GdMaps), whatever the datacenter's plugin set.    *)
(***************************************************************************)
EXTENDS Naturals, Sequences, FiniteSets, SequencesExt

CONSTANTS Word,        \* the monitored state words
          Resources,   \* the resources that may be configured
          V6,          \* the addresses that are IPv6
          Clients,     \* client_info_t: [src, edns], edns = Zero if not sent
          Zero,        \* 0.0.0.0
          TTL,         \* of the zone file record
          MaxAddrs,    \* 64 addresses of a family fit into a result
          MAX_ITEMS,   \* MAX_ITEMS_PER_SET and MAX_ADDRS_PER_GROUP, 64
          MAX_WEIGHT,
          MaxStores    \* bound: state changes during one query

DOWN == 1
DANGER == 2
UP == 3
States == {DOWN, DANGER, UP}

ASSUME ResolversAssumption ==
    /\ TTL \in Nat /\ MaxAddrs \in Nat /\ MAX_ITEMS \in 1 .. MaxAddrs
    /\ MAX_WEIGHT \in Nat /\ MaxStores \in Nat
    /\ Zero \notin V6
    /\ \A x \in Resources : \A l \in x.lists \cup x.dyncs : Range(l) \subseteq DOMAIN x.dcs

VARIABLES res,      \* the resource
          word,     \* the state words
          pc,       \* "idle", or where the resolution in progress is
          r,        \* its local state and result
          was,      \* the states each word has had since it began
          stores    \* number of stores since it began

vars == <<res, word, pc, r, was, stores>>

-----------------------------------------------------------------------------
(* Address sets *)

Total(s) == LET sum[n \in 0 .. Len(s)] == IF n = 0 THEN 0 ELSE sum[n - 1] + s[n] IN sum[Len(s)]
Biggest(s) == Max({0} \cup Range(s))
Ceil(t, n) == (t[1] * n + t[2] - 1) \div t[2]

\* The elements of s that are in S, in their order.
Kept(s, S) == FlattenSeq([i \in DOMAIN s |-> IF s[i] \in S THEN <<s[i]>> ELSE <<>>])

Addrs(set) == FlattenSeq(set.items)
WordsOf(set) == UNION {Range(Addrs(set)[i].words) : i \in DOMAIN Addrs(set)}
NamesOf(set) == {Addrs(set)[i].addr : i \in DOMAIN Addrs(set)}
DcWords(d) == WordsOf(res.dcs[d].v4) \cup WordsOf(res.dcs[d].v6)
Used == UNION {DcWords(d) : d \in DOMAIN res.dcs}

-----------------------------------------------------------------------------
(* Configuration: what the plugins accept; anything else is fatal.  Unused   *)
(* families and sets of names have no items.                                 *)

\* up_thresh is in (0.0 - 1.0].
ThreshOk(set) == set.thresh[1] \in 1 .. set.thresh[2]

\* An address is of the family of its stanza, and service_types is not empty.
addr_setup(a, fam, n) == (a.addr \in V6 <=> fam = "v6") /\ Len(a.words) = n /\ n > 0

\* simplefo: a primary and a secondary.
simplefo_config(set, fam) ==
    /\ Len(set.items) = 2 /\ \A i \in 1 .. 2 : Len(set.items[i]) = 1
    /\ \A i \in 1 .. 2 : addr_setup(set.items[i][1], fam, Len(set.items[1][1].words))

\* multifo: between 1 and 64 addresses.
multifo_config(set, fam) ==
    /\ Len(set.items) \in 1 .. MaxAddrs /\ ThreshOk(set)
    /\ \A i \in DOMAIN set.items :
         Len(set.items[i]) = 1 /\ addr_setup(set.items[i][1], fam, Len(set.items[1][1].words))

\* weighted: an item is one address, or a group of addresses.
config_item_addrs(a, fam, n) == addr_setup(a, fam, n) /\ a.weight \in 1 .. MAX_WEIGHT
config_item_addr_groups(item, fam, n) ==
    Len(item) \in 1 .. MAX_ITEMS /\ \A i \in DOMAIN item : config_item_addrs(item[i], fam, n)
config_addrset(set, fam) ==
    /\ Len(set.items) \in 1 .. MAX_ITEMS /\ ThreshOk(set)
    /\ \A i \in DOMAIN set.items :
         config_item_addr_groups(set.items[i], fam, Len(set.items[1][1].words))
config_cnameset(cnames) ==
    Len(cnames) \in 1 .. MAX_ITEMS /\ \A i \in DOMAIN cnames : cnames[i].weight \in 1 .. MAX_WEIGHT

\* static: an IPv4 address or a name.  null: a fixed answer to everything.
Single(set) == Len(set.items) = 1 /\ Len(set.items[1]) = 1
static_config(dc) ==
    /\ dc.v6.items = <<>> /\ (dc.v4.items = <<>> <=> Len(dc.cnames) = 1)
    /\ dc.v4.items # <<>> => Single(dc.v4) /\ dc.v4.items[1][1].addr \notin V6
null_config(dc) ==
    /\ Single(dc.v4) /\ Single(dc.v6) /\ Len(dc.cnames) = 1
    /\ dc.v4.items[1][1].addr \notin V6 /\ dc.v6.items[1][1].addr \in V6

\* reflect: the resource name is the kind of response, "best" if there is none.
Responses == {"dns", "edns", "best", "both"}
response(resname) == IF resname = "" THEN "best" ELSE resname

FamilyOk(dc, fam) ==
    dc[fam].items # <<>> =>
      CASE dc.plugin = "simplefo" -> simplefo_config(dc[fam], fam)
        [] dc.plugin = "multifo"  -> multifo_config(dc[fam], fam)
        [] dc.plugin = "weighted" -> config_addrset(dc[fam], fam)
        [] OTHER                  -> TRUE

DcOk(dc) ==
    /\ \A fam \in {"v4", "v6"} : FamilyOk(dc, fam)
    /\ dc.cnames # <<>> => config_cnameset(dc.cnames)
    /\ dc.plugin = "static" => static_config(dc)
    /\ dc.plugin = "null" => null_config(dc)

\* The values vscf hands to the plugins, for addresses in N: only simplefo, multifo
\* and weighted ask for their addresses to be monitored.
Monitors == {"simplefo", "multifo", "weighted"}
Plugins == Monitors \cup {"static", "null", "reflect", "cname"}
Address(N) == [addr : N, weight : Nat, words : Seq(Word)]
WellFormed(x, N) ==
    /\ x.lists \cup x.dyncs \subseteq Seq(DOMAIN x.dcs)
    /\ \A d \in DOMAIN x.dcs :
         /\ x.dcs[d].plugin \in Plugins
         /\ \A fam \in {"v4", "v6"} :
              /\ x.dcs[d][fam].items \in Seq(Seq(Address(N)))
              /\ x.dcs[d][fam].thresh \in Nat \X Nat
              /\ x.dcs[d].plugin \notin Monitors =>
                   \A i \in DOMAIN x.dcs[d][fam].items : \A a \in DOMAIN x.dcs[d][fam].items[i] :
                      x.dcs[d][fam].items[i][a].words = <<>>

\* No address is in a set twice.
Distinct(set) ==
    \A i, j \in DOMAIN set.items : \A a \in DOMAIN set.items[i], b \in DOMAIN set.items[j] :
       set.items[i][a].addr = set.items[j][b].addr => i = j /\ a = b
DistinctAddrs(x) == \A d \in DOMAIN x.dcs : Distinct(x.dcs[d].v4) /\ Distinct(x.dcs[d].v6)

make_resource(x) == x.dcs # <<>> /\ \A d \in DOMAIN x.dcs : DcOk(x.dcs[d])

\* map_res(): a datacenter can answer a DYNA or a DYNC of the zone file, its
\* plugin being of that kind and having a resource of that kind.
AnswersDyna(dc) == IF dc.plugin = "reflect" THEN response(dc.resname) \in Responses
                   ELSE dc.plugin # "cname" /\ (dc.v4.items # <<>> \/ dc.v6.items # <<>>)
AnswersDync(dc) == dc.plugin \in {"cname", "weighted", "static", "null"} /\ dc.cnames # <<>>
map_res(x) ==
    /\ x.lists # {} => \A d \in DOMAIN x.dcs : AnswersDyna(x.dcs[d])
    /\ x.dyncs # {} => \A d \in DOMAIN x.dcs : AnswersDync(x.dcs[d])

-----------------------------------------------------------------------------
(* Reading the states *)

\* The reads gdnsd_monio_min_state() makes for one item after the other.
Reads(item) == FlattenSeq([a \in DOMAIN item |->
                 [k \in DOMAIN item[a].words |-> [addr |-> item[a].addr, word |-> item[a].words[k]]]])
AllReads(set) == FlattenSeq([i \in DOMAIN set.items |-> Reads(set.items[i])])

\* simplefo looks at the secondary only when it must.
FirstReads(plugin, set) ==
    IF plugin = "simplefo" THEN Reads(set.items[1]) ELSE AllReads(set)

-----------------------------------------------------------------------------
(* What a plugin makes of the states it has seen: the possible results *)

\* Mutant: the secondary is used whatever its own state.
Mutsimplefo(set, seen) ==
    LET pri == set.items[1][1].addr
        sec == set.items[2][1].addr
    IN  {[addrs |-> <<IF seen[pri] = DOWN THEN sec ELSE pri>>, rv |-> TRUE, cut |-> seen[pri] # UP]}

simplefo(set, seen) ==
    LET pri == set.items[1][1].addr
        sec == set.items[2][1].addr
    IN  {[addrs |-> <<IF seen[pri] = DOWN /\ seen[sec] # DOWN THEN sec ELSE pri>>,
          rv    |-> seen[pri] # DOWN \/ seen[sec] # DOWN,
          cut   |-> seen[pri] # UP]}

multifo(set, seen) ==
    LET all == [i \in DOMAIN set.items |-> set.items[i][1].addr]
        up  == Kept(all, {a \in Range(all) : seen[a] # DOWN})
        met == Len(up) >= Ceil(set.thresh, Len(all))
    IN  {[addrs |-> IF met THEN up ELSE all, rv |-> met, cut |-> \E a \in Range(all) : seen[a] # UP]}

\* The weights of the addresses, per item; all of them if none would be left.
Configured(set) == [i \in DOMAIN set.items |-> [a \in DOMAIN set.items[i] |-> set.items[i][a].weight]]
Sums(ws) == [i \in DOMAIN ws |-> Total(ws[i])]
Weights(set, seen) ==
    LET dyn == [i \in DOMAIN set.items |-> [a \in DOMAIN set.items[i] |->
                 IF seen[set.items[i][a].addr] # DOWN THEN set.items[i][a].weight ELSE 0]]
    IN  IF Total(Sums(dyn)) = 0 THEN Configured(set) ELSE dyn

\* get_rand(): a 64-bit random number modulo the argument; any residue.
get_rand(modval) == 0 .. modval - 1

\* The address, or item, a random number falls on.
Pick(ws, rand) ==
    CHOOSE a \in DOMAIN ws : rand < Total(SubSeq(ws, 1, a)) /\ Total(SubSeq(ws, 1, a - 1)) <= rand

\* Mutant: an item is weighed against the sum of all instead of the largest.
MutItemOdds(ws) == Total(Sums(ws))

\* multi: an item takes part with the odds of its sum against the largest sum.
ItemOdds(ws) == Biggest(Sums(ws))

\* multi: no address or one address of each item.
ItemPicks(item, w, odds) ==
    {<<item[Pick(w, rand)].addr>> : rand \in get_rand(Total(w))}
      \cup {<<>> : rand \in {n \in get_rand(odds) : n >= Total(w)}}
MultiPicks(set, ws) ==
    LET picks == [i \in DOMAIN ws |-> ItemPicks(set.items[i], ws[i], ItemOdds(ws))]
    IN  {FlattenSeq(p) : p \in {f \in [DOMAIN ws -> UNION Range(picks)] : \A i \in DOMAIN ws : f[i] \in picks[i]}}

\* single: one item, and of it each address with the odds of its weight
\* against the largest one.
AddrPicks(item, w) ==
    {LET chosen == Kept([a \in DOMAIN w |-> a], {a \in DOMAIN w : rand[a] < w[a]})
     IN  [k \in DOMAIN chosen |-> item[chosen[k]].addr]
       : rand \in [DOMAIN w -> get_rand(Biggest(w))]}
SinglePicks(set, ws) ==
    UNION {AddrPicks(set.items[i], ws[i]) : i \in {Pick(Sums(ws), rand) : rand \in get_rand(Total(Sums(ws)))}}

weighted(set, seen) ==
    LET ws == Weights(set, seen)
    IN  {[addrs |-> s,
          rv    |-> Total(Sums(ws)) >= Ceil(set.thresh, Total(Sums(Configured(set)))),
          cut   |-> \E a \in NamesOf(set) : seen[a] # UP]
           : s \in IF set.multi THEN MultiPicks(set, ws) ELSE SinglePicks(set, ws)}

\* static and null: a fixed answer.
fixed(set) == {[addrs |-> [i \in DOMAIN set.items |-> set.items[i][1].addr], rv |-> TRUE, cut |-> FALSE]}

\* reflect: the addresses of the client.
reflect(kind, c) ==
    LET ecs == c.edns # Zero
    IN  (IF kind \in {"both", "dns"} \/ (kind = "best" /\ ~ecs) THEN <<c.src>> ELSE <<>>)
          \o (IF ecs /\ kind # "dns" THEN <<c.edns>> ELSE <<>>)
          \o (IF ~ecs /\ kind = "edns" THEN <<Zero>> ELSE <<>>)

Results(plugin, set, seen) ==
    CASE plugin = "simplefo" -> simplefo(set, seen)
      [] plugin = "multifo"  -> multifo(set, seen)
      [] plugin = "weighted" -> weighted(set, seen)
      [] plugin \in {"static", "null"} -> fixed(set)

-----------------------------------------------------------------------------
(* The resolution *)

Nothing == [list |-> <<>>, all |-> <<>>, retry |-> FALSE, dc |-> 0, fam |-> "v4", sec |-> FALSE,
            todo |-> <<>>, seen |-> <<>>, v4 |-> <<>>, v6 |-> <<>>, cut |-> FALSE, ttl |-> TTL,
            rv |-> TRUE, out |-> TRUE, cname |-> {}, client |-> {}, bad |-> FALSE]

\* Each address goes to the part of the result its own family names.
add_result_anysin(x, addrs) ==
    [x EXCEPT !.v4 = @ \o Kept(addrs, Range(addrs) \ V6),
              !.v6 = @ \o Kept(addrs, V6)]

Start(x, fam) ==
    LET dc  == res.dcs[x.dc]
        set == dc[fam]
    IN  [x EXCEPT !.fam = fam, !.sec = FALSE, !.todo = FirstReads(dc.plugin, set),
                  !.seen = [a \in NamesOf(set) |-> UP]]

\* Mutant: the result of the datacenter before is not wiped.
MutCall(x, d) ==
    Start([x EXCEPT !.dc = d, !.cut = FALSE, !.ttl = TTL, !.rv = TRUE],
          IF res.dcs[d].v4.items # <<>> THEN "v4" ELSE "v6")

\* Mutant: the TTL of the record is not put back before the next datacenter.
MutCallTtl(x, d) ==
    Start([x EXCEPT !.dc = d, !.v4 = <<>>, !.v6 = <<>>, !.cut = FALSE, !.rv = TRUE],
          IF res.dcs[d].v4.items # <<>> THEN "v4" ELSE "v6")

\* CB_RES_A calls the plugin of a datacenter with a wiped result.
Call(x, d) ==
    Start([x EXCEPT !.dc = d, !.v4 = <<>>, !.v6 = <<>>, !.cut = FALSE, !.ttl = TTL, !.rv = TRUE],
          IF res.dcs[d].v4.items # <<>> THEN "v4" ELSE "v6")

Begin(l) ==
    IF l = <<>> THEN pc' = "done" /\ r' = Nothing
    ELSE pc' = "read" /\ r' = Call([Nothing EXCEPT !.list = Tail(l), !.all = l], l[1])

\* Synthetic resource/datacenter names: lists of one datacenter.
Synthetic(rr) ==
    {<<d>> : d \in {k \in DOMAIN res.dcs :
                      IF rr = "DYNA" THEN AnswersDyna(res.dcs[k]) ELSE AnswersDync(res.dcs[k])}}

\* The list of the client, or of a synthetic name.
CB_RES_A ==
    /\ pc = "idle"
    /\ \E l \in res.lists \cup Synthetic("DYNA") : Begin(l)
    /\ UNCHANGED <<res, word, was, stores>>

\* One iteration of gdnsd_monio_min_state().
ReadState ==
    /\ pc = "read" /\ r.todo # <<>>
    /\ LET t == Head(r.todo)
       IN  r' = [r EXCEPT !.todo = Tail(@),
                          !.seen[t.addr] = IF word[t.word] < r.seen[t.addr] THEN word[t.word]
                                           ELSE r.seen[t.addr]]
    /\ UNCHANGED <<res, word, pc, was, stores>>

Dc == res.dcs[r.dc]
NeedsSecondary == /\ Dc.plugin = "simplefo" /\ ~r.sec
                  /\ r.seen[Dc[r.fam].items[1][1].addr] = DOWN

ReadSecondary ==
    /\ pc = "read" /\ r.todo = <<>> /\ NeedsSecondary
    /\ r' = [r EXCEPT !.sec = TRUE, !.todo = Reads(Dc[r.fam].items[2])]
    /\ UNCHANGED <<res, word, pc, was, stores>>

\* The rest of a plugin's resolve function for one family, and what follows it.
EndFamily ==
    /\ pc = "read" /\ r.todo = <<>> /\ ~NeedsSecondary /\ Dc.plugin # "reflect"
    /\ \E o \in Results(Dc.plugin, Dc[r.fam], r.seen) :
         LET x == add_result_anysin([r EXCEPT !.rv = @ /\ o.rv, !.cut = @ \/ o.cut], o.addrs)
             y == [x EXCEPT !.bad = @ \/ x[r.fam] = <<>> \/ Len(x[r.fam]) > MaxAddrs]
         IN  IF r.fam = "v4" /\ Dc.v6.items # <<>>
             THEN r' = Start(y, "v6") /\ UNCHANGED pc
             ELSE /\ r' = [y EXCEPT !.ttl = IF y.cut THEN @ \div 2 ELSE @, !.todo = <<>>, !.seen = <<>>]
                  /\ pc' = "return"
    /\ UNCHANGED <<res, word, was, stores>>

\* reflect asks for an empty result and always succeeds; nothing before it has
\* looked at the client, so which client it is can be chosen here.
Reflect ==
    /\ pc = "read" /\ Dc.plugin = "reflect"
    /\ \E c \in Clients :
         LET x == add_result_anysin([r EXCEPT !.client = {c.src, c.edns}], reflect(response(Dc.resname), c))
         IN  r' = [x EXCEPT !.bad = @ \/ r.v4 \o r.v6 # <<>> \/ x.v4 \o x.v6 = <<>>]
    /\ pc' = "return"
    /\ UNCHANGED <<res, word, was, stores>>

\* Back in CB_RES_A: done, the next datacenter, or the first one once more.
Succeeded ==
    /\ pc = "return" /\ r.rv /\ ~r.retry
    /\ pc' = "done" /\ UNCHANGED <<res, word, r, was, stores>>

NextDatacenter ==
    /\ pc = "return" /\ ~r.rv /\ ~r.retry /\ r.list # <<>>
    /\ pc' = "read" /\ r' = Call([r EXCEPT !.list = Tail(@)], Head(r.list))
    /\ UNCHANGED <<res, word, was, stores>>

FirstAgain ==
    /\ pc = "return" /\ ~r.rv /\ ~r.retry /\ r.list = <<>>
    /\ pc' = "read" /\ r' = Call([r EXCEPT !.retry = TRUE], r.all[1])
    /\ UNCHANGED <<res, word, was, stores>>

AllFailed ==
    /\ pc = "return" /\ r.retry
    /\ pc' = "done" /\ r' = [r EXCEPT !.out = FALSE]
    /\ UNCHANGED <<res, word, was, stores>>

\* For DYNC only the first datacenter counts, by its name or its plugin; index
\* 0 of the array of datacenters has neither.
CB_RES_C ==
    /\ pc = "idle"
    /\ \E l \in res.dyncs \cup Synthetic("DYNC") :
         IF l = <<>> THEN r' = [Nothing EXCEPT !.bad = TRUE]
         ELSE LET cn == res.dcs[l[1]].cnames
                  ws == [k \in DOMAIN cn |-> cn[k].weight]
              IN  \E rand \in get_rand(Total(ws)) :
                    r' = [Nothing EXCEPT !.all = l, !.dc = l[1], !.cname = {cn[Pick(ws, rand)].name},
                                         !.ttl = IF res.dcs[l[1]].plugin = "static" THEN 600 ELSE @]
    /\ pc' = "done"
    /\ UNCHANGED <<res, word, was, stores>>

\* The result is encoded (DnsPacket), and the next query may come.
Answered ==
    /\ pc = "done"
    /\ pc' = "idle" /\ r' = Nothing /\ stores' = 0
    /\ was' = [w \in Word |-> {word[w]}]
    /\ UNCHANGED <<res, word>>

-----------------------------------------------------------------------------
\* monio_state_set() by the main thread, between any two reads: the changes of
\* state gdnsd_monio_state_updater() makes.
Store(w, s) ==
    /\ pc \notin {"idle", "done"} /\ stores < MaxStores
    /\ w \in Used
    /\ \/ word[w] = UP /\ s = DANGER
       \/ word[w] = DANGER /\ s \in {UP, DOWN}
       \/ word[w] = DOWN /\ s = UP
    /\ word' = [word EXCEPT ![w] = s]
    /\ was' = [was EXCEPT ![w] = @ \cup {s}]
    /\ stores' = stores + 1
    /\ UNCHANGED <<res, pc, r>>

Init ==
    /\ res \in {x \in Resources : make_resource(x) /\ map_res(x)}
    /\ word \in {f \in [Word -> States] : \A w \in Word \ Used : f[w] = UP}
    /\ pc = "idle" /\ r = Nothing /\ stores = 0
    /\ was = [w \in Word |-> {word[w]}]

Next ==
    \/ CB_RES_A \/ ReadState \/ ReadSecondary \/ EndFamily \/ Reflect
    \/ Succeeded \/ NextDatacenter \/ FirstAgain \/ AllFailed
    \/ CB_RES_C \/ Answered
    \/ \E w \in Word, s \in States : Store(w, s)

Spec == Init /\ [][Next]_vars

-----------------------------------------------------------------------------
(* Properties *)

\* The assertions of the resolver plugins, for whatever their configuration
\* accepts: every family that is configured contributes an address, whatever
\* the weights, states and random numbers, the result has room for them, and a
\* DYNC has a name or a plugin to ask.
Assertions == ~r.bad

Given == Range(r.v4) \cup Range(r.v6)

\* The answer is the one of a single datacenter, each address once (reflect
\* "both" repeats a client that is its own subnet): nothing is left over from
\* the datacenters that were tried before.  If all have failed, it is the first
\* one of the client's list.
OneDatacenter ==
    pc = "done" /\ r.dc # 0 =>
      /\ IF res.dcs[r.dc].plugin = "reflect" THEN Given \subseteq r.client /\ Given # {}
         ELSE /\ Range(r.v4) \subseteq NamesOf(res.dcs[r.dc].v4) /\ Range(r.v6) \subseteq NamesOf(res.dcs[r.dc].v6)
              /\ Cardinality(Given) = Len(r.v4) + Len(r.v6)
      /\ r.out \/ r.dc = r.all[1]

\* No address of a successful answer has a word that was DOWN for the whole
\* query, except that weighted serves a set of addresses that are all down as
\* if they were up; and a datacenter is passed over only if a word of it was
\* DOWN at some time of the query.  Stores between the reads neither cost a
\* healthy datacenter its place nor win one for a dead address.
FailoverJustified ==
    pc = "done" /\ r.dc # 0 /\ r.cname = {} =>
      /\ \A fam \in {"v4", "v6"} : \A a \in Range(Addrs(res.dcs[r.dc][fam])) :
           r.out /\ a.addr \in Given /\ (\E w \in Range(a.words) : was[w] = {DOWN}) =>
             /\ res.dcs[r.dc].plugin = "weighted"
             /\ \A b \in Range(Addrs(res.dcs[r.dc][fam])) : \E w \in Range(b.words) : DOWN \in was[w]
      /\ \A k \in DOMAIN r.all :
           ~r.out \/ (\A j \in 1 .. k : r.all[j] # r.dc) => \E w \in DcWords(r.all[k]) : DOWN \in was[w]

\* The TTL is halved at most once, and only and always when states other than
\* UP were seen in the datacenter that answers, not in those tried before.
TtlHalvedOnce ==
    pc = "done" /\ r.dc # 0 /\ r.cname = {} =>
      /\ r.ttl \in {TTL, TTL \div 2}
      /\ (\A w \in DcWords(r.dc) : was[w] = {UP}) => r.ttl = TTL
      /\ DcWords(r.dc) # {} /\ (\A w \in DcWords(r.dc) : UP \notin was[w]) => r.ttl = TTL \div 2
=============================================================================
