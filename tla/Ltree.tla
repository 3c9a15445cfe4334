------------------------------- MODULE Ltree -------------------------------
(***************************************************************************)
(* The label tree: the zone data of the server, built once at startup by   *)
(* the zone file scanner (zscan.rl) and the post-processing of ltree.c,    *)
(* and read by every I/O thread afterwards.                                *)
(*                                                                         *)
(* A domain name is the sequence of its labels in wire order, so that the  *)
(* names of the path from the root of the DNS to a name are its suffixes.  *)
(* The hash table of children of a node and its growth are represented by  *)
(* the set of names that have a node.  "MX" and "SRV" stand for the types  *)
(* that attract additional addresses: MX and PTR, whose names are          *)
(* compressed, and SRV and NAPTR (with the flag A), whose names are not.   *)
(* "TXT" stands for the types whose data is opaque (TXT, SPF, RFC 3597).   *)
(* strict_data is off: what it would refuse is loaded with a warning,      *)
(* which admits the most zone data.                                        *)
(***************************************************************************)
EXTENDS Naturals, Sequences, FiniteSets, SequencesExt

CONSTANTS Zones,             \* the configured zones (names)
          Records,           \* what zone files may hold, in scanning order
          Mandatory,         \* the positions of Records that are always there
          max_cname_depth,
          max_addtl_rrsets,
          max_addrs,         \* UINT8_MAX: addresses of a family at a name
          max_rrs            \* UINT16_MAX: RRs of another type at a name

ASSUME LimitsAssumption ==
    /\ max_addrs \in Nat \ {0} /\ max_rrs \in Nat \ {0}
    /\ max_cname_depth \in Nat \ {0}
    /\ max_addtl_rrsets \in Nat \ {0}
    /\ Mandatory \subseteq DOMAIN Records

\* What the configuration and the scanner let through.  A SOA record is only
\* taken at the zone root.  "ok": the numbers of a record are in range, and the
\* plugin of a DYNA or DYNC is loaded and can resolve it.
Star == "*"
Label == STRING \cup {Star}
Name == Seq(Label)
RecordType == {"SOA", "NS", "A", "AAAA", "DYNA", "CNAME", "DYNC", "MX", "SRV", "TXT"}

ASSUME RecordsAssumption ==
    /\ Zones \subseteq Name
    /\ Len(Records) \in Nat /\ DOMAIN Records = 1 .. Len(Records)
    /\ \A i \in DOMAIN Records :
         /\ Records[i].zone \in Zones /\ Records[i].type \in RecordType
         /\ Records[i].name \in Name /\ Records[i].rd \in Name /\ Records[i].lim \in Nat
         /\ Records[i].type = "SOA" => Records[i].name = Records[i].zone

VARIABLES phase,   \* how far ltree_load_zones() is; "run" when serving
          pos,     \* zones still to be added, then the next position of Records
          tree,    \* ltree_root: name -> [flags, rrsets]
          ooz,     \* out-of-zone glue: <<zone, name>> -> address rrset
          loaded   \* the records that were taken from the zone files

ltree == <<phase, pos, tree, ooz, loaded>>

-----------------------------------------------------------------------------
(* Names *)

Suffix(d, k) == SubSeq(d, Len(d) - k + 1, Len(d))
Path(d) == {Suffix(d, k) : k \in 0 .. Len(d)}
InZone(d, z) == Len(z) <= Len(d) /\ Suffix(d, Len(z)) = z
Longest(names) == CHOOSE n \in names : \A m \in names : Len(m) <= Len(n)

-----------------------------------------------------------------------------
(* Nodes and rrsets *)

Flags == {"AUTH", "ZROOT", "DELEG", "GUSED"}
Filler == [flags |-> {}, rrsets |-> <<>>]

\* One shape for every rrset; an address rrset uses the counts and limits,
\* the others a sequence of rdata.  "ad" holds at most one address rrset.
Rdata(d) == [dname |-> d, ad |-> {}, glue |-> FALSE]
Rrset(ty, static, rdata) ==
    [type |-> ty, static |-> static, v4 |-> 0, v6 |-> 0, lim4 |-> 0, lim6 |-> 0,
     rdata |-> rdata]

RRsetsOf(node, ty) == {node.rrsets[i] : i \in {j \in DOMAIN node.rrsets : node.rrsets[j].type = ty}}
Has(node, ty) == RRsetsOf(node, ty) # {}
TheRRset(node, ty) == CHOOSE r \in RRsetsOf(node, ty) : TRUE
SetRRset(node, r) ==
    [node EXCEPT !.rrsets = IF Has(node, r.type)
                            THEN [i \in DOMAIN @ |-> IF @[i].type = r.type THEN r ELSE @[i]]
                            ELSE Append(@, r)]

\* ltree_find_or_add_dname(): every node of the path exists afterwards, and
\* the ones strictly below the first zone root on it are authoritative.
FindOrAdd(t, d) ==
    LET known(n) == IF n \in DOMAIN t THEN t[n] ELSE Filler
        roots == {k \in 0 .. Len(d) : "ZROOT" \in known(Suffix(d, k)).flags}
    IN  [n \in DOMAIN t \cup Path(d) |->
           IF n \in Path(d) /\ \E k \in roots : k < Len(n)
           THEN [known(n) EXCEPT !.flags = @ \cup {"AUTH"}]
           ELSE known(n)]

-----------------------------------------------------------------------------
(* Searching *)

Deepest(d) == Longest(Path(d) \cap DOMAIN tree)
Marked(d) == {n \in Path(d) \cap DOMAIN tree : tree[n].flags \cap {"ZROOT", "DELEG"} # {}}
LastMark(d) == Longest(Marked(d))
Status(d) == IF Marked(d) = {} THEN "NOAUTH"
             ELSE IF "ZROOT" \in tree[LastMark(d)].flags THEN "AUTH" ELSE "DELEG"

\* Mutant: the wildcard is looked up next to the name only.
MutWildcard(d) == {<<Star>> \o Tail(d)} \cap DOMAIN tree

\* The wildcard child of the closest encloser of a name that has no node.
Wildcard(d) == {<<Star>> \o Deepest(d)} \cap DOMAIN tree

ltree_search_dname(d, checkroot) ==
    [status  |-> Status(d),
     crossed |-> checkroot \in Path(d) /\ Len(checkroot) <= Len(Deepest(d)),
     node    |-> IF Deepest(d) = d
                 THEN IF Status(d) = "NOAUTH" THEN {} ELSE {d}
                 ELSE IF Status(d) = "AUTH" THEN Wildcard(d) ELSE {}]

NodeHas(ns, ty) == \E n \in ns : Has(tree[n], ty)

-----------------------------------------------------------------------------
(* Loading: zone roots, then the records of the zone files *)

Init ==
    /\ phase = "zones"
    /\ pos = 0
    /\ tree = [n \in {<<>>} |-> Filler]
    /\ ooz = <<>>
    /\ loaded = {}

Fatal == phase' = "fatal" /\ UNCHANGED <<pos, tree, ooz, loaded>>

\* ltree_load_zones(), first loop: postproc_zones() sorted the zones by
\* length, so a zone is added after every zone it lies in.
AddZone(z) ==
    /\ phase = "zones"
    /\ "ZROOT" \notin (IF z \in DOMAIN tree THEN tree[z].flags ELSE {})
    /\ \A y \in Zones : Len(y) < Len(z) => y \in DOMAIN tree /\ "ZROOT" \in tree[y].flags
    /\ LET t == [FindOrAdd(tree, z) EXCEPT ![z].flags = {"ZROOT", "AUTH"}]
       IN  /\ tree' = t
           /\ LET rest == {y \in Zones : y \notin DOMAIN t \/ "ZROOT" \notin t[y].flags}
              IN  phase' = IF rest = {} THEN "scan" ELSE "zones"
    /\ pos' = 1
    /\ UNCHANGED <<ooz, loaded>>

\* postproc_zones(): the zones that have z as their closest parent.  Duplicates
\* are fatal before, so Zones is a set.
subzones(z) ==
    {s \in Zones \ {z} : /\ InZone(s, z)
                         /\ \A y \in Zones \ {s} : InZone(s, y) => InZone(z, y)}

\* lhs_subzones_ok(): data of a zone file below a separately loaded subzone
\* is ignored.
SubzonesOk(r) == \A s \in subzones(r.zone) : ~InZone(r.name, s)

\* ltree_add_rec_a() and _aaaa(): a growing address rrset, with the limit of
\* the last record.
WithAddr(r, old) ==
    CASE r.type = "A"    -> [old EXCEPT !.v4 = @ + 1, !.lim4 = r.lim]
      [] r.type = "AAAA" -> [old EXCEPT !.v6 = @ + 1, !.lim6 = r.lim]

TooMany(r, old) == (IF r.type = "A" THEN old.v4 ELSE old.v6) = max_addrs

AddAddr(r) ==
    LET t    == FindOrAdd(tree, r.name)
        old  == IF Has(t[r.name], "A") THEN TheRRset(t[r.name], "A") ELSE Rrset("A", TRUE, <<>>)
    IN  IF old.static /\ ~TooMany(r, old)
        THEN tree' = [t EXCEPT ![r.name] = SetRRset(@, WithAddr(r, old))]
             /\ loaded' = loaded \cup {r} /\ UNCHANGED <<ooz, phase>>
        ELSE phase' = "fatal" /\ UNCHANGED <<tree, ooz, loaded>>

AddOozAddr(r) ==
    LET key == <<r.zone, r.name>>
        old == IF key \in DOMAIN ooz THEN ooz[key] ELSE Rrset("A", TRUE, <<>>)
    IN  IF TooMany(r, old)
        THEN phase' = "fatal" /\ UNCHANGED <<tree, ooz, loaded>>
        ELSE /\ ooz' = [j \in DOMAIN ooz \cup {key} |-> IF j = key THEN WithAddr(r, old) ELSE ooz[j]]
             /\ tree' = FindOrAdd(tree, r.zone)
             /\ loaded' = loaded \cup {r}
             /\ UNCHANGED phase

\* The types a name may hold once only: DYNA next to no address at all, one
\* CNAME or DYNC and none at a zone root, one SOA.
RefuseSingle(r, node) ==
    \/ ~r.ok
    \/ CASE r.type = "DYNA" -> Has(node, "A")
         [] r.type \in {"CNAME", "DYNC"} -> "ZROOT" \in node.flags \/ Has(node, "CNAME")
         [] r.type = "SOA" -> Has(node, "SOA")

NewSingle(r) ==
    CASE r.type = "DYNA"  -> [Rrset("A", FALSE, <<>>) EXCEPT !.lim4 = r.lim, !.lim6 = r.lim]
      [] r.type = "CNAME" -> Rrset("CNAME", TRUE, <<Rdata(r.rd)>>)
      [] r.type = "DYNC"  -> Rrset("CNAME", FALSE, <<>>)
      [] r.type = "SOA"   -> Rrset("SOA", TRUE, <<Rdata(r.rd), Rdata(<<"h">> \o r.zone)>>)

AddSingle(r) ==
    LET t == FindOrAdd(tree, r.name)
    IN  IF RefuseSingle(r, t[r.name])
        THEN phase' = "fatal" /\ UNCHANGED <<tree, ooz, loaded>>
        ELSE /\ tree' = [t EXCEPT ![r.name] = SetRRset(@, NewSingle(r))]
             /\ loaded' = loaded \cup {r}
             /\ UNCHANGED <<ooz, phase>>

\* INSERT_NEXT_RR: NS, and the types MX, SRV and TXT stand for.  An NS record
\* anywhere but at a zone root makes the name a delegation point.
AddMulti(r) ==
    LET t     == FindOrAdd(tree, r.name)
        node  == t[r.name]
        old   == IF Has(node, r.type) THEN TheRRset(node, r.type) ELSE Rrset(r.type, TRUE, <<>>)
        deleg == IF r.type = "NS" /\ "ZROOT" \notin node.flags THEN {"DELEG"} ELSE {}
    IN  IF \/ ~r.ok \/ Len(old.rdata) = max_rrs
           \/ r.type = "NS" /\ r.name # <<>> /\ Head(r.name) = Star
        THEN phase' = "fatal" /\ UNCHANGED <<tree, ooz, loaded>>
        ELSE /\ tree' = [t EXCEPT ![r.name] =
                  [SetRRset(node, [old EXCEPT !.rdata = Append(@, Rdata(r.rd))])
                     EXCEPT !.flags = @ \cup deleg]]
             /\ loaded' = loaded \cup {r}
             /\ UNCHANGED <<ooz, phase>>

\* The rec_* functions of the scanner: SOA only at the zone root, only
\* addresses outside of the zone, nothing below a subzone.
Record(r) ==
    \/ /\ r.type = "SOA"
       /\ AddSingle(r)
    \/ /\ r.type # "SOA"
       /\ ~InZone(r.name, r.zone)
       /\ IF r.type \in {"A", "AAAA"}
          THEN AddOozAddr(r)
          ELSE phase' = "fatal" /\ UNCHANGED <<tree, ooz, loaded>>
    \/ /\ r.type # "SOA"
       /\ InZone(r.name, r.zone)
       /\ IF SubzonesOk(r)
          THEN CASE r.type \in {"A", "AAAA"} -> AddAddr(r)
                 [] r.type \in {"DYNA", "CNAME", "DYNC"} -> AddSingle(r)
                 [] r.type \in {"NS", "MX", "SRV", "TXT"} -> AddMulti(r)
          ELSE UNCHANGED <<tree, ooz, loaded, phase>>

ScanRecord ==
    /\ phase = "scan" /\ pos \in DOMAIN Records
    /\ Record(Records[pos])
    /\ pos' = pos + 1

\* The zone file does not have the record.
NoRecord ==
    /\ phase = "scan" /\ pos \in DOMAIN Records \ Mandatory
    /\ pos' = pos + 1
    /\ UNCHANGED <<phase, tree, ooz, loaded>>

-----------------------------------------------------------------------------
(* Phase 1: references between nodes, structural checks *)

ZoneRoot(n) == Longest({m \in Path(n) : "ZROOT" \in tree[m].flags})
Delegations(n) == {m \in Path(n) : "DELEG" \in tree[m].flags /\ Len(m) > Len(ZoneRoot(n))}
in_deleg(n) == Delegations(n) # {}

\* p1_proc_cname(): the nodes a chain of static CNAMEs leads to within the
\* zone, one hop after the other.
Hops(n) ==
    LET hop[i \in 0 .. max_cname_depth] ==
          IF i = 0 THEN {n}
          ELSE IF \E m \in hop[i-1] : Has(tree[m], "CNAME") /\ TheRRset(tree[m], "CNAME").static
               THEN LET m == CHOOSE m \in hop[i-1] : TRUE
                        s == ltree_search_dname(TheRRset(tree[m], "CNAME").rdata[1].dname, ZoneRoot(n))
                    IN  IF s.crossed /\ s.status = "AUTH" THEN s.node ELSE {}
               ELSE {}
    IN  hop

ChainTooLong(n) ==
    \E m \in Hops(n)[max_cname_depth] : Has(tree[m], "CNAME") /\ TheRRset(tree[m], "CNAME").static

\* p1_proc_ns(): where the addresses of a nameserver come from.  Explicit
\* out-of-zone glue wins; a nameserver inside the zone must have addresses.
proc_ns(zr, d) ==
    LET s     == ltree_search_dname(d, zr)
        found == s.status # "NOAUTH" /\ NodeHas(s.node, "A")
        isooz == ~s.crossed /\ <<zr, d>> \in DOMAIN ooz
    IN  [fatal |-> s.status # "NOAUTH" /\ s.crossed /\ ~found,
         ad    |-> IF isooz THEN {<<"ooz", zr, d>>}
                   ELSE IF found THEN {<<"tree", n>> : n \in s.node} ELSE {},
         glue  |-> isooz \/ (found /\ s.status = "DELEG" /\ s.crossed),
         used  |-> IF found /\ ~isooz /\ s.status = "DELEG" THEN s.node ELSE {}]

\* set_valid_addr(), for PTR, MX, SRV and NAPTR.
valid_addr(zr, d) ==
    LET s == ltree_search_dname(d, zr)
    IN  IF s.status = "AUTH" /\ s.crossed /\ NodeHas(s.node, "A")
        THEN {<<"tree", n>> : n \in s.node} ELSE {}

fix_addr_limits(r) ==
    LET fix(lim, count) == IF lim = 0 \/ lim > count THEN count ELSE lim
    IN  IF r.static THEN [r EXCEPT !.lim4 = fix(r.lim4, r.v4), !.lim6 = fix(r.lim6, r.v6)] ELSE r

Linked(zr, r) ==
    CASE r.type = "A"  -> fix_addr_limits(r)
      [] r.type = "NS" -> [r EXCEPT !.rdata = [i \in DOMAIN r.rdata |->
                             LET p == proc_ns(zr, r.rdata[i].dname)
                             IN  [dname |-> r.rdata[i].dname, ad |-> p.ad, glue |-> p.glue]]]
      [] r.type \in {"MX", "SRV"} -> [r EXCEPT !.rdata = [i \in DOMAIN r.rdata |->
                             [Rdata(r.rdata[i].dname) EXCEPT !.ad = valid_addr(zr, r.rdata[i].dname)]]]
      [] OTHER -> r

NsNames(n) == {x.dname : x \in UNION {Range(r.rdata) : r \in RRsetsOf(tree[n], "NS")}}

\* Mutant: a zone without a SOA record is accepted.
MutZoneFatal(n) == "ZROOT" \in tree[n].flags /\ ~Has(tree[n], "NS")

ZoneFatal(n) == "ZROOT" \in tree[n].flags /\ (~Has(tree[n], "SOA") \/ ~Has(tree[n], "NS"))
DelegFatal(n) ==
    /\ in_deleg(n)
    /\ \/ "DELEG" \in tree[n].flags /\ Delegations(n) # {n}
       \/ Head(n) = Star
       \/ \E ty \in {"CNAME", "MX", "SRV", "TXT"} : Has(tree[n], ty)
CnameFatal(n) == Has(tree[n], "CNAME") /\ (Len(tree[n].rrsets) > 1 \/ ChainTooLong(n))
NsFatal(n) == ~Has(tree[n], "CNAME") /\ \E d \in NsNames(n) : proc_ns(ZoneRoot(n), d).fatal

Phase1Fatal(n) ==
    /\ tree[n].flags # {}
    /\ (ZoneFatal(n) \/ DelegFatal(n) \/ CnameFatal(n) \/ NsFatal(n))

Phase1 ==
    /\ phase = "scan" /\ pos > Len(Records)
    /\ IF \E n \in DOMAIN tree : Phase1Fatal(n) THEN Fatal
       ELSE LET used == UNION {UNION {proc_ns(ZoneRoot(n), d).used : d \in NsNames(n)} : n \in DOMAIN tree}
            IN  /\ tree' = [n \in DOMAIN tree |->
                     [flags  |-> tree[n].flags \cup (IF n \in used THEN {"GUSED"} ELSE {}),
                      rrsets |-> IF tree[n].flags # {}
                                 THEN [i \in DOMAIN tree[n].rrsets |-> Linked(ZoneRoot(n), tree[n].rrsets[i])]
                                 ELSE tree[n].rrsets]]
                /\ ooz' = [k \in DOMAIN ooz |-> fix_addr_limits(ooz[k])]
                /\ phase' = "phase2"
                /\ UNCHANGED <<pos, loaded>>

\* p2_check_glue(): a delegation has no more nameservers than additional
\* rrsets fit.  (The rest of phase 2 only warns.)
GlueFatal(n) ==
    "DELEG" \in tree[n].flags /\ Len(TheRRset(tree[n], "NS").rdata) > max_addtl_rrsets

Phase2 ==
    /\ phase = "phase2"
    /\ IF \E n \in DOMAIN tree : GlueFatal(n) THEN Fatal
       ELSE phase' = "run" /\ UNCHANGED <<pos, tree, ooz, loaded>>

Load ==
    \/ \E z \in Zones : AddZone(z)
    \/ ScanRecord
    \/ NoRecord
    \/ Phase1
    \/ Phase2

-----------------------------------------------------------------------------
\* The comment on the flags in ltree.h: the sets of flags a node may have.
ValidFlags == {{}, {"AUTH"}, {"AUTH", "ZROOT"}, {"AUTH", "DELEG"}, {"AUTH", "GUSED"},
               {"AUTH", "DELEG", "GUSED"}}
=============================================================================
