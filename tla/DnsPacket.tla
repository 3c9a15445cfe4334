----------------------------- MODULE DnsPacket -----------------------------
(***************************************************************************)
(* dnspacket.c: how an I/O thread decodes one query after the other and    *)
(* encodes the responses from the label tree, with compressed names, CNAME *)
(* chains, additional sections and truncation.                             *)
(*                                                                         *)
(* A packet is a sequence of cells, and offsets and sizes are counted in   *)
(* cells: one per label, compression pointer, end of a name, fixed part of *)
(* an RR, and piece of opaque data.  The header has no cells of its own.   *)
(* Only the counts of addresses are kept.  What a plugin answers to DYNA   *)
(* and DYNC is any member of DynAddrs and DyncNames.                       *)
(***************************************************************************)
EXTENDS Ltree

CONSTANTS Queries,              \* what clients may send
          DynAddrs, DyncNames,
          plain_max,            \* 512
          max_response,
          UINT,                 \* 2^32: the arithmetic of unsigned int
          MaxPtr,               \* 16384: no pointer reaches this offset
          COMPTARGETS_MAX,
          include_optional_ns

ASSUME SizesAssumption ==
    /\ plain_max \in Nat /\ max_response \in Nat /\ UINT \in Nat /\ MaxPtr \in Nat \ {0}
    /\ COMPTARGETS_MAX \in Nat \ {0}
    /\ include_optional_ns \in BOOLEAN
    /\ \A dr \in DynAddrs : dr.v4 \in Nat /\ dr.v6 \in Nat
    /\ \A u \in Queries : u.size \in Nat /\ u.subs \in Nat

ASSUME NamesAssumption ==
    /\ DyncNames \subseteq Name
    /\ \A u \in Queries : u.qname \in Name /\ u.form \in {"short", "ignored", "notimp", "query"}

VARIABLES pc,   \* where process_dns_query() is
          q,    \* the query in the packet buffer
          c     \* the context of the thread

vars == <<phase, pos, tree, ooz, loaded, pc, q, c>>

Smaller(a, b) == IF a < b THEN a ELSE b
Larger(a, b) == IF a > b THEN a ELSE b

-----------------------------------------------------------------------------
(* Cells *)

Lab(l) == <<"lab", l>>
\* A pointer has 14 bits: of a place beyond its reach the rest is lost.
Ptr(p) == IF p < MaxPtr THEN <<"ptr", p>> ELSE <<"wrapped", p % MaxPtr>>
End == <<"end", 0>>
RR(ty) == <<"rr", ty>>
Data == <<"data", 0>>
Undefined == <<"undefined", 0>>
OptCells == <<End, RR("OPT")>>

Labels(d) == [i \in DOMAIN d |-> Lab(d[i])]
WireName(d) == Append(Labels(d), End)
Question(d) == Append(WireName(d), Data)
QuestionAt == 1

-----------------------------------------------------------------------------
(* Name compression *)

\* Mutant: the pointer is counted from the start of the new name, not of the
\* stored one.
MutBetterMatch(d, best, t) ==
    LET matches == {i \in 1 .. Len(d) :
                      /\ i < best.at
                      /\ i + Len(t.name) > Len(d)
                      /\ i + Len(t.name) - Len(d) < t.comp
                      /\ SubSeq(d, i, Len(d)) = SubSeq(t.name, i + Len(t.name) - Len(d), Len(t.name))}
    IN  IF matches = {} THEN best
        ELSE LET i == CHOOSE i \in matches : \A j \in matches : i <= j
             IN  [at |-> i, off |-> t.at + i - 1]

\* One candidate of store_dname(): the earliest label of d from which on d
\* repeats a stored name, before the pointer that ends what is stored of it,
\* if that beats what earlier candidates offer.
BetterMatch(d, best, t) ==
    LET matches == {i \in 1 .. Len(d) :
                      /\ i < best.at
                      /\ i + Len(t.name) > Len(d)
                      /\ i + Len(t.name) - Len(d) < t.comp
                      /\ SubSeq(d, i, Len(d)) = SubSeq(t.name, i + Len(t.name) - Len(d), Len(t.name))}
    IN  IF matches = {} THEN best
        ELSE LET i == CHOOSE i \in matches : \A j \in matches : i <= j
             IN  [at |-> i, off |-> t.at + i + Len(t.name) - Len(d) - 1]

\* The best of all candidates.
BestMatch(d, targets) ==
    LET best[i \in 0 .. Len(targets)] ==
          IF i = 0 THEN [at |-> Len(d) + 1, off |-> 0] ELSE BetterMatch(d, best[i-1], targets[i])
    IN  best[Len(targets)]

\* store_dname(): the cells for name d and the compression targets after it.
store_dname(x, d, is_addtl) ==
    LET best == BestMatch(d, x.targets)
        here == Len(x.pkt) + 1
        kept == best.at # 1 /\ ~is_addtl /\ here < MaxPtr /\ Len(x.targets) < COMPTARGETS_MAX
    IN  IF d = <<>> THEN [cells |-> <<End>>, targets |-> x.targets]
        ELSE [cells   |-> IF best.off = 0 THEN WireName(d)
                          ELSE Append(Labels(SubSeq(d, 1, best.at - 1)), Ptr(best.off)),
              targets |-> IF kept THEN Append(x.targets, [name |-> d, at |-> here, comp |-> best.at])
                          ELSE x.targets]

\* repeat_name(): the name stored at orig once more.  Beyond the reach of
\* pointers it is copied by gdnsd_dname_from_raw(), which cannot read a name
\* that ends in a pointer.  What was wiped from the packet is still in the
\* buffer.
repeat_name(x, orig, is_addtl) ==
    LET buf  == [i \in 1 .. Larger(Len(x.pkt), Len(x.stale)) |->
                   IF i <= Len(x.pkt) THEN x.pkt[i] ELSE x.stale[i]]
        labs == Cardinality({i \in 1 .. Len(buf) : /\ orig + i - 1 <= Len(buf)
                                                  /\ \A r \in orig .. orig + i - 1 : buf[r][1] = "lab"})
    IN  IF buf[orig][1] # "lab" THEN <<buf[orig]>>
        ELSE IF orig < MaxPtr THEN <<Ptr(orig)>>
        ELSE IF buf[orig + labs] = End
             THEN store_dname(x, [i \in 1 .. labs |-> buf[orig + i - 1][2]], is_addtl).cells
             ELSE <<Undefined>>

StoreName(x, d) ==
    LET s == store_dname(x, d, FALSE) IN [x EXCEPT !.pkt = @ \o s.cells, !.targets = s.targets]

\* The name in full, which later ones may be compressed against.
store_dname_nocomp(x, d) ==
    LET here == Len(x.pkt) + 1
        kept == d # <<>> /\ here < MaxPtr /\ Len(x.targets) < COMPTARGETS_MAX
    IN  [x EXCEPT !.pkt = @ \o WireName(d),
                  !.targets = IF kept THEN Append(@, [name |-> d, at |-> here, comp |-> Len(d) + 1]) ELSE @]

\* An owner name in the answer or authority section, and the fixed part.
Owner(x, orig, ty) ==
    [x EXCEPT !.pkt = @ \o repeat_name(x, orig, FALSE) \o <<RR(ty)>>,
              !.bad = @ \/ orig >= MaxPtr]

\* The RR of the response that is being encoded, for the properties.
Mean(x, section, owner, ty, names) ==
    [x EXCEPT !.meant[section] = Append(@, [owner |-> owner, type |-> ty, names |-> names])]

-----------------------------------------------------------------------------
(* Address records and the additional section *)

Copies(n, cells) == [i \in 1 .. n * Len(cells) |-> cells[((i - 1) % Len(cells)) + 1]]

\* n RRs, encoded as cells, into the additional or the answer section.
PutAddrs(x, n, cells, rrs, is_addtl) ==
    IF is_addtl
    THEN [x EXCEPT !.add = @ \o cells, !.ar = @ + n, !.meant.ar = @ \o rrs]
    ELSE [x EXCEPT !.pkt = @ \o cells, !.an = @ + n, !.meant.an = @ \o rrs]

\* enc_a_static(), enc_a_dynamic() and their AAAA twins.
EncAddrs(x, ty, n, orig, owner, is_addtl) ==
    PutAddrs(x, n, Copies(n, repeat_name(x, orig, is_addtl) \o <<RR(ty), Data>>),
             [i \in 1 .. n |-> [owner |-> owner, type |-> ty, names |-> <<>>]], is_addtl)

AddrRRset(ad) == IF ad[1] = "ooz" THEN ooz[<<ad[2], ad[3]>>] ELSE TheRRset(tree[ad[2]], "A")

\* How many addresses of each family a rrset holds and how many are sent; dr
\* is what a plugin answered.
Count(r, dr) == IF r.static THEN [v4 |-> r.v4, v6 |-> r.v6] ELSE dr
Limit(r, dr) ==
    LET dyn(lim, n) == IF lim # 0 /\ lim < n THEN lim ELSE n
    IN  IF r.static THEN [v4 |-> r.lim4, v6 |-> r.lim6]
        ELSE [v4 |-> dyn(r.lim4, dr.v4), v6 |-> dyn(r.lim6, dr.v6)]

encode_rrs_anyaddr(x, ad, orig, owner, is_addtl, dr) ==
    LET n == Limit(AddrRRset(ad), dr)
        y == IF is_addtl THEN x ELSE [x EXCEPT !.ansaddr = {ad}]
    IN  EncAddrs(EncAddrs(y, "A", n.v4, orig, owner, is_addtl), "AAAA", n.v6, orig, owner, is_addtl)

track_addtl_rrset_unwind(x, ad) ==
    [x EXCEPT !.addtl = Append(@, [ad |-> ad, off |-> Len(x.add), ar |-> x.ar]),
              !.bad = @ \/ (x.addtl = <<>> /\ (x.add # <<>> \/ x.ar # 0))]

add_addtl_rrset(x, ad, orig, owner, dr) ==
    IF \/ ad \in x.ansaddr
       \/ Len(x.addtl) = max_addtl_rrsets
       \/ \E i \in DOMAIN x.addtl : x.addtl[i].ad = ad
    THEN x
    ELSE encode_rrs_anyaddr(track_addtl_rrset_unwind(x, ad), ad, orig, owner, TRUE, dr)

\* encode_rrs_a() and encode_rrs_aaaa(): the family that was asked for in the
\* answer, the other one as additional data.
encode_rrs_a(x, n, dr) ==
    LET ad   == <<"tree", n>>
        lim  == Limit(AddrRRset(ad), dr)
        num  == Count(AddrRRset(ad), dr)
        y    == [x EXCEPT !.ansaddr = {ad}]
        both == IF q.qtype = "A" THEN [ty |-> "A", n |-> lim.v4, oty |-> "AAAA", on |-> lim.v6, has |-> num.v6]
                ELSE [ty |-> "AAAA", n |-> lim.v6, oty |-> "A", on |-> lim.v4, has |-> num.v4]
        z    == EncAddrs(y, both.ty, both.n, y.qcomp, y.qname, FALSE)
    IN  IF both.has = 0 THEN z
        ELSE EncAddrs(track_addtl_rrset_unwind(z, ad), both.oty, both.on, z.qcomp, z.qname, TRUE)

-----------------------------------------------------------------------------
(* Other records *)

\* OFFSET_LOOP_START: the records in turn, from a random one on.
Rotated(s, start) == [i \in DOMAIN s |-> s[((start + i - 2) % Len(s)) + 1]]

\* The addresses of the name in a record, which is stored at orig, as
\* additional data.
AddrsOf(x, rd, orig, dr) ==
    IF rd.ad = {} THEN x ELSE add_addtl_rrset(x, CHOOSE ad \in rd.ad : TRUE, orig, rd.dname, dr)

\* Whether the additional section holds glue, which is not left out.
MarkGlue(x, rd) == IF rd.glue THEN [x EXCEPT !.glue = TRUE] ELSE x

StoreTarget(x, ty, d) == IF ty = "SRV" THEN store_dname_nocomp(x, d) ELSE StoreName(x, d)

\* One RR whose data is a name, with the addresses of that name.
EncTarget(x, ty, section, orig, owner, rd, dr) ==
    LET y == Owner(x, orig, ty)
    IN  AddrsOf(MarkGlue(Mean(StoreTarget(y, ty, rd.dname), section, owner, ty, <<rd.dname>>), rd),
                rd, Len(y.pkt) + 1, dr)

\* Such RRs for all the records of a rrset.
EncTargets(x, ty, section, orig, owner, rds, dr) ==
    LET enc[i \in 0 .. Len(rds)] ==
          IF i = 0 THEN x ELSE EncTarget(enc[i-1], ty, section, orig, owner, rds[i], dr)
    IN  enc[Len(rds)]

\* n more RRs in the answer or the authority section.
Counted(x, answer, n) == IF answer THEN [x EXCEPT !.an = @ + n] ELSE [x EXCEPT !.ns = @ + n]

encode_rrs_ns(x, r, answer, start, dr) ==
    Counted(EncTargets(x, "NS", IF answer THEN "an" ELSE "ns", x.acomp, x.aname, Rotated(r.rdata, start), dr),
            answer, Len(r.rdata))

\* encode_rrs_ptr() and _mx(), of which the first rotates; _srv() and _naptr().
encode_rrs_mx(x, r, start, dr) ==
    Counted(EncTargets(x, r.type, "an", x.qcomp, x.qname,
                       Rotated(r.rdata, IF r.type = "SRV" THEN 1 ELSE start), dr),
            TRUE, Len(r.rdata))

\* encode_rrs_txt() and encode_rrs_rfc3597().
encode_rrs_txt(x, r) ==
    LET enc[i \in 0 .. Len(r.rdata)] ==
          IF i = 0 THEN x
          ELSE Mean([Owner(enc[i-1], x.qcomp, "TXT") EXCEPT !.pkt = Append(@, Data)], "an", x.qname, "TXT", <<>>)
    IN  [enc[Len(r.rdata)] EXCEPT !.an = @ + Len(r.rdata)]

\* answer: a direct query for the CNAME; otherwise a link of a chain.
encode_rr_cname(x, d, answer) ==
    LET y == Owner(x, x.qcomp, "CNAME")
        z == Mean(StoreName(y, d), "an", x.qname, "CNAME", <<d>>)
    IN  IF answer THEN [z EXCEPT !.an = @ + 1]
        ELSE [z EXCEPT !.qcomp = Len(y.pkt) + 1, !.qname = d, !.cn = @ + 1]

encode_rr_soa(x, r, answer) ==
    LET y == StoreName(StoreName(Owner(x, x.acomp, "SOA"), r.rdata[1].dname), r.rdata[2].dname)
        z == Mean([y EXCEPT !.pkt = Append(@, Data)], IF answer THEN "an" ELSE "ns", x.aname, "SOA",
                  <<r.rdata[1].dname, r.rdata[2].dname>>)
    IN  IF answer THEN [z EXCEPT !.an = @ + 1] ELSE [z EXCEPT !.ns = @ + 1]

\* A rrset that loading has made sure of; TheRRset has no value without it.
Checked(x, n, ty) == [x EXCEPT !.bad = @ \/ ~Has(tree[n], ty)]

Encode(x, n, r, start, dr, d) ==
    CASE r.type = "A"     -> IF q.qtype = "ANY" THEN x ELSE encode_rrs_a(x, n, dr)
      [] r.type = "SOA"   -> encode_rr_soa(x, r, TRUE)
      [] r.type = "NS"    -> encode_rrs_ns(x, r, TRUE, start, dr)
      [] r.type \in {"MX", "SRV"} -> encode_rrs_mx(x, r, start, dr)
      [] r.type = "TXT"   -> encode_rrs_txt(x, r)
      [] r.type = "CNAME" -> encode_rr_cname([x EXCEPT !.dyncs = @ + IF r.static THEN 0 ELSE 1], d, TRUE)

\* Addresses first, so that no other type repeats them as additional data.
encode_rrs_any(x, n, start, dr) ==
    LET rrsets == tree[n].rrsets
        enc[i \in 0 .. Len(rrsets)] ==
          IF i # 0 THEN Encode(enc[i-1], n, rrsets[i], start, dr, <<>>)
          ELSE IF Has(tree[n], "A") THEN encode_rrs_anyaddr(x, <<"tree", n>>, x.qcomp, x.qname, FALSE, dr)
          ELSE x
    IN  enc[Len(rrsets)]

-----------------------------------------------------------------------------
(* Decoding *)

\* The outcomes of decode_query().  For a packet shorter than a header it goes
\* on to look at what the buffer held before, so its outcome is open.
decode_query(u) ==
    CASE u.form = "short"   -> {"IGNORE", "NOTIMP"}
      [] u.form = "ignored" -> {"IGNORE"}
      [] u.form = "notimp"  -> {"NOTIMP"}
      [] u.form = "query"   -> {CASE u.edns = "badvers" -> "BADVERS"
                                  [] u.edns = "formerr" -> "FORMERR"
                                  [] OTHER -> "OK"}

\* What the client and the configuration allow.
SizeLimit(u) ==
    IF ~u.udp THEN max_response
    ELSE IF u.edns = "none" THEN plain_max
    ELSE Smaller(Larger(u.size, plain_max), max_response)

\* The client-subnet options that are looked at.  The response has one at most.
Options(u) == IF u.edns \in {"none", "badvers"} THEN 0 ELSE u.subs
OptOut(u) == IF u.edns = "none" THEN <<>>
             ELSE OptCells \o (IF Options(u) > 0 THEN <<Data>> ELSE <<>>)

\* Room is set aside for the OPT RR and for each option of the query.
OptRoom(u) == IF u.edns = "none" THEN 0 ELSE Len(OptCells) + Options(u)

\* Mutant: no room is set aside for the OPT RR.
Mutthis_max_response(u) == SizeLimit(u)

\* What is left for the answer, an unsigned int: options without end wrap it.
this_max_response(u) ==
    IF OptRoom(u) <= SizeLimit(u) THEN SizeLimit(u) - OptRoom(u)
    ELSE SizeLimit(u) + UINT - OptRoom(u)

\* Every question fits, with the fixed answer of class CH, the OPT RR and an
\* option: at most 12 + 259, 18, 11 and 24 bytes, of 512 or of 4096 and more.
ASSUME RoomAssumption ==
    \A u \in Queries :
       Len(Question(u.qname)) + 3 + Len(OptCells) + 1 <= Smaller(plain_max, max_response)

reset_context(u) ==
    [pkt |-> Question(u.qname), stale |-> <<>>, add |-> <<>>,
     targets |-> IF u.qname = <<>> THEN <<>>
                 ELSE <<[name |-> u.qname, at |-> QuestionAt, comp |-> Len(u.qname) + 1]>>,
     qcomp |-> QuestionAt, acomp |-> QuestionAt, qname |-> u.qname, aname |-> <<>>,
     status |-> "NOAUTH", res |-> {}, auth |-> {}, via |-> FALSE, depth |-> 0, dyncs |-> 0,
     static |-> TRUE, cut |-> FALSE,
     an |-> 0, ns |-> 0, ar |-> 0, cn |-> 0, addtl |-> <<>>, glue |-> FALSE, ansaddr |-> {},
     tc |-> FALSE, rcode |-> "NOERROR", counted |-> 0, bad |-> FALSE,
     meant |-> [an |-> <<>>, ns |-> <<>>, ar |-> <<>>], hdr |-> <<0, 0, 0>>]

\* The shared counters one request is added to (satom_inc).
Bump(x) == [x EXCEPT !.counted = @ + 1]

\* process_dns_query(), up to the search.
Receive(u) ==
    /\ phase = "run" /\ pc = "idle"
    /\ q' = u
    /\ \E rcode \in decode_query(u) :
         LET x == [reset_context(u) EXCEPT !.rcode = rcode]
         IN  \/ /\ rcode \in {"IGNORE", "NOTIMP"}
                /\ pc' = "done" /\ c' = Bump([x EXCEPT !.pkt = <<>>])
             \/ /\ rcode \in {"FORMERR", "BADVERS"}
                /\ pc' = "finish" /\ c' = Bump(x)
             \/ /\ rcode = "OK" /\ u.chaos
                /\ pc' = "finish"
                /\ c' = Mean([x EXCEPT !.pkt = @ \o <<Ptr(QuestionAt), RR("TXT"), Data>>, !.an = 1,
                                       !.rcode = "NOERROR"], "an", u.qname, "TXT", <<>>)
             \/ /\ rcode = "OK" /\ ~u.chaos
                /\ pc' = "search" /\ c' = [x EXCEPT !.rcode = "NOERROR"]
    /\ UNCHANGED ltree

-----------------------------------------------------------------------------
(* Answering *)

\* search_ltree(): like ltree_search_dname(), but below a delegation it finds
\* the delegation point, and it tells where the name of the authority begins.
search_ltree(d, checkroot) ==
    LET roots == {n \in Path(d) \cap DOMAIN tree : "ZROOT" \in tree[n].flags}
    IN  [status  |-> Status(d),
         auth    |-> {n \in roots : \A m \in roots : Len(m) <= Len(n)},
         node    |-> CASE Status(d) = "NOAUTH" -> {}
                       [] Status(d) = "DELEG"  -> {LastMark(d)}
                       [] Status(d) = "AUTH"   -> IF Deepest(d) = d THEN {d} ELSE Wildcard(d),
         depth   |-> IF Marked(d) = {} THEN 0 ELSE Len(d) - Len(LastMark(d)),
         mark    |-> IF Marked(d) = {} THEN <<>> ELSE LastMark(d),
         crossed |-> checkroot \subseteq Path(d)]

\* chase_auth_ptr(): skip labels of the name at p, through its pointers.
chase_auth_ptr(pkt, off, depth) ==
    LET chase[p \in 1 .. Len(pkt), k \in 0 .. depth] ==
          IF k = 0 THEN p
          ELSE IF pkt[p][1] \in {"ptr", "wrapped"} THEN chase[pkt[p][2], k]
          ELSE chase[p + 1, k - 1]
    IN  chase[off, depth]

Search ==
    /\ pc = "search"
    /\ LET s == search_ltree(q.qname, {})
       IN  c' = [c EXCEPT !.status = s.status, !.res = s.node, !.auth = s.auth,
                          !.acomp = c.qcomp + s.depth, !.aname = s.mark]
    /\ pc' = "chain"
    /\ UNCHANGED <<q, phase, pos, tree, ooz, loaded>>

AtCname == /\ q.qtype # "CNAME"
           /\ \E n \in c.res : tree[n].rrsets # <<>> /\ tree[n].rrsets[1].type = "CNAME"

\* The targets a CNAME or DYNC may give.
Targets(r) == IF r.static THEN {r.rdata[1].dname} ELSE DyncNames

\* Mutant: the limit is off by one.
MutChainTooLongNow ==
    /\ pc = "chain" /\ AtCname
    /\ c.depth + 1 >= max_cname_depth
    /\ c' = [c EXCEPT !.via = TRUE, !.depth = @ + 1, !.res = {}, !.cut = TRUE,
                      !.static = @ /\ \A n \in c.res : tree[n].rrsets[1].static,
                      !.pkt = Question(q.qname), !.stale = c.pkt, !.an = 0, !.cn = 0,
                      !.meant.an = <<>>]
    /\ pc' = "answer"
    /\ UNCHANGED <<q, phase, pos, tree, ooz, loaded>>

\* The loop of answer_from_db() over CNAMEs.  A chain that is too long is
\* wiped from the packet and answered like a name that does not exist.
ChainTooLongNow ==
    /\ pc = "chain" /\ AtCname
    /\ c.depth + 1 > max_cname_depth
    /\ c' = [c EXCEPT !.via = TRUE, !.depth = @ + 1, !.res = {}, !.cut = TRUE,
                      !.static = @ /\ \A n \in c.res : tree[n].rrsets[1].static,
                      !.pkt = Question(q.qname), !.stale = c.pkt, !.an = 0, !.cn = 0,
                      !.meant.an = <<>>]
    /\ pc' = "answer"
    /\ UNCHANGED <<q, phase, pos, tree, ooz, loaded>>

FollowCname ==
    /\ pc = "chain" /\ AtCname
    /\ c.depth + 1 <= max_cname_depth
    /\ \E n \in c.res : LET r == tree[n].rrsets[1] IN \E d \in Targets(r) :
         LET x == encode_rr_cname([c EXCEPT !.dyncs = @ + IF r.static THEN 0 ELSE 1], d, FALSE)
             s == search_ltree(d, c.auth)
         IN  /\ c' = [x EXCEPT !.via = TRUE, !.depth = @ + 1, !.static = @ /\ r.static,
                               !.bad = @ \/ c.status # "AUTH" \/ c.auth = {},
                               !.res = s.node, !.auth = s.auth,
                               !.status = IF s.crossed THEN s.status ELSE "NOAUTH",
                               !.acomp = IF s.crossed THEN chase_auth_ptr(x.pkt, x.qcomp, s.depth) ELSE @,
                               !.aname = IF s.crossed THEN s.mark ELSE @]
             /\ pc' = IF s.crossed THEN "chain" ELSE "answer"
    /\ UNCHANGED <<q, phase, pos, tree, ooz, loaded>>

ChainDone ==
    /\ pc = "chain" /\ ~AtCname
    /\ pc' = "answer"
    /\ UNCHANGED <<q, c, phase, pos, tree, ooz, loaded>>

AuthNode == CHOOSE n \in c.auth : TRUE

\* The nonexistent name: the SOA of the zone in the authority section.
AnswerNxdomain ==
    /\ pc = "answer" /\ c.status = "AUTH" /\ c.res = {}
    /\ LET x == Checked(c, AuthNode, "SOA")
       IN  c' = Bump([IF x.bad THEN x ELSE encode_rr_soa(x, TheRRset(tree[AuthNode], "SOA"), FALSE)
                        EXCEPT !.rcode = "NXDOMAIN"])
    /\ pc' = "outer"
    /\ UNCHANGED <<q, phase, pos, tree, ooz, loaded>>

Starts(n) == 1 .. Larger(1, CHOOSE k \in {Len(tree[n].rrsets[i].rdata) : i \in DOMAIN tree[n].rrsets} \cup {0} :
                              \A i \in DOMAIN tree[n].rrsets : Len(tree[n].rrsets[i].rdata) <= k)

\* construct_normal_response(), the answer section.
AnswerNode ==
    /\ pc = "answer" /\ c.status = "AUTH"
    /\ \E n \in c.res, dr \in DynAddrs : \E start \in Starts(n) :
         LET ety == IF q.qtype = "AAAA" THEN "A" ELSE q.qtype
         IN  IF q.qtype = "ANY" THEN c' = encode_rrs_any(c, n, start, dr)
             ELSE IF Has(tree[n], ety)
             THEN \E d \in IF ety = "CNAME" THEN Targets(TheRRset(tree[n], ety)) ELSE {<<>>} :
                    c' = Encode(c, n, TheRRset(tree[n], ety), start, dr, d)
             ELSE c' = c
    /\ pc' = "authority"
    /\ UNCHANGED <<q, phase, pos, tree, ooz, loaded>>

\* construct_normal_response(), the authority section.
Authority ==
    /\ pc = "authority"
    /\ \E dr \in DynAddrs : \E start \in Starts(AuthNode) :
         LET x    == Checked(Checked(c, AuthNode, "SOA"), AuthNode, "NS")
             optns == /\ include_optional_ns /\ q.qtype # "NS"
                      /\ q.qtype # "ANY" \/ c.res # c.auth
         IN  c' = IF x.bad THEN x
                  ELSE IF c.an = 0 THEN encode_rr_soa(x, TheRRset(tree[AuthNode], "SOA"), FALSE)
                  ELSE IF optns THEN encode_rrs_ns(x, TheRRset(tree[AuthNode], "NS"), FALSE, start, dr)
                  ELSE x
    /\ pc' = "outer"
    /\ UNCHANGED <<q, phase, pos, tree, ooz, loaded>>

AnswerReferral ==
    /\ pc = "answer" /\ c.status = "DELEG"
    /\ \E n \in c.res, dr \in DynAddrs : \E start \in Starts(n) :
         LET x == Checked(c, n, "NS")
         IN  c' = IF x.bad THEN x ELSE encode_rrs_ns(x, TheRRset(tree[n], "NS"), FALSE, start, dr)
    /\ pc' = "outer"
    /\ UNCHANGED <<q, phase, pos, tree, ooz, loaded>>

\* No authority: refused, unless a CNAME has been given.
AnswerNoauth ==
    /\ pc = "answer" /\ c.status = "NOAUTH"
    /\ c' = IF c.via THEN c ELSE Bump([c EXCEPT !.rcode = "REFUSED"])
    /\ pc' = "outer"
    /\ UNCHANGED <<q, phase, pos, tree, ooz, loaded>>

\* Mutant: glue is dropped like other additional data.
MutTooLarge == Len(c.pkt) > this_max_response(q)

\* answer_from_db_outer(): answer, authority and glue must fit, or nothing is
\* sent; other additional rrsets are left out from the last one on.
TooLarge == Len(c.pkt) + (IF c.glue THEN Len(c.add) ELSE 0) > this_max_response(q)

Truncate ==
    /\ pc = "outer" /\ TooLarge
    /\ c' = [c EXCEPT !.an = 0, !.ns = 0, !.ar = 0, !.tc = TRUE, !.pkt = Question(q.qname)]
    /\ pc' = "finish"
    /\ UNCHANGED <<q, phase, pos, tree, ooz, loaded>>

AddtlOff(x, k) == IF k = Len(x.addtl) THEN Len(x.add) ELSE x.addtl[k + 1].off
AddtlAr(x, k) == IF k = Len(x.addtl) THEN x.ar ELSE x.addtl[k + 1].ar

Trim ==
    /\ pc = "outer" /\ ~TooLarge
    /\ LET fits == {k \in 0 .. Len(c.addtl) : AddtlOff(c, k) <= this_max_response(q) - Len(c.pkt)}
           keep == CHOOSE k \in fits : \A j \in fits : j <= k
       IN  c' = [c EXCEPT !.pkt = @ \o SubSeq(c.add, 1, AddtlOff(c, keep)), !.ar = AddtlAr(c, keep),
                          !.addtl = SubSeq(@, 1, keep)]
    /\ pc' = "finish"
    /\ UNCHANGED <<q, phase, pos, tree, ooz, loaded>>

\* The end of process_dns_query(): the OPT RR and the counts of the header.
Finish ==
    /\ pc = "finish"
    /\ LET y == IF c.rcode = "NOERROR" THEN Bump(c) ELSE c
           x == IF q.edns = "none" THEN y ELSE [y EXCEPT !.pkt = @ \o OptOut(q), !.ar = @ + 1]
       IN  c' = [x EXCEPT !.hdr = <<x.cn + x.an, x.ns, x.ar>>]
    /\ pc' = "done"
    /\ UNCHANGED <<q, phase, pos, tree, ooz, loaded>>

\* The response, if there is one, is handed to the socket; the next query
\* overwrites the buffer, and reset_context() the rest.
NoQuery == [form |-> "ignored", udp |-> TRUE, qname |-> <<>>, qtype |-> "A", edns |-> "none",
            size |-> 0, subs |-> 0, chaos |-> FALSE]
Sent ==
    /\ pc = "done"
    /\ pc' = "idle" /\ q' = NoQuery /\ c' = reset_context(NoQuery)
    /\ UNCHANGED ltree

Query ==
    \/ \E u \in Queries : Receive(u)
    \/ Search \/ ChainTooLongNow \/ FollowCname \/ ChainDone
    \/ AnswerNxdomain \/ AnswerNode \/ Authority \/ AnswerReferral \/ AnswerNoauth
    \/ Truncate \/ Trim \/ Finish \/ Sent

DnsInit ==
    /\ Init
    /\ pc = "idle"
    /\ q = NoQuery
    /\ c = reset_context(NoQuery)

Next == (Load /\ UNCHANGED <<pc, q, c>>) \/ Query
Spec == DnsInit /\ [][Next]_vars

-----------------------------------------------------------------------------
(* A reader of packets, to compare what is sent with what was meant *)

\* The name at each offset; a pointer must lead back.
NameAt(pkt) ==
    LET name[p \in 1 .. Len(pkt) + 1] ==
          IF p > Len(pkt) THEN <<"?">>
          ELSE CASE pkt[p][1] = "end" -> <<>>
                 [] pkt[p][1] = "lab" -> <<pkt[p][2]>> \o name[p + 1]
                 [] pkt[p][1] \in {"ptr", "wrapped"} -> IF pkt[p][2] \in 1 .. p - 1 THEN name[pkt[p][2]] ELSE <<"?">>
                 [] OTHER -> <<"?">>
    IN  name

\* The offset behind the name at p.
Behind(pkt, p) == 1 + CHOOSE r \in p .. Len(pkt) + 1 :
                        /\ r > Len(pkt) \/ pkt[r][1] # "lab"
                        /\ \A s \in p .. r - 1 : pkt[s][1] = "lab"

Opt == [owner |-> <<>>, type |-> "OPT", names |-> <<>>]
NamesIn(ty) == CASE ty \in {"NS", "MX", "SRV", "CNAME"} -> 1 [] ty = "SOA" -> 2 [] OTHER -> 0
DataIn(ty) == IF ty \in {"A", "AAAA", "TXT", "SOA"} THEN 1 ELSE 0

\* The RR at p: what it says and where the next one begins.
ReadRR(pkt, p) ==
    LET h == Behind(pkt, p)
    IN  IF h > Len(pkt) \/ pkt[h][1] # "rr" THEN [rr |-> Opt, next |-> Len(pkt) + 2]
        ELSE LET ty == pkt[h][2]
                 n1 == h + 1
                 n2 == IF NamesIn(ty) >= 1 THEN Behind(pkt, n1) ELSE n1
                 n3 == IF NamesIn(ty) = 2 THEN Behind(pkt, n2) ELSE n2
             IN  [rr |-> [owner |-> NameAt(pkt)[p], type |-> ty,
                          names |-> SubSeq(<<NameAt(pkt)[n1], NameAt(pkt)[IF n2 > Len(pkt) THEN 1 ELSE n2]>>,
                                           1, NamesIn(ty))],
                  next |-> n3 + DataIn(ty)]

\* The RRs of a response after the question, and where the last one ends.
ReadAll(pkt, start, n) ==
    LET read[i \in 0 .. n] ==
          IF i = 0 THEN [rrs |-> <<>>, next |-> start]
          ELSE IF read[i-1].next > Len(pkt) THEN [rrs |-> <<>>, next |-> Len(pkt) + 2]
          ELSE LET r == ReadRR(pkt, read[i-1].next)
               IN  [rrs |-> Append(read[i-1].rrs, r.rr), next |-> r.next]
    IN  read[n]

Responded == pc = "done" /\ c.rcode \notin {"IGNORE", "NOTIMP"}
OptPart == IF q.edns = "none" THEN <<>> ELSE <<Opt>>

-----------------------------------------------------------------------------
(* Properties *)

\* The tree and the context stay within their types while loading and serving;
\* the flags of every node are one of the sets listed in ltree.h.
TypeOK ==
    /\ phase \in {"zones", "scan", "phase2", "run", "fatal"}
    /\ \A n \in DOMAIN tree : tree[n].flags \in ValidFlags
    /\ pc \in {"idle", "search", "chain", "answer", "authority", "outer", "finish", "done"}
    /\ c.status \in {"NOAUTH", "AUTH", "DELEG"} /\ Cardinality(c.res) <= 1 /\ Cardinality(c.auth) <= 1

\* What loading has accepted never makes the encoder fail an assertion: the
\* SOA and NS rrsets it fetches without looking exist, a CNAME is only met in
\* authoritative data, owner names are within the reach of pointers, and the
\* additional section is empty when its first rrset is tracked.
Assertions == ~c.bad

\* Decoding a response that is not truncated gives the RRs that were meant, in
\* their sections, with the counts of the header, and nothing else.
Decoded ==
    Responded /\ ~c.tc =>
      LET all == ReadAll(c.pkt, Len(Question(q.qname)) + 1, c.hdr[1] + c.hdr[2] + c.hdr[3])
          ar  == SubSeq(c.meant.ar, 1, c.hdr[3] - Len(OptPart)) \o OptPart
      IN  /\ all.rrs = c.meant.an \o c.meant.ns \o ar
          /\ all.next = Len(c.pkt) + (IF Options(q) > 0 THEN 0 ELSE 1)
          /\ c.hdr[1] = Len(c.meant.an) /\ c.hdr[2] = Len(c.meant.ns)

\* A name beyond the reach of pointers could not be read back, or a pointer to
\* one lost a bit; and what a chain that was wiped left behind the question is
\* referred to.
Garbled(x) == \E i \in DOMAIN x.pkt : x.pkt[i][1] \in {"wrapped", "undefined"}
Ghosts(x) ==
    /\ x.cut
    /\ \E i \in DOMAIN x.pkt : x.pkt[i][1] = "ptr" /\ x.pkt[i][2] > Len(Question(q.qname))

\* Every compression pointer leads to the name it stands for, also after CNAME
\* chains, for the authority, for owners in the additional section and for names
\* beyond the reach of pointers: a response is Decoded, but for those two cases.
WireMatches == ~Garbled(c) /\ ~Ghosts(c) => Decoded

\* No response is larger than the client and the configuration allow, the OPT
\* RR and its option included.
AlwaysFits == Responded => Len(c.pkt) <= SizeLimit(q)

\* That holds however many options a query has, in spite of what they leave for
\* the answer, until the room set aside for them exceeds all there is.
ResponseFits == OptRoom(q) <= SizeLimit(q) => AlwaysFits

\* The assertion in repeat_name(): a name that is copied since no pointer
\* reaches it can be read.
InReach == \A i \in DOMAIN c.add : c.add[i] # Undefined

\* A referral carries every glue rrset of its nameservers in full, or the TC
\* bit: no glue is dropped silently.
GlueOrTC ==
    pc = "done" /\ c.status = "DELEG" /\ ~c.tc =>
      \A n \in c.res : \A rd \in Range(TheRRset(tree[n], "NS").rdata) :
         rd.glue => \A ad \in rd.ad :
                      AddrRRset(ad).static =>
                        Cardinality({i \in 1 .. c.ar : i <= Len(c.meant.ar) /\ c.meant.ar[i].owner = rd.dname})
                          = AddrRRset(ad).lim4 + AddrRRset(ad).lim6

\* A chain of CNAMEs is only cut short at run time if there is a DYNC in it,
\* loading has refused the static ones; and the names plugins gave fit the
\* room that was allocated for max_cname_depth of them.
ChainsBounded == (c.cut => ~c.static) /\ c.dyncs <= max_cname_depth

\* The response code is the one the zone files call for: refused outside of all
\* zones, no error below a delegation, and NXDOMAIN exactly for a name that
\* neither exists nor matches a wildcard of its closest encloser.  And every
\* request, answered or ignored, is counted by exactly one of the seven
\* counters whose sum the statistics report as the requests.
ZonesOf(d) == {z \in Zones : InZone(d, z)}
Exists(z, d) == (\E r \in loaded : r.zone = z /\ InZone(r.name, z) /\ InZone(r.name, d))
                \/ (\E y \in Zones : InZone(y, d))
ExpectedRcode(d) ==
    IF ZonesOf(d) = {} THEN "REFUSED"
    ELSE LET z == Longest(ZonesOf(d))
             e == Longest({f \in Path(d) : Len(f) >= Len(z) /\ Exists(z, f)})
         IN  IF \E r \in loaded : r.zone = z /\ r.type = "NS" /\ r.name # z /\ InZone(d, r.name)
             THEN "NOERROR"
             ELSE IF e = d \/ Exists(z, <<Star>> \o e) THEN "NOERROR" ELSE "NXDOMAIN"

RcodeMatches ==
    /\ Responded /\ q.edns \notin {"badvers", "formerr"} /\ ~q.chaos /\ ~c.cut =>
         c.rcode = IF c.via /\ c.status = "NOAUTH" THEN "NOERROR" ELSE ExpectedRcode(c.qname)
    /\ pc = "done" => c.counted = 1

\* "We only do one kind of truncation: complete truncation": a truncated
\* response has the question and no records but the OPT RR.
CompleteTruncation == pc = "done" /\ c.tc => c.hdr = <<0, 0, Len(OptPart)>>
=============================================================================
