-------------------------- MODULE DnsPacketProofs --------------------------
(***************************************************************************)
(* What the server answers, for any zones and records, any names plugins   *)
(* may give, any queries and any limits: the response code is the one the  *)
(* records call for, every request is counted once, no chain of static     *)
(* CNAMEs that loading has accepted is cut, and every response fits.       *)
(*                                                                         *)
(* The invariant has two halves.  LoadInv is about the tree while it is    *)
(* built: TreeOK relates its nodes and their flags to the zones and to the *)
(* records loaded so far, and Accepted keeps what phase 1 has found out    *)
(* about CNAMEs.  The specification by which RcodeMatches judges a code    *)
(* speaks of zones and records only; ExpectedIs shows that for a tree that *)
(* is TreeOK it is the same as what a search of the tree finds.            *)
(*                                                                         *)
(* ServeInv is about one request: how often it has been counted (CountOK), *)
(* what is known of the chain of CNAMEs followed so far (ChainOK), and of  *)
(* the node the answer comes from (RcodeOK).  Most steps only write to the *)
(* packet; Keeps says which fields of the context they leave alone, and    *)
(* there is one lemma of this kind for each encoder.  A chain that is      *)
(* static so far is one that phase 1 has followed too (Chained), though    *)
(* phase 1 stays within one zone and a query may enter subzones: the zone  *)
(* of a query's name only becomes longer.                                  *)
(*                                                                         *)
(* Two more conjuncts are about sizes.  LinkInv: the address rrsets that   *)
(* phase 1 has linked to NS and MX records exist and have counts.  WireInv:*)
(* while a response is encoded the packet, the additional store and the    *)
(* table of its rrsets are sequences and the first rrset starts the store  *)
(* (Wire, with a lemma for each encoder), so trimming always finds a       *)
(* prefix of the store that fits and truncation a question that does; from *)
(* then on the length itself is in the invariant.                          *)
(*                                                                         *)
(* Search paths, hops and loops over records are recursive functions.  The *)
(* lemmas on them show that the function exists and what it gives, by      *)
(* induction in the form of a statement on sets of numbers.                *)
(***************************************************************************)
EXTENDS DnsPacket, WellFoundedInduction, FiniteSetTheorems, TLAPS

-----------------------------------------------------------------------------
(* Names: the path of a name is linearly ordered by length.                *)

LEMMA Least ==
  ASSUME NEW T \in SUBSET Nat, T # {}
  PROVE  \E x \in T : \A y \in T : x <= y
<1> DEFINE R == OpToRel(<, Nat)
<1>1. IsWellFoundedOn(OpToRel(<, Nat), Nat) BY NatLessThanWellFounded
<1>2. IsWellFoundedOn(R, Nat) BY <1>1
<1>3. \A x, y \in Nat : y < x => <<y, x>> \in R BY DEF OpToRel
<1> HIDE DEF R
<1>4. PICK x \in T : \A y \in T : ~(<<y, x>> \in R) BY <1>2, WFMin
<1>5. ASSUME NEW y \in T PROVE x <= y
  <2>1. x \in Nat /\ y \in Nat OBVIOUS
  <2>2. ~(y < x) BY <1>3, <1>4, <2>1
  <2> QED BY <2>1, <2>2
<1> QED BY <1>5

LEMMA Induction ==
  ASSUME NEW S \in SUBSET Nat, 0 \in S, \A n \in Nat : n \in S => n + 1 \in S
  PROVE  Nat \subseteq S
<1> SUFFICES ASSUME Nat \ S # {} PROVE FALSE OBVIOUS
<1>1. PICK x \in Nat \ S : \A y \in Nat \ S : x <= y BY Least
<1>2. x # 0 OBVIOUS
<1>3. x - 1 \in Nat /\ (x - 1) + 1 = x /\ ~(x <= x - 1) BY <1>2
<1>4. x - 1 \in S BY <1>1, <1>3
<1> QED BY <1>3, <1>4

LEMMA SuffixIs ==
  ASSUME NEW d \in Name, NEW j \in 0..Len(d)
  PROVE  /\ Suffix(d, j) \in Name /\ Len(Suffix(d, j)) = j
         /\ \A i \in 1..j : Suffix(d, j)[i] = d[Len(d) - j + i]
<1>1. Len(d) \in Nat BY DEF Name
<1>2. Len(d) - j + 1 \in 1..(Len(d) + 1) /\ (1 + Len(d)) - (Len(d) - j + 1) = j BY <1>1
<1>3. Suffix(d, j) = [i \in 1..j |-> d[Len(d) - j + i]]
  BY <1>1, <1>2 DEF Suffix, Name
<1>4. \A i \in 1..j : Len(d) - j + i \in 1..Len(d) BY <1>1
<1>5. Suffix(d, j) \in [1..j -> Label] BY <1>3, <1>4 DEF Name
<1>6. j \in Nat BY <1>1
<1> QED BY <1>3, <1>5, <1>6 DEF Name

LEMMA Equal ==
  ASSUME NEW d \in Name, NEW e \in Name, Len(d) = Len(e), \A i \in 1..Len(d) : d[i] = e[i]
  PROVE  d = e
BY DEF Name

LEMMA SuffixAll == ASSUME NEW d \in Name PROVE Suffix(d, Len(d)) = d
<1>1. Len(d) \in Nat /\ Len(d) \in 0..Len(d) BY DEF Name
<1>2. \A i \in 1..Len(d) : Len(d) - Len(d) + i = i BY <1>1
<1> QED BY <1>1, <1>2, SuffixIs, Equal

LEMMA SuffixTwice ==
  ASSUME NEW d \in Name, NEW j \in 0..Len(d), NEW i \in 0..j
  PROVE  Suffix(Suffix(d, j), i) = Suffix(d, i)
<1> DEFINE e == Suffix(d, j)
<1>1. Len(d) \in Nat /\ j \in Nat /\ i \in Nat /\ i \in 0..Len(d) BY DEF Name
<1>2. e \in Name /\ Len(e) = j /\ \A m \in 1..j : e[m] = d[Len(d) - j + m] BY SuffixIs
<1> HIDE DEF e
<1>3. /\ Suffix(e, i) \in Name /\ Len(Suffix(e, i)) = i
      /\ \A m \in 1..i : Suffix(e, i)[m] = e[j - i + m] BY <1>2, SuffixIs
<1>4. /\ Suffix(d, i) \in Name /\ Len(Suffix(d, i)) = i
      /\ \A m \in 1..i : Suffix(d, i)[m] = d[Len(d) - i + m] BY <1>1, SuffixIs
<1>5. ASSUME NEW m \in 1..i PROVE Suffix(e, i)[m] = Suffix(d, i)[m]
  <2>1. j - i + m \in 1..j /\ Len(d) - j + (j - i + m) = Len(d) - i + m BY <1>1
  <2> QED BY <1>2, <1>3, <1>4, <2>1
<1>6. Suffix(e, i) = Suffix(d, i) BY <1>3, <1>4, <1>5, Equal
<1> QED BY <1>6 DEF e

\* The path of a name consists of the names it lies in.
LEMMA PathIs ==
  ASSUME NEW d \in Name
  PROVE  /\ \A n : n \in Path(d) <=> n \in Name /\ InZone(d, n)
         /\ \A n \in Path(d) : n \in Name /\ Len(n) \in Nat /\ Len(n) <= Len(d) /\ Suffix(d, Len(n)) = n
<1>1. Len(d) \in Nat BY DEF Name
<1>2. ASSUME NEW n \in Path(d)
      PROVE  n \in Name /\ Len(n) \in Nat /\ Len(n) <= Len(d) /\ Suffix(d, Len(n)) = n
  <2>1. PICK j \in 0..Len(d) : n = Suffix(d, j) BY DEF Path
  <2>2. n \in Name /\ Len(n) = j BY <2>1, SuffixIs
  <2> QED BY <1>1, <2>1, <2>2
<1>3. ASSUME NEW n \in Name, InZone(d, n) PROVE n \in Path(d)
  <2>1. Len(n) \in 0..Len(d) BY <1>1, <1>3 DEF Name, InZone
  <2> QED BY <1>3, <2>1 DEF Path, InZone
<1> QED BY <1>2, <1>3 DEF InZone

LEMMA PathSelf == ASSUME NEW d \in Name PROVE d \in Path(d) /\ <<>> \in Path(d) /\ <<>> \in Name
<1>1. Len(d) \in Nat /\ Len(d) \in 0..Len(d) /\ 0 \in 0..Len(d) BY DEF Name
<1>2. d \in Path(d) BY <1>1, SuffixAll DEF Path
<1>3. Suffix(d, 0) \in Name /\ Len(Suffix(d, 0)) = 0 BY <1>1, SuffixIs
<1>4. <<>> \in Name /\ Len(<<>>) = 0 BY DEF Name
<1>5. Suffix(d, 0) = <<>> BY <1>3, <1>4, Equal
<1> QED BY <1>1, <1>2, <1>4, <1>5 DEF Path

LEMMA PathTrans ==
  ASSUME NEW d \in Name, NEW m \in Path(d), NEW n \in Path(m)
  PROVE  n \in Path(d)
<1>1. m \in Name /\ Len(m) \in Nat /\ Len(m) <= Len(d) /\ Suffix(d, Len(m)) = m BY PathIs
<1>2. n \in Name /\ Len(n) \in Nat /\ Len(n) <= Len(m) /\ Suffix(m, Len(n)) = n BY <1>1, PathIs
<1>3. Len(d) \in Nat /\ Len(m) \in 0..Len(d) /\ Len(n) \in 0..Len(m) BY <1>1, <1>2 DEF Name
<1>4. Suffix(d, Len(n)) = n BY <1>1, <1>2, <1>3, SuffixTwice
<1>5. Len(n) \in 0..Len(d) BY <1>1, <1>2, <1>3
<1> QED BY <1>4, <1>5 DEF Path

LEMMA PathLinear ==
  ASSUME NEW d \in Name, NEW m \in Path(d), NEW n \in Path(d), Len(n) <= Len(m)
  PROVE  n \in Path(m)
<1>1. m \in Name /\ Len(m) \in Nat /\ Len(m) <= Len(d) /\ Suffix(d, Len(m)) = m BY PathIs
<1>2. n \in Name /\ Len(n) \in Nat /\ Len(n) <= Len(d) /\ Suffix(d, Len(n)) = n BY PathIs
<1>3. Len(d) \in Nat /\ Len(m) \in 0..Len(d) /\ Len(n) \in 0..Len(m) BY <1>1, <1>2 DEF Name
<1>4. Suffix(m, Len(n)) = n BY <1>1, <1>2, <1>3, SuffixTwice
<1> QED BY <1>3, <1>4 DEF Path

LEMMA PathSame ==
  ASSUME NEW d \in Name, NEW m \in Path(d), NEW n \in Path(d), Len(n) = Len(m)
  PROVE  n = m
BY PathIs

\* A set of names of one path has a longest one.
LEMMA LongestIs ==
  ASSUME NEW d \in Name, NEW S \in SUBSET Path(d), S # {}
  PROVE  /\ Longest(S) \in S /\ \A m \in S : Len(m) <= Len(Longest(S)) /\ m \in Path(Longest(S))
         /\ \A n \in S : (\A m \in S : Len(m) <= Len(n)) => n = Longest(S)
<1> DEFINE T == {Len(d) - Len(n) : n \in S}
<1>0. Len(d) \in Nat BY DEF Name
<1>1. \A n \in S : Len(n) \in Nat /\ Len(n) <= Len(d) BY PathIs
<1>2. T \in SUBSET Nat /\ T # {} BY <1>0, <1>1
<1>3. PICK x \in T : \A y \in T : x <= y BY <1>2, Least
<1>4. PICK n \in S : x = Len(d) - Len(n) BY <1>3
<1>5. \A m \in S : Len(m) <= Len(n)
  <2> TAKE m \in S
  <2>1. Len(d) - Len(m) \in T OBVIOUS
  <2>2. Len(d) - Len(n) <= Len(d) - Len(m) BY <1>3, <1>4, <2>1
  <2> QED BY <1>0, <1>1, <2>2
<1>6. Longest(S) \in S /\ \A m \in S : Len(m) <= Len(Longest(S)) BY <1>5 DEF Longest
<1>7. \A m \in S : m \in Path(Longest(S))
  <2> TAKE m \in S
  <2>1. Longest(S) \in Path(d) /\ m \in Path(d) /\ Len(m) <= Len(Longest(S)) BY <1>6
  <2> QED BY <2>1, PathLinear
<1>8. ASSUME NEW y \in S, \A m \in S : Len(m) <= Len(y) PROVE y = Longest(S)
  <2>1. Len(y) <= Len(Longest(S)) /\ Len(Longest(S)) <= Len(y) BY <1>6, <1>8
  <2>2. Len(y) = Len(Longest(S)) BY <1>1, <1>6, <2>1
  <2> QED BY <1>6, <2>2, PathSame
<1> QED BY <1>6, <1>7, <1>8

LEMMA StarIs ==
  ASSUME NEW e \in Name
  PROVE  /\ <<Star>> \o e \in Name /\ Len(<<Star>> \o e) = Len(e) + 1
         /\ Path(<<Star>> \o e) = Path(e) \cup {<<Star>> \o e}
<1> DEFINE w == <<Star>> \o e
<1>1. <<Star>> \in Name /\ Len(<<Star>>) = 1
  <2>1. Star \in Label BY DEF Label
  <2>2. Len(<<Star>>) = 1 /\ DOMAIN <<Star>> = 1..1 OBVIOUS
  <2>3. <<Star>> = [i \in 1..1 |-> Star] OBVIOUS
  <2>4. <<Star>> \in [1..1 -> Label] BY <2>1, <2>3
  <2> QED BY <2>2, <2>4 DEF Name
<1>2. w \in Name /\ Len(w) = Len(e) + 1 /\ \A i \in 1..Len(e) : w[i + 1] = e[i] BY <1>1 DEF Name
<1>3. Len(e) \in Nat BY DEF Name
<1> HIDE DEF w
<1>4. e \in Path(w)
  <2>1. Len(e) \in 0..Len(w) BY <1>2, <1>3
  <2>2. /\ Suffix(w, Len(e)) \in Name /\ Len(Suffix(w, Len(e))) = Len(e)
        /\ \A i \in 1..Len(e) : Suffix(w, Len(e))[i] = w[Len(w) - Len(e) + i] BY <1>2, <2>1, SuffixIs
  <2>3. \A i \in 1..Len(e) : Len(w) - Len(e) + i = i + 1 BY <1>2, <1>3
  <2>4. Suffix(w, Len(e)) = e BY <1>2, <2>2, <2>3, Equal
  <2> QED BY <2>1, <2>4 DEF Path
<1>5. Path(e) \subseteq Path(w) /\ w \in Path(w) BY <1>2, <1>4, PathTrans, PathSelf
<1>6. ASSUME NEW n \in Path(w), n # w PROVE n \in Path(e)
  <2>0. Len(n) \in Nat /\ Len(n) <= Len(w) BY <1>2, PathIs
  <2>1. Len(n) # Len(w) BY <1>2, <1>5, <1>6, PathSame
  <2>2. Len(n) <= Len(e) BY <1>2, <1>3, <2>0, <2>1
  <2> QED BY <1>2, <1>4, <2>2, PathLinear
<1> QED BY <1>2, <1>5, <1>6 DEF w

-----------------------------------------------------------------------------
(* Nodes and rrsets                                                        *)

IsSeq(s) == Len(s) \in Nat /\ s = [i \in 1..Len(s) |-> s[i]]

RRFields == {"type", "static", "v4", "v6", "lim4", "lim6", "rdata"}
Numbers(r) == r.v4 \in Nat /\ r.v6 \in Nat /\ r.lim4 \in Nat /\ r.lim6 \in Nat
RdataOK(r) == \A i \in 1..Len(r.rdata) : /\ IsSeq(r.rdata[i].dname)
                                         /\ r.type # "SOA" => r.rdata[i].dname \in Name
IsRR(r) == /\ DOMAIN r = RRFields /\ IsSeq(r.rdata) /\ Numbers(r) /\ RdataOK(r)
           /\ r.type \in {"A", "SOA", "NS", "CNAME", "MX", "SRV", "TXT"}
           /\ r.type = "CNAME" /\ r.static => r.rdata[1].dname \in Name
           /\ r.type = "SOA" => Len(r.rdata) = 2
IsNode(x) == /\ DOMAIN x = {"flags", "rrsets"}
             /\ IsSeq(x.rrsets) /\ \A i \in 1..Len(x.rrsets) : IsRR(x.rrsets[i])

LEMMA AppendIs ==
  ASSUME NEW s, IsSeq(s), NEW e
  PROVE  /\ IsSeq(Append(s, e)) /\ Len(Append(s, e)) = Len(s) + 1
         /\ \A i \in 1..Len(s) : Append(s, e)[i] = s[i]
         /\ Append(s, e)[Len(s) + 1] = e
<1> DEFINE S == {s[i] : i \in 1..Len(s)} \cup {e}
           n == Len(s)
<1>1. n \in Nat /\ s = [i \in 1..n |-> s[i]] BY DEF IsSeq
<1>2. \A i \in 1..n : s[i] \in S OBVIOUS
<1> HIDE DEF S
<1>3. s \in [1..n -> S] BY <1>1, <1>2
<1>4. s \in Seq(S) /\ e \in S BY <1>1, <1>3 DEF S
<1>5. /\ Append(s, e) \in Seq(S) /\ Len(Append(s, e)) = n + 1
      /\ \A i \in 1..n : Append(s, e)[i] = s[i]
      /\ Append(s, e)[n + 1] = e BY <1>4
<1>6. IsSeq(Append(s, e))
  <2> DEFINE f == Append(s, e)
  <2>1. f \in Seq(S) /\ Len(f) = n + 1 BY <1>5
  <2> HIDE DEF f
  <2>2. f \in [1..(n + 1) -> S] BY <1>1, <2>1
  <2>3. f = [i \in 1..Len(f) |-> f[i]] BY <2>1, <2>2
  <2> QED BY <1>1, <2>1, <2>3 DEF IsSeq, f
<1> QED BY <1>5, <1>6

LEMMA MapIs ==
  ASSUME NEW s, IsSeq(s), NEW m, DOMAIN m = DOMAIN s, m = [i \in DOMAIN s |-> m[i]]
  PROVE  IsSeq(m) /\ Len(m) = Len(s) /\ DOMAIN m = 1..Len(s)
<1>1. Len(s) \in Nat /\ DOMAIN s = 1..Len(s) BY DEF IsSeq
<1>2. Len(m) = Len(s) BY <1>1
<1> QED BY <1>1, <1>2 DEF IsSeq

LEMMA NameSeq == ASSUME NEW d \in Name PROVE IsSeq(d)
BY DEF Name, IsSeq

\* Sequences in the sense of IsSeq are sequences over their elements.
LEMMA SeqIs ==
  ASSUME NEW s, IsSeq(s)
  PROVE  \E S : s \in Seq(S)
<1> DEFINE S == {s[i] : i \in 1..Len(s)}
           n == Len(s)
<1>1. n \in Nat /\ s = [i \in 1..n |-> s[i]] BY DEF IsSeq
<1>2. \A i \in 1..n : s[i] \in S OBVIOUS
<1> HIDE DEF S
<1>3. s \in [1..n -> S] BY <1>1, <1>2
<1>4. s \in Seq(S) BY <1>1, <1>3
<1> QED BY <1>4

LEMMA SeqOver == ASSUME NEW S, NEW s \in Seq(S) PROVE IsSeq(s)
BY DEF IsSeq

LEMMA ConcatIs ==
  ASSUME NEW s, IsSeq(s), NEW v, IsSeq(v)
  PROVE  IsSeq(s \o v) /\ Len(s \o v) = Len(s) + Len(v)
<1>1. PICK S : s \in Seq(S) BY SeqIs
<1>2. PICK T : v \in Seq(T) BY SeqIs
<1>3. s \in Seq(S \cup T) BY <1>1
<1>4. v \in Seq(S \cup T) BY <1>2
<1>5. s \o v \in Seq(S \cup T) /\ Len(s \o v) = Len(s) + Len(v) BY <1>3, <1>4
<1> QED BY <1>5, SeqOver

LEMMA RRsetFound ==
  ASSUME NEW x, IsNode(x), NEW ty, Has(x, ty)
  PROVE  IsRR(TheRRset(x, ty)) /\ TheRRset(x, ty).type = ty /\ TheRRset(x, ty) \in RRsetsOf(x, ty)
<1>1. TheRRset(x, ty) \in RRsetsOf(x, ty) BY DEF Has, TheRRset
<1>2. DOMAIN x.rrsets = 1..Len(x.rrsets) BY DEF IsNode, IsSeq
<1> QED BY <1>1, <1>2 DEF RRsetsOf, IsNode

LEMMA HasIs ==
  ASSUME NEW x, IsNode(x), NEW ty
  PROVE  Has(x, ty) <=> \E i \in 1..Len(x.rrsets) : x.rrsets[i].type = ty
<1>1. DOMAIN x.rrsets = 1..Len(x.rrsets) BY DEF IsNode, IsSeq
<1> QED BY <1>1 DEF Has, RRsetsOf

LEMMA SetRRsetIs ==
  ASSUME NEW x, IsNode(x), NEW r, IsRR(r)
  PROVE  /\ IsNode(SetRRset(x, r)) /\ SetRRset(x, r).flags = x.flags
         /\ \A ty : Has(SetRRset(x, r), ty) => ty = r.type \/ Has(x, ty)
<1> DEFINE s == x.rrsets
           u == [i \in DOMAIN s |-> IF s[i].type = r.type THEN r ELSE s[i]]
           v == IF Has(x, r.type) THEN u ELSE Append(s, r)
           y == SetRRset(x, r)
<1>1. DOMAIN x = {"flags", "rrsets"} /\ IsSeq(s) /\ \A i \in 1..Len(s) : IsRR(s[i]) BY DEF IsNode
<1>2. DOMAIN s = 1..Len(s) /\ Len(s) \in Nat BY <1>1 DEF IsSeq
<1>3. DOMAIN y = {"flags", "rrsets"} /\ y.flags = x.flags /\ y.rrsets = v BY <1>1 DEF SetRRset
<1>4. /\ IsSeq(v) /\ \A i \in 1..Len(v) : IsRR(v[i])
      /\ \A i \in 1..Len(v) : v[i].type = r.type \/ \E j \in 1..Len(s) : v[i].type = s[j].type
  <2>1. CASE Has(x, r.type)
    <3>1. v = u BY <2>1
    <3>2. DOMAIN u = 1..Len(s) BY <1>2
    <3>3. Len(u) = Len(s) BY <1>2, <3>2
    <3>4. IsSeq(u) BY <1>2, <3>3 DEF IsSeq
    <3>5. \A i \in 1..Len(s) : u[i] = r \/ u[i] = s[i] BY <1>2
    <3> HIDE DEF u, v
    <3> QED BY <1>1, <3>1, <3>3, <3>4, <3>5
  <2>2. CASE ~Has(x, r.type)
    <3>1. v = Append(s, r) BY <2>2
    <3>2. /\ IsSeq(Append(s, r)) /\ Len(Append(s, r)) = Len(s) + 1
          /\ \A i \in 1..Len(s) : Append(s, r)[i] = s[i]
          /\ Append(s, r)[Len(s) + 1] = r BY <1>1, AppendIs
    <3>3. \A i \in 1..(Len(s) + 1) : i \in 1..Len(s) \/ i = Len(s) + 1 BY <1>2
    <3> HIDE DEF v, s
    <3> QED BY <1>1, <3>1, <3>2, <3>3
  <2> QED BY <2>1, <2>2
<1> HIDE DEF v, s, y
<1>5. IsNode(y) BY <1>3, <1>4 DEF IsNode
<1>6. ASSUME NEW ty, Has(y, ty) PROVE ty = r.type \/ Has(x, ty)
  <2>1. PICK i \in 1..Len(v) : v[i].type = ty BY <1>3, <1>5, <1>6, HasIs
  <2>2. CASE \E j \in 1..Len(s) : ty = s[j].type BY <2>2, HasIs DEF s
  <2> QED BY <1>4, <2>1, <2>2
<1> QED BY <1>3, <1>5, <1>6 DEF y

-----------------------------------------------------------------------------
(* The shape of a tree t: it is closed under going up, and what lies at or *)
(* below a zone root is authoritative.                                     *)

Root(t, z) == z \in DOMAIN t /\ "ZROOT" \in t[z].flags
Shape(t) ==
  /\ <<>> \in DOMAIN t
  /\ \A n \in DOMAIN t : n \in Name /\ Path(n) \subseteq DOMAIN t /\ IsNode(t[n])
  /\ \A n \in DOMAIN t : \A z \in Path(n) : Root(t, z) => "AUTH" \in t[n].flags

\* Node n of t2 has the marks it has in t1, if it was there.
SameMarks(t1, t2, n) ==
  /\ Root(t2, n) <=> Root(t1, n)
  /\ "DELEG" \in t2[n].flags <=> n \in DOMAIN t1 /\ "DELEG" \in t1[n].flags

\* Adding the nodes of a path changes no marks and no rrsets.
LEMMA FindOrAddIs ==
  ASSUME NEW t, Shape(t), NEW d \in Name
  PROVE  LET u == FindOrAdd(t, d)
         IN  /\ DOMAIN u = DOMAIN t \cup Path(d) /\ d \in DOMAIN u
             /\ Shape(u)
             /\ \A n \in DOMAIN u : /\ SameMarks(t, u, n)
                                    /\ u[n].rrsets = IF n \in DOMAIN t THEN t[n].rrsets ELSE <<>>
<1> DEFINE u == FindOrAdd(t, d)
           known(n) == IF n \in DOMAIN t THEN t[n] ELSE Filler
           roots == {i \in 0..Len(d) : "ZROOT" \in known(Suffix(d, i)).flags}
           auth(n) == n \in Path(d) /\ \E i \in roots : i < Len(n)
<1>1. u = [n \in DOMAIN t \cup Path(d) |->
             IF auth(n) THEN [known(n) EXCEPT !.flags = @ \cup {"AUTH"}] ELSE known(n)]
  BY DEF FindOrAdd
<1>2. DOMAIN u = DOMAIN t \cup Path(d) /\ d \in DOMAIN u /\ <<>> \in DOMAIN u BY <1>1, PathSelf
<1>3. IsNode(Filler) /\ Filler.flags = {} /\ Filler.rrsets = <<>> BY DEF IsNode, Filler, IsSeq
<1>4. \A n : IsNode(known(n)) BY <1>3 DEF Shape
<1>5. ASSUME NEW n \in DOMAIN u
      PROVE  /\ IsNode(u[n]) /\ u[n].rrsets = known(n).rrsets
             /\ \A f : f # "AUTH" => (f \in u[n].flags <=> f \in known(n).flags)
             /\ known(n).flags \subseteq u[n].flags
             /\ auth(n) => "AUTH" \in u[n].flags
  <2> DEFINE x == known(n)
             y == [x EXCEPT !.flags = @ \cup {"AUTH"}]
  <2>1. u[n] = IF auth(n) THEN y ELSE x BY <1>1, <1>2
  <2>2. IsNode(x) BY <1>4
  <2> HIDE DEF x, auth
  <2>3. DOMAIN y = {"flags", "rrsets"} /\ y.rrsets = x.rrsets /\ y.flags = x.flags \cup {"AUTH"}
    BY <2>2 DEF IsNode
  <2>4. IsNode(y) BY <2>2, <2>3 DEF IsNode
  <2> HIDE DEF y
  <2>5. u[n].rrsets = x.rrsets /\ IsNode(u[n]) BY <2>1, <2>2, <2>3, <2>4
  <2>6. u[n].flags = IF auth(n) THEN x.flags \cup {"AUTH"} ELSE x.flags BY <2>1, <2>3
  <2> HIDE DEF u
  <2>7. /\ \A f : f # "AUTH" => (f \in u[n].flags <=> f \in x.flags)
        /\ x.flags \subseteq u[n].flags
        /\ auth(n) => "AUTH" \in u[n].flags
    BY <2>6
  <2> QED BY <2>5, <2>7 DEF x
<1> HIDE DEF u, known, auth
<1>6. \A n : (n \in DOMAIN t => known(n) = t[n]) /\ (n \notin DOMAIN t => known(n) = Filler) BY DEF known
<1>7. ASSUME NEW n \in DOMAIN u
      PROVE  SameMarks(t, u, n) /\ u[n].rrsets = IF n \in DOMAIN t THEN t[n].rrsets ELSE <<>>
  <2>1. u[n].rrsets = IF n \in DOMAIN t THEN t[n].rrsets ELSE <<>> BY <1>3, <1>5, <1>6
  <2>2. "ZROOT" \in u[n].flags <=> "ZROOT" \in known(n).flags BY <1>5
  <2>3. "DELEG" \in u[n].flags <=> "DELEG" \in known(n).flags BY <1>5
  <2> QED BY <1>3, <1>6, <2>1, <2>2, <2>3 DEF SameMarks, Root
<1>8. ASSUME NEW n \in DOMAIN u PROVE n \in Name /\ Path(n) \subseteq DOMAIN u
  <2>1. CASE n \in DOMAIN t BY <1>2, <2>1 DEF Shape
  <2>2. CASE n \in Path(d) BY <1>2, <2>2, PathIs, PathTrans
  <2> QED BY <1>2, <2>1, <2>2
<1>9. ASSUME NEW n \in DOMAIN u, NEW z \in Path(n), Root(u, z) PROVE "AUTH" \in u[n].flags
  <2>1. Root(t, z) BY <1>7, <1>9 DEF SameMarks, Root
  <2>2. CASE n \in DOMAIN t
    <3>1. "AUTH" \in t[n].flags BY <2>1, <2>2 DEF Shape
    <3> QED BY <1>5, <1>6, <2>2, <3>1
  <2>3. CASE n \notin DOMAIN t
    <3>1. n \in Path(d) /\ n \in Name /\ Len(n) \in Nat BY <1>2, <2>3, PathIs
    <3>2. z \in Path(d) /\ z # n BY <2>1, <2>3, <3>1, PathTrans DEF Root
    <3>3. Len(z) \in Nat /\ Len(z) <= Len(d) /\ Suffix(d, Len(z)) = z BY <3>2, PathIs
    <3>4. Len(z) <= Len(n) /\ Len(z) # Len(n) BY <3>1, <3>2, PathIs, PathSame
    <3>5. Len(z) \in roots
      <4>1. Len(z) \in 0..Len(d) BY <3>3 DEF Name
      <4>2. "ZROOT" \in known(Suffix(d, Len(z))).flags BY <1>6, <2>1, <3>3 DEF Root
      <4> QED BY <4>1, <4>2
    <3>6. auth(n)
      <4>1. Len(z) < Len(n) BY <3>1, <3>3, <3>4
      <4> QED BY <3>1, <3>5, <4>1 DEF auth
    <3> QED BY <1>5, <3>6
  <2> QED BY <2>2, <2>3
<1>10. Shape(u) BY <1>2, <1>5, <1>8, <1>9 DEF Shape
<1>11. /\ DOMAIN u = DOMAIN t \cup Path(d) /\ d \in DOMAIN u
       /\ Shape(u)
       /\ \A n \in DOMAIN u : /\ SameMarks(t, u, n)
                              /\ u[n].rrsets = IF n \in DOMAIN t THEN t[n].rrsets ELSE <<>>
  BY <1>2, <1>7, <1>10
<1> QED BY <1>11 DEF u

LEMMA SetNodeIs ==
  ASSUME NEW t, Shape(t), NEW n \in DOMAIN t, NEW x, IsNode(x),
         "AUTH" \in t[n].flags => "AUTH" \in x.flags,
         "ZROOT" \in x.flags <=> "ZROOT" \in t[n].flags
  PROVE  LET u == [t EXCEPT ![n] = x]
         IN  DOMAIN u = DOMAIN t /\ Shape(u) /\ u[n] = x /\ \A m \in DOMAIN t \ {n} : u[m] = t[m]
<1> DEFINE u == [t EXCEPT ![n] = x]
<1>1. DOMAIN u = DOMAIN t /\ u[n] = x /\ \A m \in DOMAIN t \ {n} : u[m] = t[m] OBVIOUS
<1> HIDE DEF u
<1>2. \A z : Root(u, z) <=> Root(t, z) BY <1>1 DEF Root
<1>3. Shape(u) BY <1>1, <1>2 DEF Shape
<1>4. DOMAIN u = DOMAIN t /\ Shape(u) /\ u[n] = x /\ \A m \in DOMAIN t \ {n} : u[m] = t[m] BY <1>1, <1>3
<1> QED BY <1>4 DEF u

-----------------------------------------------------------------------------
(* What loading maintains, of a tree t and the records ld taken so far in  *)
(* phase ph: the zone roots are the zones, every node has a reason to be   *)
(* there, the delegation points are the names of NS records outside of the *)
(* zone roots, and no zone root has a CNAME.                               *)

IsRecord(r) == \E i \in DOMAIN Records : r = Records[i]
Inside(r) == InZone(r.name, r.zone)

LoadedOK(t, r) ==
  /\ IsRecord(r)
  /\ r.type \notin {"A", "AAAA"} => Inside(r)
  /\ Inside(r) => r.name \in DOMAIN t /\ (r.type # "SOA" => SubzonesOk(r))

Justified(t, ld, n) ==
  \/ n = <<>>
  \/ \E z : Root(t, z) /\ n \in Path(z)
  \/ \E r \in ld : Inside(r) /\ n \in Path(r.name)

Delegated(ld, n) == n \notin Zones /\ \E r \in ld : r.type = "NS" /\ r.name = n

RootsOK(ph, t, ld) ==
  /\ \A z : Root(t, z) => z \in Zones
  /\ ph # "zones" => \A z \in Zones : Root(t, z)
  /\ ph = "zones" => /\ ld = {} /\ \A n \in DOMAIN t : t[n].rrsets = <<>>
                     /\ \A y, z \in Zones : Root(t, z) /\ Len(y) < Len(z) => Root(t, y)

TreeOK(ph, t, ld) ==
  /\ Shape(t)
  /\ RootsOK(ph, t, ld)
  /\ \A r \in ld : LoadedOK(t, r)
  /\ \A n \in DOMAIN t : /\ Justified(t, ld, n)
                         /\ "DELEG" \in t[n].flags <=> Delegated(ld, n)
                         /\ Has(t[n], "CNAME") => ~Root(t, n)

TreeInv == TreeOK(phase, tree, loaded)

LEMMA RecordIs ==
  ASSUME NEW r, IsRecord(r)
  PROVE  /\ r.zone \in Zones /\ r.zone \in Name /\ r.type \in RecordType
         /\ r.name \in Name /\ r.rd \in Name /\ (r.type = "SOA" => r.name = r.zone) /\ r.lim \in Nat
BY RecordsAssumption DEF IsRecord

LEMMA SameRrsets ==
  ASSUME NEW x, NEW y, x.rrsets = y.rrsets, NEW ty
  PROVE  (Has(x, ty) <=> Has(y, ty)) /\ RRsetsOf(x, ty) = RRsetsOf(y, ty)
BY DEF Has, RRsetsOf

LEMMA NoRrsets == ASSUME NEW x, x.rrsets = <<>>, NEW ty PROVE ~Has(x, ty)
BY DEF Has, RRsetsOf

LEMMA TreeInitially == TreeOK("zones", [n \in {<<>>} |-> Filler], {})
<1> DEFINE t == [n \in {<<>>} |-> Filler]
<1>1. DOMAIN t = {<<>>} /\ t[<<>>] = Filler OBVIOUS
<1> HIDE DEF t
<1>2. IsNode(Filler) /\ Filler.flags = {} /\ Filler.rrsets = <<>> BY DEF IsNode, Filler, IsSeq
<1>3. <<>> \in Name /\ Path(<<>>) = {<<>>}
  <2>1. <<>> \in Name /\ Len(<<>>) = 0 BY DEF Name
  <2>2. \A n \in Path(<<>>) : n = <<>> BY <2>1, PathIs, PathSelf, PathSame
  <2> QED BY <2>1, <2>2, PathSelf
<1>4. \A z : ~Root(t, z) BY <1>1, <1>2 DEF Root
<1>5. Shape(t) BY <1>1, <1>2, <1>3, <1>4 DEF Shape
<1>6. RootsOK("zones", t, {}) BY <1>1, <1>2, <1>4 DEF RootsOK
<1>7. ~Has(Filler, "CNAME") BY <1>2, NoRrsets
<1>8. TreeOK("zones", t, {}) BY <1>1, <1>2, <1>5, <1>6, <1>7 DEF TreeOK, Justified, Delegated
<1> QED BY <1>8 DEF t

\* A zone is added after all the shorter ones: nothing is below it yet.
LEMMA TreeAddZone ==
  ASSUME NEW t, TreeOK("zones", t, {}), NEW z \in Zones, ~Root(t, z),
         \A y \in Zones : Len(y) < Len(z) => Root(t, y),
         NEW ph \in {"zones", "scan"},
         ph = "scan" => \A y \in Zones : Root([FindOrAdd(t, z) EXCEPT ![z].flags = {"ZROOT", "AUTH"}], y)
  PROVE  TreeOK(ph, [FindOrAdd(t, z) EXCEPT ![z].flags = {"ZROOT", "AUTH"}], {})
<1> DEFINE u == FindOrAdd(t, z)
           w == [u EXCEPT ![z].flags = {"ZROOT", "AUTH"}]
<1>0. Shape(t) /\ RootsOK("zones", t, {}) /\ z \in Name BY RecordsAssumption DEF TreeOK
<1>1. /\ DOMAIN u = DOMAIN t \cup Path(z) /\ z \in DOMAIN u /\ Shape(u)
      /\ \A n \in DOMAIN u : /\ SameMarks(t, u, n)
                             /\ u[n].rrsets = IF n \in DOMAIN t THEN t[n].rrsets ELSE <<>>
  BY <1>0, FindOrAddIs
<1> HIDE DEF u
<1>2. /\ DOMAIN w = DOMAIN u /\ \A n \in DOMAIN u \ {z} : w[n] = u[n]
      /\ w[z] = [u[z] EXCEPT !.flags = {"ZROOT", "AUTH"}]
  BY <1>1
<1>3. IsNode(u[z]) BY <1>1 DEF Shape
<1>4. w[z].flags = {"ZROOT", "AUTH"} /\ w[z].rrsets = u[z].rrsets /\ IsNode(w[z])
  <2>1. DOMAIN u[z] = {"flags", "rrsets"} BY <1>3 DEF IsNode
  <2>2. w[z].flags = {"ZROOT", "AUTH"} /\ w[z].rrsets = u[z].rrsets /\ DOMAIN w[z] = {"flags", "rrsets"}
    BY <1>2, <2>1
  <2> QED BY <1>3, <2>2 DEF IsNode
<1> HIDE DEF w
<1>5. \A n : Root(w, n) <=> n = z \/ Root(t, n)
  BY <1>1, <1>2, <1>4 DEF Root, SameMarks
<1>6. \A n \in DOMAIN w : w[n].rrsets = <<>>
  <2>1. \A n \in DOMAIN u : u[n].rrsets = <<>> BY <1>0, <1>1 DEF RootsOK
  <2> QED BY <1>2, <1>4, <2>1
<1>7. \A n \in DOMAIN w : ~("DELEG" \in w[n].flags)
  <2>1. \A n \in DOMAIN t : ~("DELEG" \in t[n].flags) BY DEF TreeOK, Delegated
  <2>2. \A n \in DOMAIN u : ~("DELEG" \in u[n].flags) BY <1>1, <2>1 DEF SameMarks
  <2>3. ~("DELEG" \in w[z].flags) BY <1>4
  <2>4. \A n \in DOMAIN u \ {z} : ~("DELEG" \in w[n].flags) BY <1>2, <2>2
  <2> QED BY <1>2, <2>3, <2>4
<1>8. \A n \in DOMAIN w : Justified(w, {}, n)
  <2> TAKE n \in DOMAIN w
  <2>1. CASE n \in Path(z) BY <1>5, <2>1 DEF Justified
  <2>2. CASE n \in DOMAIN t
    <3>1. Justified(t, {}, n) BY <2>2 DEF TreeOK
    <3> QED BY <1>5, <3>1 DEF Justified
  <2> QED BY <1>1, <1>2, <2>1, <2>2
<1>9. \A y : Root(w, y) => y \in Zones BY <1>0, <1>5 DEF RootsOK
<1>10. \A n \in DOMAIN w : n \in Name /\ Len(n) <= Len(z)
  <2> TAKE n \in DOMAIN w
  <2>0. n \in Name BY <1>1, <1>2 DEF Shape
  <2>1. Len(z) \in Nat /\ Len(<<>>) = 0 BY <1>0 DEF Name
  <2>2. CASE n = <<>> BY <2>0, <2>1, <2>2
  <2>3. CASE n \in Path(z) BY <1>0, <2>0, <2>3, PathIs
  <2>4. ASSUME NEW y, Root(t, y), n \in Path(y) PROVE Len(n) <= Len(z)
    <3>1. y \in Zones /\ y \in Name /\ Len(y) \in Nat
      BY <1>0, <2>4, RecordsAssumption DEF RootsOK, Name
    <3>2. ~(Len(z) < Len(y)) BY <1>0, <2>4, <3>1 DEF RootsOK
    <3>3. Len(n) \in Nat /\ Len(n) <= Len(y) BY <2>4, <3>1, PathIs
    <3> QED BY <2>1, <3>1, <3>2, <3>3
  <2>5. n = <<>> \/ n \in Path(z) \/ \E y : Root(t, y) /\ n \in Path(y)
    BY <1>5, <1>8 DEF Justified
  <2> QED BY <2>0, <2>2, <2>3, <2>4, <2>5
<1>11. ASSUME NEW n \in DOMAIN w, NEW y \in Path(n), Root(w, y) PROVE "AUTH" \in w[n].flags
  <2>1. CASE n = z BY <1>4, <2>1
  <2>2. CASE n # z
    <3>1. y # z
      <4>1. n \in Name /\ Len(n) <= Len(z) /\ Len(n) \in Nat /\ Len(z) \in Nat
        BY <1>0, <1>10 DEF Name
      <4>2. ASSUME y = z PROVE FALSE
        <5>1. Len(z) <= Len(n) BY <4>1, <4>2, PathIs
        <5>2. Len(z) = Len(n) BY <4>1, <5>1
        <5> QED BY <2>2, <4>1, <4>2, <5>2, PathSame, PathSelf
      <4> QED BY <4>2
    <3>2. Root(u, y) BY <1>2, <1>11, <3>1 DEF Root
    <3>3. "AUTH" \in u[n].flags BY <1>1, <1>2, <3>2 DEF Shape
    <3> QED BY <1>2, <2>2, <3>3
  <2> QED BY <2>1, <2>2
<1>12. Shape(w)
  <2>1. <<>> \in DOMAIN w BY <1>1, <1>2 DEF Shape
  <2>2. \A n \in DOMAIN w : n \in Name /\ Path(n) \subseteq DOMAIN w /\ IsNode(w[n])
    BY <1>1, <1>2, <1>4 DEF Shape
  <2> QED BY <1>11, <2>1, <2>2 DEF Shape
<1>13. ASSUME NEW y \in Zones, NEW x \in Zones, Root(w, x), Len(y) < Len(x) PROVE Root(w, y)
  <2>1. CASE x = z BY <1>5, <1>13, <2>1
  <2>2. CASE x # z BY <1>0, <1>5, <1>13, <2>2 DEF RootsOK
  <2> QED BY <2>1, <2>2
<1>14. \A n \in DOMAIN w : ~Has(w[n], "CNAME") BY <1>6, NoRrsets
<1>15. ph = "scan" => \A y \in Zones : Root(w, y) BY DEF w, u
<1>16. RootsOK(ph, w, {}) BY <1>6, <1>9, <1>13, <1>15 DEF RootsOK
<1>17. TreeOK(ph, w, {}) BY <1>7, <1>8, <1>12, <1>14, <1>16 DEF TreeOK, Delegated
<1> QED BY <1>17 DEF w, u

\* A record of a zone changes the node of its name.
LEMMA TreeAddRecord ==
  ASSUME NEW t, NEW ld, TreeOK("scan", t, ld), NEW r, IsRecord(r), Inside(r),
         r.type # "SOA" => SubzonesOk(r),
         NEW x, IsNode(x), NEW node, node = FindOrAdd(t, r.name)[r.name],
         "AUTH" \in node.flags => "AUTH" \in x.flags,
         "ZROOT" \in x.flags <=> "ZROOT" \in node.flags,
         "DELEG" \in x.flags <=> "DELEG" \in node.flags \/ (r.type = "NS" /\ ~("ZROOT" \in node.flags)),
         Has(x, "CNAME") => Has(node, "CNAME") \/ ~("ZROOT" \in node.flags)
  PROVE  TreeOK("scan", [FindOrAdd(t, r.name) EXCEPT ![r.name] = x], ld \cup {r})
<1> DEFINE u == FindOrAdd(t, r.name)
           w == [u EXCEPT ![r.name] = x]
           l2 == ld \cup {r}
<1>0. Shape(t) /\ RootsOK("scan", t, ld) /\ r.name \in Name BY RecordIs DEF TreeOK
<1>1. /\ DOMAIN u = DOMAIN t \cup Path(r.name) /\ r.name \in DOMAIN u /\ Shape(u)
      /\ \A n \in DOMAIN u : /\ SameMarks(t, u, n)
                             /\ u[n].rrsets = IF n \in DOMAIN t THEN t[n].rrsets ELSE <<>>
  BY <1>0, FindOrAddIs
<1>2. node = u[r.name] OBVIOUS
<1> HIDE DEF u
<1>3. DOMAIN w = DOMAIN u /\ Shape(w) /\ w[r.name] = x /\ \A m \in DOMAIN u \ {r.name} : w[m] = u[m]
  BY <1>1, <1>2, SetNodeIs
<1> HIDE DEF w
<1>4. \A z : Root(w, z) <=> Root(t, z) BY <1>1, <1>2, <1>3 DEF Root, SameMarks
<1>5. RootsOK("scan", w, l2) BY <1>0, <1>4 DEF RootsOK
<1>6. DOMAIN t \subseteq DOMAIN w /\ Path(r.name) \subseteq DOMAIN w /\ r.name \in DOMAIN w BY <1>1, <1>3
<1>7. \A s \in l2 : LoadedOK(w, s)
  <2>1. LoadedOK(w, r) BY <1>6 DEF LoadedOK
  <2>2. ASSUME NEW s \in ld PROVE LoadedOK(w, s)
    <3>1. LoadedOK(t, s) BY DEF TreeOK
    <3> QED BY <1>6, <3>1 DEF LoadedOK
  <2> QED BY <2>1, <2>2
<1>8. ASSUME NEW n \in DOMAIN w PROVE Justified(w, l2, n)
  <2>1. CASE n \in DOMAIN t
    <3>1. Justified(t, ld, n) BY <2>1 DEF TreeOK
    <3> QED BY <1>4, <3>1 DEF Justified
  <2>2. CASE n \in Path(r.name) BY <2>2 DEF Justified
  <2> QED BY <1>1, <1>3, <2>1, <2>2
<1>9. ASSUME NEW n \in DOMAIN w PROVE "DELEG" \in w[n].flags <=> Delegated(l2, n)
  <2>0. n \in DOMAIN u BY <1>3
  <2>1. n \in DOMAIN t => ("DELEG" \in t[n].flags <=> Delegated(ld, n)) BY DEF TreeOK
  <2>2. Delegated(ld, n) => n \in DOMAIN t
    <3>1. ASSUME NEW s \in ld, s.type = "NS", s.name = n PROVE n \in DOMAIN t
      BY <3>1 DEF TreeOK, LoadedOK
    <3> QED BY <3>1 DEF Delegated
  <2>3. "DELEG" \in u[n].flags <=> Delegated(ld, n) BY <1>1, <2>0, <2>1, <2>2 DEF SameMarks
  <2>4. CASE n # r.name
    <3>1. Delegated(l2, n) <=> Delegated(ld, n) BY <2>4 DEF Delegated
    <3> QED BY <1>3, <2>0, <2>3, <2>4, <3>1
  <2>5. CASE n = r.name
    <3>1. "ZROOT" \in node.flags <=> n \in Zones
      <4>1. Root(u, n) <=> Root(t, n) BY <1>1, <2>0 DEF SameMarks
      <4>2. Root(t, n) <=> n \in Zones BY <1>0 DEF RootsOK
      <4> QED BY <1>2, <2>0, <2>5, <4>1, <4>2 DEF Root
    <3>2. Delegated(l2, n) <=> Delegated(ld, n) \/ (r.type = "NS" /\ n \notin Zones)
      BY <2>5 DEF Delegated
    <3> QED BY <1>2, <1>3, <2>3, <2>5, <3>1, <3>2
  <2> QED BY <2>4, <2>5
<1>10. ASSUME NEW n \in DOMAIN w, Has(w[n], "CNAME") PROVE ~Root(w, n)
  <2>0. n \in DOMAIN u BY <1>3
  <2>1. ASSUME Has(u[n], "CNAME") PROVE ~Root(w, n)
    <3>1. n \in DOMAIN t /\ u[n].rrsets = t[n].rrsets BY <1>1, <2>0, <2>1, NoRrsets
    <3>2. Has(t[n], "CNAME") BY <2>1, <3>1, SameRrsets
    <3> QED BY <1>4, <3>1, <3>2 DEF TreeOK
  <2>2. CASE n # r.name BY <1>3, <1>10, <2>0, <2>1, <2>2
  <2>3. CASE n = r.name
    <3>1. Has(x, "CNAME") BY <1>3, <1>10, <2>3
    <3>2. CASE Has(node, "CNAME") BY <1>2, <2>1, <2>3, <3>2
    <3>3. CASE ~("ZROOT" \in node.flags) BY <1>3, <2>3, <3>3 DEF Root
    <3> QED BY <3>1, <3>2, <3>3
  <2> QED BY <2>2, <2>3
<1>11. TreeOK("scan", w, l2) BY <1>3, <1>5, <1>7, <1>8, <1>9, <1>10 DEF TreeOK
<1> QED BY <1>11 DEF w, u

\* An address outside of its zone leaves the tree as it is.
LEMMA TreeAddOoz ==
  ASSUME NEW t, NEW ld, TreeOK("scan", t, ld), NEW r, IsRecord(r), ~Inside(r), r.type \in {"A", "AAAA"}
  PROVE  TreeOK("scan", FindOrAdd(t, r.zone), ld \cup {r})
<1> DEFINE w == FindOrAdd(t, r.zone)
           l2 == ld \cup {r}
<1>0. Shape(t) /\ RootsOK("scan", t, ld) /\ r.zone \in Name /\ r.zone \in Zones BY RecordIs DEF TreeOK
<1>1. /\ DOMAIN w = DOMAIN t \cup Path(r.zone) /\ Shape(w)
      /\ \A n \in DOMAIN w : /\ SameMarks(t, w, n)
                             /\ w[n].rrsets = IF n \in DOMAIN t THEN t[n].rrsets ELSE <<>>
  BY <1>0, FindOrAddIs
<1> HIDE DEF w
<1>2. DOMAIN w = DOMAIN t
  <2>1. r.zone \in DOMAIN t BY <1>0 DEF RootsOK, Root
  <2>2. Path(r.zone) \subseteq DOMAIN t BY <1>0, <2>1 DEF Shape
  <2> QED BY <1>1, <2>2
<1>3. \A z : Root(w, z) <=> Root(t, z) BY <1>1, <1>2 DEF Root, SameMarks
<1>4. RootsOK("scan", w, l2) BY <1>0, <1>3 DEF RootsOK
<1>5. \A s \in l2 : LoadedOK(w, s)
  <2>1. LoadedOK(w, r) BY DEF LoadedOK
  <2>2. \A s \in ld : LoadedOK(t, s) BY DEF TreeOK
  <2> QED BY <1>2, <2>1, <2>2 DEF LoadedOK
<1>6. ASSUME NEW n \in DOMAIN w
      PROVE  /\ Justified(w, l2, n) /\ ("DELEG" \in w[n].flags <=> Delegated(l2, n))
             /\ Has(w[n], "CNAME") => ~Root(w, n)
  <2>1. /\ Justified(t, ld, n) /\ ("DELEG" \in t[n].flags <=> Delegated(ld, n))
        /\ Has(t[n], "CNAME") => ~Root(t, n) BY <1>2 DEF TreeOK
  <2>2. Justified(w, l2, n) BY <1>3, <2>1 DEF Justified
  <2>3. Delegated(l2, n) <=> Delegated(ld, n) BY DEF Delegated
  <2>4. "DELEG" \in w[n].flags <=> "DELEG" \in t[n].flags BY <1>1, <1>2 DEF SameMarks
  <2>5. Has(w[n], "CNAME") <=> Has(t[n], "CNAME") BY <1>1, <1>2, SameRrsets
  <2> QED BY <1>3, <2>1, <2>2, <2>3, <2>4, <2>5
<1>7. TreeOK("scan", w, l2) BY <1>1, <1>4, <1>5, <1>6 DEF TreeOK
<1> QED BY <1>7 DEF w

-----------------------------------------------------------------------------
(* The searches of Ltree in a tree t.                                      *)

DeepestIn(t, d) == Longest(Path(d) \cap DOMAIN t)
MarkedIn(t, d) == {n \in Path(d) \cap DOMAIN t : t[n].flags \cap {"ZROOT", "DELEG"} # {}}
StatusIn(t, d) == IF MarkedIn(t, d) = {} THEN "NOAUTH"
                  ELSE IF "ZROOT" \in t[Longest(MarkedIn(t, d))].flags THEN "AUTH" ELSE "DELEG"
NodeIn(t, d) == IF DeepestIn(t, d) = d THEN {d} ELSE {<<Star>> \o DeepestIn(t, d)} \cap DOMAIN t
RootOf(t, n) == Longest({m \in Path(n) : "ZROOT" \in t[m].flags})
DelegIn(t, n) == {m \in Path(n) : "DELEG" \in t[m].flags /\ Len(m) > Len(RootOf(t, n))}

StaticCname(t, m) == Has(t[m], "CNAME") /\ TheRRset(t[m], "CNAME").static
Target(t, m) == TheRRset(t[m], "CNAME").rdata[1].dname
NextHop(t, zr, m) ==
  IF zr \in Path(Target(t, m)) /\ Len(zr) <= Len(DeepestIn(t, Target(t, m)))
     /\ StatusIn(t, Target(t, m)) = "AUTH"
  THEN NodeIn(t, Target(t, m)) ELSE {}

\* A chain s of j static CNAMEs from node n on, and that no such chain is longer
\* than the limit.
Leads(t, s, n, j) ==
  /\ s \in [0..j -> DOMAIN t] /\ s[0] = n
  /\ \A i \in 0..(j - 1) : StaticCname(t, s[i]) /\ s[i + 1] \in NextHop(t, RootOf(t, n), s[i])
Short(t, n) == \A s : Leads(t, s, n, max_cname_depth) => ~StaticCname(t, s[max_cname_depth])

\* What phase 1 has made sure of.
Accepted(t) ==
  \A n \in DOMAIN t : "AUTH" \in t[n].flags =>
     /\ Has(t[n], "CNAME") => Len(t[n].rrsets) = 1 /\ Short(t, n)
     /\ DelegIn(t, n) # {} => ~Has(t[n], "CNAME")

-----------------------------------------------------------------------------
(* Phase 1 changes neither marks nor CNAMEs.                               *)

Alike(t, u) ==
  /\ DOMAIN u = DOMAIN t
  /\ \A n \in DOMAIN t :
       /\ IsNode(u[n]) /\ Len(u[n].rrsets) = Len(t[n].rrsets)
       /\ "ZROOT" \in u[n].flags <=> "ZROOT" \in t[n].flags
       /\ "DELEG" \in u[n].flags <=> "DELEG" \in t[n].flags
       /\ "AUTH" \in u[n].flags <=> "AUTH" \in t[n].flags
       /\ RRsetsOf(u[n], "CNAME") = RRsetsOf(t[n], "CNAME")

LEMMA TreeAlike ==
  ASSUME NEW t, NEW u, NEW ld, TreeOK("scan", t, ld), Alike(t, u), NEW ph \in {"phase2", "run", "fatal"}
  PROVE  TreeOK(ph, u, ld)
<1>0. Shape(t) /\ RootsOK("scan", t, ld) BY DEF TreeOK
<1>1. DOMAIN u = DOMAIN t BY DEF Alike
<1>2. \A z : Root(u, z) <=> Root(t, z) BY DEF Alike, Root
<1>3. Shape(u) BY <1>0, <1>1, <1>2 DEF Shape, Alike
<1>4. RootsOK(ph, u, ld) BY <1>0, <1>2 DEF RootsOK
<1>5. \A r \in ld : LoadedOK(u, r)
  <2>1. \A r \in ld : LoadedOK(t, r) BY DEF TreeOK
  <2> QED BY <1>1, <2>1 DEF LoadedOK
<1>6. ASSUME NEW n \in DOMAIN u
      PROVE  /\ Justified(u, ld, n) /\ ("DELEG" \in u[n].flags <=> Delegated(ld, n))
             /\ Has(u[n], "CNAME") => ~Root(u, n)
  <2>1. /\ Justified(t, ld, n) /\ ("DELEG" \in t[n].flags <=> Delegated(ld, n))
        /\ Has(t[n], "CNAME") => ~Root(t, n) BY <1>1 DEF TreeOK
  <2>2. Justified(u, ld, n) BY <1>2, <2>1 DEF Justified
  <2>3. "DELEG" \in u[n].flags <=> "DELEG" \in t[n].flags BY <1>1 DEF Alike
  <2>4. Has(u[n], "CNAME") <=> Has(t[n], "CNAME") BY <1>1 DEF Has, Alike
  <2> QED BY <1>2, <2>1, <2>2, <2>3, <2>4
<1> QED BY <1>3, <1>4, <1>5, <1>6 DEF TreeOK

LEMMA CnameAlike ==
  ASSUME NEW t, NEW u, Alike(t, u), NEW m \in DOMAIN t
  PROVE  /\ Has(u[m], "CNAME") <=> Has(t[m], "CNAME")
         /\ StaticCname(u, m) <=> StaticCname(t, m)
         /\ Target(u, m) = Target(t, m)
<1>1. RRsetsOf(u[m], "CNAME") = RRsetsOf(t[m], "CNAME") BY DEF Alike
<1>2. TheRRset(u[m], "CNAME") = TheRRset(t[m], "CNAME") BY <1>1 DEF TheRRset
<1>3. Has(u[m], "CNAME") <=> Has(t[m], "CNAME") BY <1>1 DEF Has
<1> QED BY <1>2, <1>3 DEF StaticCname, Target

LEMMA SearchAlike ==
  ASSUME NEW t, NEW u, Alike(t, u), NEW d \in Name
  PROVE  DeepestIn(u, d) = DeepestIn(t, d) /\ StatusIn(u, d) = StatusIn(t, d) /\ NodeIn(u, d) = NodeIn(t, d)
<1>1. DOMAIN u = DOMAIN t BY DEF Alike
<1>2. DeepestIn(u, d) = DeepestIn(t, d) BY <1>1 DEF DeepestIn
<1>3. NodeIn(u, d) = NodeIn(t, d) BY <1>1, <1>2 DEF NodeIn
<1>4. MarkedIn(u, d) = MarkedIn(t, d)
  <2>1. \A n \in DOMAIN t : u[n].flags \cap {"ZROOT", "DELEG"} # {} <=> t[n].flags \cap {"ZROOT", "DELEG"} # {}
    BY DEF Alike
  <2> QED BY <1>1, <2>1 DEF MarkedIn
<1>5. ASSUME MarkedIn(t, d) # {} PROVE Longest(MarkedIn(t, d)) \in DOMAIN t
  <2>1. MarkedIn(t, d) \in SUBSET Path(d) BY DEF MarkedIn
  <2>2. Longest(MarkedIn(t, d)) \in MarkedIn(t, d) BY <1>5, <2>1, LongestIs
  <2> QED BY <2>2 DEF MarkedIn
<1>6. StatusIn(u, d) = StatusIn(t, d)
  <2>1. CASE MarkedIn(t, d) = {} BY <1>4, <2>1 DEF StatusIn
  <2>2. CASE MarkedIn(t, d) # {}
    <3>1. "ZROOT" \in u[Longest(MarkedIn(t, d))].flags <=> "ZROOT" \in t[Longest(MarkedIn(t, d))].flags
      BY <1>5, <2>2 DEF Alike
    <3> QED BY <1>4, <2>2, <3>1 DEF StatusIn
  <2> QED BY <2>1, <2>2
<1> QED BY <1>2, <1>3, <1>6

LEMMA RootAlike ==
  ASSUME NEW t, NEW u, Shape(t), Alike(t, u), NEW n \in DOMAIN t
  PROVE  RootOf(u, n) = RootOf(t, n) /\ DelegIn(u, n) = DelegIn(t, n)
<1>1. Path(n) \subseteq DOMAIN t BY DEF Shape
<1>2. {m \in Path(n) : "ZROOT" \in u[m].flags} = {m \in Path(n) : "ZROOT" \in t[m].flags}
  BY <1>1 DEF Alike
<1>3. RootOf(u, n) = RootOf(t, n) BY <1>2 DEF RootOf
<1>4. DelegIn(u, n) = DelegIn(t, n) BY <1>1, <1>3 DEF DelegIn, Alike
<1> QED BY <1>3, <1>4

LEMMA TargetName ==
  ASSUME NEW t, Shape(t), NEW m \in DOMAIN t, StaticCname(t, m)
  PROVE  Target(t, m) \in Name
<1>1. IsNode(t[m]) BY DEF Shape
<1>2. IsRR(TheRRset(t[m], "CNAME")) /\ TheRRset(t[m], "CNAME").type = "CNAME"
  BY <1>1, RRsetFound DEF StaticCname
<1> QED BY <1>2 DEF StaticCname, Target, IsRR

LEMMA AcceptedAlike ==
  ASSUME NEW t, NEW u, Shape(t), Alike(t, u), Accepted(t)
  PROVE  Accepted(u)
<1>1. SUFFICES ASSUME NEW n \in DOMAIN u, "AUTH" \in u[n].flags
               PROVE  /\ Has(u[n], "CNAME") => Len(u[n].rrsets) = 1 /\ Short(u, n)
                      /\ DelegIn(u, n) # {} => ~Has(u[n], "CNAME")
  BY DEF Accepted
<1>2. DOMAIN u = DOMAIN t /\ n \in DOMAIN t /\ "AUTH" \in t[n].flags /\ Len(u[n].rrsets) = Len(t[n].rrsets)
  BY <1>1 DEF Alike
<1>3. Has(u[n], "CNAME") <=> Has(t[n], "CNAME") BY <1>2, CnameAlike
<1>4. RootOf(u, n) = RootOf(t, n) /\ DelegIn(u, n) = DelegIn(t, n) BY <1>2, RootAlike
<1>5. /\ Has(t[n], "CNAME") => Len(t[n].rrsets) = 1 /\ Short(t, n)
      /\ DelegIn(t, n) # {} => ~Has(t[n], "CNAME")
  BY <1>2 DEF Accepted
<1>6. ASSUME Short(t, n) PROVE Short(u, n)
  <2>1. SUFFICES ASSUME NEW s, Leads(u, s, n, max_cname_depth), StaticCname(u, s[max_cname_depth]) PROVE FALSE
    BY DEF Short
  <2>2. max_cname_depth \in Nat BY LimitsAssumption
  <2>3. s \in [0..max_cname_depth -> DOMAIN t] /\ s[0] = n BY <1>2, <2>1 DEF Leads
  <2>4. s[max_cname_depth] \in DOMAIN t BY <2>2, <2>3
  <2>5. StaticCname(t, s[max_cname_depth]) BY <2>1, <2>4, CnameAlike
  <2>6. ASSUME NEW i \in 0..(max_cname_depth - 1)
        PROVE  StaticCname(t, s[i]) /\ s[i + 1] \in NextHop(t, RootOf(t, n), s[i])
    <3>1. s[i] \in DOMAIN t BY <2>2, <2>3
    <3>2. StaticCname(u, s[i]) /\ s[i + 1] \in NextHop(u, RootOf(u, n), s[i]) BY <2>1 DEF Leads
    <3>3. StaticCname(t, s[i]) /\ Target(u, s[i]) = Target(t, s[i]) BY <3>1, <3>2, CnameAlike
    <3>4. Target(t, s[i]) \in Name BY <3>1, <3>3, TargetName
    <3>5. NextHop(u, RootOf(u, n), s[i]) = NextHop(t, RootOf(t, n), s[i])
      BY <1>4, <3>3, <3>4, SearchAlike DEF NextHop
    <3> QED BY <3>2, <3>3, <3>5
  <2>7. Leads(t, s, n, max_cname_depth) BY <2>3, <2>6 DEF Leads
  <2> QED BY <1>6, <2>5, <2>7 DEF Short
<1> QED BY <1>2, <1>3, <1>4, <1>5, <1>6

-----------------------------------------------------------------------------
(* The chains that p1_proc_cname follows.                                  *)

HopBody(n, S) ==
  IF \E m \in S : StaticCname(tree, m) THEN NextHop(tree, RootOf(tree, n), CHOOSE m \in S : TRUE) ELSE {}

\* The hops of p1_proc_cname() as a function of their number.
LEMMA HopsDefined ==
  ASSUME NEW n
  PROVE  \E f : f = [i \in 0..max_cname_depth |-> IF i = 0 THEN {n} ELSE HopBody(n, f[i-1])]
<1> DEFINE E(j) == \E f : f = [i \in 0..j |-> IF i = 0 THEN {n} ELSE HopBody(n, f[i-1])]
           T == {j \in Nat : E(j)}
<1>1. E(0)
  <2> DEFINE f == [i \in 0..0 |-> {n}]
  <2>1. f = [i \in 0..0 |-> IF i = 0 THEN {n} ELSE HopBody(n, f[i-1])] OBVIOUS
  <2> QED BY <2>1
<1>2. ASSUME NEW j \in Nat, E(j) PROVE E(j + 1)
  <2>1. PICK f : f = [i \in 0..j |-> IF i = 0 THEN {n} ELSE HopBody(n, f[i-1])] BY <1>2
  <2> DEFINE v == HopBody(n, f[j])
             g == [i \in 0..(j + 1) |-> IF i = j + 1 THEN v ELSE f[i]]
             h == [i \in 0..(j + 1) |-> IF i = 0 THEN {n} ELSE HopBody(n, g[i-1])]
  <2>2. ASSUME NEW i \in 0..(j + 1) PROVE g[i] = h[i]
    <3>1. CASE i = j + 1
      <4>1. i # 0 /\ i - 1 = j /\ j \in 0..(j + 1) /\ j # j + 1 BY <3>1
      <4>2. g[j] = f[j] BY <4>1
      <4> QED BY <3>1, <4>1, <4>2
    <3>2. CASE i # j + 1
      <4>1. i \in 0..j BY <3>2
      <4>2. g[i] = f[i] BY <3>2
      <4>3. f[i] = IF i = 0 THEN {n} ELSE HopBody(n, f[i-1]) BY <2>1, <4>1
      <4>4. i # 0 => i - 1 \in 0..(j + 1) /\ i - 1 # j + 1 BY <4>1
      <4>5. i # 0 => g[i-1] = f[i-1] BY <4>4
      <4>6. h[i] = IF i = 0 THEN {n} ELSE HopBody(n, g[i-1]) OBVIOUS
      <4> HIDE DEF g, h
      <4> QED BY <4>2, <4>3, <4>5, <4>6
    <3> QED BY <3>1, <3>2
  <2>3. g = h
    <3>1. DOMAIN g = 0..(j + 1) /\ DOMAIN h = 0..(j + 1) OBVIOUS
    <3> QED BY <2>2
  <2> HIDE DEF v
  <2> QED BY <2>3
<1> HIDE DEF E
<1>3. T \in SUBSET Nat /\ 0 \in T /\ \A j \in Nat : j \in T => j + 1 \in T BY <1>1, <1>2
<1>4. Nat \subseteq T BY <1>3, Induction
<1>5. E(max_cname_depth) BY <1>4, LimitsAssumption
<1> QED BY <1>5 DEF E

LEMMA HopsIs ==
  ASSUME NEW n
  PROVE  Hops(n) = [i \in 0..max_cname_depth |-> IF i = 0 THEN {n} ELSE HopBody(n, Hops(n)[i-1])]
<1> DEFINE B(S) ==
             IF \E m \in S : Has(tree[m], "CNAME") /\ TheRRset(tree[m], "CNAME").static
             THEN LET m == CHOOSE m \in S : TRUE
                      s == ltree_search_dname(TheRRset(tree[m], "CNAME").rdata[1].dname, ZoneRoot(n))
                  IN  IF s.crossed /\ s.status = "AUTH" THEN s.node ELSE {}
             ELSE {}
           P(f) == f = [i \in 0..max_cname_depth |-> IF i = 0 THEN {n} ELSE B(f[i-1])]
<1>1. ASSUME NEW S PROVE B(S) = HopBody(n, S)
  <2> DEFINE m == CHOOSE m \in S : TRUE
             d == Target(tree, m)
             s == ltree_search_dname(d, ZoneRoot(n))
  <2>1. B(S) = IF \E x \in S : StaticCname(tree, x)
               THEN IF s.crossed /\ s.status = "AUTH" THEN s.node ELSE {} ELSE {}
    BY DEF StaticCname, Target
  <2>2. /\ Status(d) = StatusIn(tree, d) /\ Deepest(d) = DeepestIn(tree, d) /\ ZoneRoot(n) = RootOf(tree, n)
        /\ Wildcard(d) = {<<Star>> \o DeepestIn(tree, d)} \cap DOMAIN tree
    BY DEF Status, StatusIn, Marked, MarkedIn, LastMark, Deepest, DeepestIn, ZoneRoot, RootOf, Wildcard
  <2> HIDE DEF d, m
  <2>3. /\ s.crossed <=> RootOf(tree, n) \in Path(d) /\ Len(RootOf(tree, n)) <= Len(DeepestIn(tree, d))
        /\ s.status = StatusIn(tree, d)
        /\ s.node = IF DeepestIn(tree, d) = d THEN IF StatusIn(tree, d) = "NOAUTH" THEN {} ELSE {d}
                    ELSE IF StatusIn(tree, d) = "AUTH" THEN {<<Star>> \o DeepestIn(tree, d)} \cap DOMAIN tree ELSE {}
    BY <2>2 DEF ltree_search_dname
  <2> HIDE DEF s
  <2>4. (IF s.crossed /\ s.status = "AUTH" THEN s.node ELSE {}) = NextHop(tree, RootOf(tree, n), m)
    BY <2>3 DEF NextHop, NodeIn, d
  <2> HIDE DEF B
  <2> QED BY <2>1, <2>4 DEF HopBody, m
<1>2. Hops(n) = CHOOSE f : P(f) BY DEF Hops
<1> HIDE DEF B
<1>3. \E f : P(f)
  <2>1. PICK f : f = [i \in 0..max_cname_depth |-> IF i = 0 THEN {n} ELSE HopBody(n, f[i-1])] BY HopsDefined
  <2>2. f = [i \in 0..max_cname_depth |-> IF i = 0 THEN {n} ELSE B(f[i-1])] BY <1>1, <2>1
  <2> QED BY <2>2
<1>4. P(CHOOSE f : P(f)) BY <1>3
<1>5. Hops(n) = [i \in 0..max_cname_depth |-> IF i = 0 THEN {n} ELSE B(Hops(n)[i-1])] BY <1>2, <1>4
<1> QED BY <1>1, <1>5

\* The nodes met are those of the chain.
LEMMA HopsLead ==
  ASSUME NEW n, NEW s, Leads(tree, s, n, max_cname_depth)
  PROVE  Hops(n)[max_cname_depth] = {s[max_cname_depth]}
<1> DEFINE T == {j \in Nat : j <= max_cname_depth => Hops(n)[j] = {s[j]}}
<1>0. max_cname_depth \in Nat BY LimitsAssumption
<1>1. 0 \in T
  <2>1. Hops(n)[0] = {n} BY <1>0, HopsIs
  <2> QED BY <2>1 DEF Leads
<1>2. ASSUME NEW j \in Nat, j \in T PROVE j + 1 \in T
  <2>1. SUFFICES ASSUME j + 1 <= max_cname_depth PROVE Hops(n)[j + 1] = {s[j + 1]} OBVIOUS
  <2>2. j \in 0..(max_cname_depth - 1) /\ j + 1 \in 0..max_cname_depth /\ j + 1 # 0 /\ (j + 1) - 1 = j
        /\ j <= max_cname_depth
    BY <1>0, <2>1
  <2>3. Hops(n)[j] = {s[j]} BY <1>2, <2>2
  <2>4. StaticCname(tree, s[j]) /\ s[j + 1] \in NextHop(tree, RootOf(tree, n), s[j]) BY <2>2 DEF Leads
  <2>5. Hops(n)[j + 1] = HopBody(n, {s[j]})
    <3>1. Hops(n)[j + 1] = HopBody(n, Hops(n)[(j + 1) - 1]) BY <2>2, HopsIs
    <3> QED BY <2>2, <2>3, <3>1
  <2>6. (CHOOSE m \in {s[j]} : TRUE) = s[j] OBVIOUS
  <2>7. HopBody(n, {s[j]}) = NextHop(tree, RootOf(tree, n), s[j]) BY <2>4, <2>6 DEF HopBody
  <2>8. \A x, y \in NextHop(tree, RootOf(tree, n), s[j]) : x = y BY DEF NextHop, NodeIn
  <2> QED BY <2>4, <2>5, <2>7, <2>8
<1>3. Nat \subseteq T BY <1>1, <1>2, Induction
<1> QED BY <1>0, <1>3

LEMMA ChainsShort ==
  ASSUME NEW n, ~ChainTooLong(n)
  PROVE  Short(tree, n)
BY HopsLead DEF Short, ChainTooLong, StaticCname

-----------------------------------------------------------------------------
(* Loading                                                                 *)

LoadInv ==
  /\ phase \in {"zones", "scan", "phase2", "run", "fatal"}
  /\ TreeInv
  /\ phase \in {"phase2", "run"} => Accepted(tree)

LEMMA LoadInit == Init => LoadInv
BY TreeInitially DEF Init, LoadInv, TreeInv

LEMMA FixNumbers ==
  ASSUME NEW r, DOMAIN r = RRFields, Numbers(r)
  PROVE  /\ Numbers(fix_addr_limits(r)) /\ DOMAIN fix_addr_limits(r) = RRFields
         /\ fix_addr_limits(r).type = r.type
BY DEF fix_addr_limits, Numbers, RRFields

LEMMA LinkedIs ==
  ASSUME NEW zr, NEW r, IsRR(r)
  PROVE  /\ IsRR(Linked(zr, r)) /\ Linked(zr, r).type = r.type
         /\ r.type = "CNAME" => Linked(zr, r) = r
<1>0. DOMAIN r = RRFields /\ IsSeq(r.rdata) /\ r.type \in {"A", "SOA", "NS", "CNAME", "MX", "SRV", "TXT"} BY DEF IsRR
<1>1. CASE r.type = "A"
  <2>1. Linked(zr, r) = fix_addr_limits(r) BY <1>1 DEF Linked
  <2>2. /\ DOMAIN fix_addr_limits(r) = RRFields /\ fix_addr_limits(r).type = r.type
        /\ fix_addr_limits(r).rdata = r.rdata
    BY <1>0 DEF fix_addr_limits, RRFields
  <2>3. Numbers(fix_addr_limits(r)) BY <1>0, FixNumbers DEF IsRR
  <2>4. RdataOK(fix_addr_limits(r)) BY <2>2 DEF IsRR, RdataOK
  <2> QED BY <1>0, <1>1, <2>1, <2>2, <2>3, <2>4 DEF IsRR
<1>2. CASE r.type \in {"NS", "MX", "SRV"}
  <2>1. PICK x : Linked(zr, r) = [r EXCEPT !.rdata = x] /\ DOMAIN x = DOMAIN r.rdata
                 /\ x = [i \in DOMAIN r.rdata |-> x[i]]
                 /\ \A i \in DOMAIN r.rdata : x[i].dname = r.rdata[i].dname
    <3>1. CASE r.type = "NS"
      <4> DEFINE e(i) == LET p == proc_ns(zr, r.rdata[i].dname)
                         IN  [dname |-> r.rdata[i].dname, ad |-> p.ad, glue |-> p.glue]
      <4>1. Linked(zr, r) = [r EXCEPT !.rdata = [i \in DOMAIN r.rdata |-> e(i)]] BY <3>1 DEF Linked
      <4>2. \A i : e(i).dname = r.rdata[i].dname OBVIOUS
      <4> HIDE DEF e
      <4> DEFINE f == [i \in DOMAIN r.rdata |-> e(i)]
      <4>3. /\ Linked(zr, r) = [r EXCEPT !.rdata = f] /\ DOMAIN f = DOMAIN r.rdata
            /\ f = [i \in DOMAIN r.rdata |-> f[i]]
            /\ \A i \in DOMAIN r.rdata : f[i].dname = r.rdata[i].dname
        BY <4>1, <4>2
      <4> HIDE DEF f
      <4> QED BY <4>3
    <3>2. CASE r.type \in {"MX", "SRV"}
      <4> DEFINE e(i) == [Rdata(r.rdata[i].dname) EXCEPT !.ad = valid_addr(zr, r.rdata[i].dname)]
      <4>1. Linked(zr, r) = [r EXCEPT !.rdata = [i \in DOMAIN r.rdata |-> e(i)]] BY <3>2 DEF Linked
      <4>2. \A i : e(i).dname = r.rdata[i].dname BY DEF Rdata
      <4> HIDE DEF e
      <4> DEFINE f == [i \in DOMAIN r.rdata |-> e(i)]
      <4>3. /\ Linked(zr, r) = [r EXCEPT !.rdata = f] /\ DOMAIN f = DOMAIN r.rdata
            /\ f = [i \in DOMAIN r.rdata |-> f[i]]
            /\ \A i \in DOMAIN r.rdata : f[i].dname = r.rdata[i].dname
        BY <4>1, <4>2
      <4> HIDE DEF f
      <4> QED BY <4>3
    <3> QED BY <1>2, <3>1, <3>2
  <2>2. DOMAIN Linked(zr, r) = RRFields /\ Linked(zr, r).type = r.type /\ Linked(zr, r).rdata = x
    BY <1>0, <2>1 DEF RRFields
  <2>3. IsSeq(x) /\ Len(x) = Len(r.rdata) BY <1>0, <2>1, MapIs
  <2>4. DOMAIN r.rdata = 1..Len(r.rdata) BY <1>0 DEF IsSeq
  <2>5. RdataOK(Linked(zr, r)) BY <2>1, <2>2, <2>3, <2>4 DEF RdataOK, IsRR
  <2>6. Numbers(Linked(zr, r)) BY <1>0, <2>1 DEF Numbers, IsRR, RRFields
  <2> QED BY <1>0, <1>2, <2>2, <2>3, <2>5, <2>6 DEF IsRR
<1>3. CASE r.type \in {"SOA", "CNAME", "TXT"} BY <1>3 DEF Linked
<1> QED BY <1>0, <1>1, <1>2, <1>3

\* Phase 1 changes neither the marks nor the CNAMEs of the tree.
LEMMA Phase1Alike ==
  ASSUME Shape(tree), Phase1, ~\E n \in DOMAIN tree : Phase1Fatal(n)
  PROVE  Alike(tree, tree')
<1> DEFINE used == UNION {UNION {proc_ns(ZoneRoot(n), d).used : d \in NsNames(n)} : n \in DOMAIN tree}
           fl(n) == tree[n].flags \cup (IF n \in used THEN {"GUSED"} ELSE {})
           lk(n) == [i \in DOMAIN tree[n].rrsets |-> Linked(ZoneRoot(n), tree[n].rrsets[i])]
           rs(n) == IF tree[n].flags # {} THEN lk(n) ELSE tree[n].rrsets
<1>1. tree' = [n \in DOMAIN tree |-> [flags |-> fl(n), rrsets |-> rs(n)]] BY DEF Phase1
<1>2. ASSUME NEW n \in DOMAIN tree
      PROVE  /\ IsNode(tree'[n]) /\ Len(tree'[n].rrsets) = Len(tree[n].rrsets)
             /\ "ZROOT" \in tree'[n].flags <=> "ZROOT" \in tree[n].flags
             /\ "DELEG" \in tree'[n].flags <=> "DELEG" \in tree[n].flags
             /\ "AUTH" \in tree'[n].flags <=> "AUTH" \in tree[n].flags
             /\ RRsetsOf(tree'[n], "CNAME") = RRsetsOf(tree[n], "CNAME")
  <2> DEFINE x == tree[n]
             y == tree'[n]
  <2>1. y.flags = fl(n) /\ y.rrsets = rs(n) /\ DOMAIN y = {"flags", "rrsets"} BY <1>1
  <2>2. IsNode(x) BY DEF Shape
  <2>3. IsSeq(x.rrsets) /\ Len(x.rrsets) \in Nat /\ DOMAIN x.rrsets = 1..Len(x.rrsets)
        /\ \A i \in 1..Len(x.rrsets) : IsRR(x.rrsets[i])
    BY <2>2 DEF IsNode, IsSeq
  <2>4. /\ DOMAIN lk(n) = 1..Len(x.rrsets) /\ Len(lk(n)) = Len(x.rrsets) /\ IsSeq(lk(n))
        /\ \A i \in 1..Len(x.rrsets) : lk(n)[i] = Linked(ZoneRoot(n), x.rrsets[i])
    <3>1. DOMAIN lk(n) = 1..Len(x.rrsets) BY <2>3
    <3>2. Len(lk(n)) = Len(x.rrsets) BY <2>3, <3>1
    <3> QED BY <2>3, <3>1, <3>2 DEF IsSeq
  <2> HIDE DEF lk, used
  <2>5. /\ IsSeq(rs(n)) /\ Len(rs(n)) = Len(x.rrsets) /\ DOMAIN rs(n) = 1..Len(x.rrsets)
        /\ \A i \in 1..Len(x.rrsets) : /\ IsRR(rs(n)[i]) /\ rs(n)[i].type = x.rrsets[i].type
                                       /\ x.rrsets[i].type = "CNAME" => rs(n)[i] = x.rrsets[i]
    <3>1. CASE tree[n].flags # {} BY <2>3, <2>4, <3>1, LinkedIs
    <3>2. CASE tree[n].flags = {} BY <2>3, <3>2
    <3> QED BY <3>1, <3>2
  <2> HIDE DEF rs
  <2>6. IsNode(y) /\ Len(y.rrsets) = Len(x.rrsets) BY <2>1, <2>5 DEF IsNode
  <2>7. RRsetsOf(y, "CNAME") = RRsetsOf(x, "CNAME") BY <2>1, <2>3, <2>5 DEF RRsetsOf
  <2>8. \A f : f # "GUSED" => (f \in fl(n) <=> f \in x.flags) OBVIOUS
  <2> HIDE DEF fl
  <2>9. /\ "ZROOT" \in y.flags <=> "ZROOT" \in x.flags
        /\ "DELEG" \in y.flags <=> "DELEG" \in x.flags
        /\ "AUTH" \in y.flags <=> "AUTH" \in x.flags BY <2>1, <2>8
  <2> QED BY <2>6, <2>7, <2>9
<1>3. DOMAIN tree' = DOMAIN tree BY <1>1
<1> QED BY <1>2, <1>3 DEF Alike

\* What phase 1 does not refuse has CNAMEs alone at their nodes, outside of
\* delegations, and no static chain that is too long.
LEMMA Phase1Accepts ==
  ASSUME Shape(tree), ~\E n \in DOMAIN tree : Phase1Fatal(n)
  PROVE  Accepted(tree)
<1>1. SUFFICES ASSUME NEW n \in DOMAIN tree, "AUTH" \in tree[n].flags
               PROVE  /\ Has(tree[n], "CNAME") => Len(tree[n].rrsets) = 1 /\ Short(tree, n)
                      /\ DelegIn(tree, n) # {} => ~Has(tree[n], "CNAME")
  BY DEF Accepted
<1>2. ~DelegFatal(n) /\ ~CnameFatal(n)
  <2>1. tree[n].flags # {} BY <1>1
  <2> QED BY <2>1 DEF Phase1Fatal
<1>3. DelegIn(tree, n) # {} => ~Has(tree[n], "CNAME")
  BY <1>2 DEF DelegFatal, in_deleg, Delegations, ZoneRoot, DelegIn, RootOf
<1>4. ASSUME Has(tree[n], "CNAME") PROVE Len(tree[n].rrsets) = 1 /\ Short(tree, n)
  <2>1. ~(Len(tree[n].rrsets) > 1) /\ ~ChainTooLong(n) BY <1>2, <1>4 DEF CnameFatal
  <2>2. IsNode(tree[n]) BY DEF Shape
  <2>3. Len(tree[n].rrsets) \in Nat /\ \E i \in 1..Len(tree[n].rrsets) : tree[n].rrsets[i].type = "CNAME"
    BY <1>4, <2>2, HasIs DEF IsNode, IsSeq
  <2> DEFINE l == Len(tree[n].rrsets)
  <2>4. l = 1
    <3>1. l \in Nat /\ (\E i \in 1..l : TRUE) /\ ~(l > 1) BY <2>1, <2>3
    <3> HIDE DEF l
    <3> QED BY ONLY <3>1
  <2> QED BY <2>1, <2>4, ChainsShort
<1> QED BY <1>3, <1>4

LEMMA FatalKeeps ==
  ASSUME NEW ph \in {"zones", "scan", "phase2", "run", "fatal"}, NEW t, NEW ld, ph # "zones",
         TreeOK(ph, t, ld), NEW p \in {"scan", "phase2", "run", "fatal"}
  PROVE  TreeOK(p, t, ld)
BY DEF TreeOK, RootsOK

LEMMA AddZoneStep ==
  ASSUME LoadInv, NEW z \in Zones, AddZone(z)
  PROVE  LoadInv'
<1> DEFINE u == [FindOrAdd(tree, z) EXCEPT ![z].flags = {"ZROOT", "AUTH"}]
<1>1. TreeOK("zones", tree, {}) /\ loaded = {} BY DEF LoadInv, TreeInv, AddZone, TreeOK, RootsOK
<1>2. ~Root(tree, z) BY DEF AddZone, Root
<1>3. \A y \in Zones : Len(y) < Len(z) => Root(tree, y) BY DEF AddZone, Root
<1>4. tree' = u /\ loaded' = {} BY <1>1 DEF AddZone
<1>5. phase' \in {"zones", "scan"} BY DEF AddZone
<1>6. phase' = "scan" => \A y \in Zones : Root(u, y)
  <2> DEFINE rest == {y \in Zones : y \notin DOMAIN u \/ "ZROOT" \notin u[y].flags}
  <2>1. phase' = IF rest = {} THEN "scan" ELSE "zones" BY DEF AddZone
  <2> HIDE DEF u
  <2>2. rest = {} => \A y \in Zones : Root(u, y) BY DEF Root
  <2> HIDE DEF rest
  <2> QED BY <2>1, <2>2
<1>7. TreeOK(phase', u, {}) BY <1>1, <1>2, <1>3, <1>5, <1>6, TreeAddZone
<1> HIDE DEF u
<1>8. TreeInv' BY <1>4, <1>7 DEF TreeInv
<1> QED BY <1>5, <1>8 DEF LoadInv

LEMMA NodeToAdd ==
  ASSUME NEW t, Shape(t), NEW d \in Name
  PROVE  IsNode(FindOrAdd(t, d)[d])
BY FindOrAddIs DEF Shape

LEMMA SingleIs ==
  ASSUME NEW r, IsRecord(r), r.type \in {"DYNA", "CNAME", "DYNC", "SOA"}
  PROVE  IsRR(NewSingle(r)) /\ (NewSingle(r).type = "CNAME" => r.type \in {"CNAME", "DYNC"})
<1>0. r.rd \in Name BY RecordIs
<1>0a. \A x, y : IsSeq(<<>>) /\ IsSeq(<<x>>) /\ IsSeq(<<x, y>>) BY DEF IsSeq
<1>0b. r.lim \in Nat /\ IsSeq(r.rd) BY <1>0, RecordIs, NameSeq
<1>1. CASE r.type = "DYNA"
  <2>1. NewSingle(r) = [Rrset("A", FALSE, <<>>) EXCEPT !.lim4 = r.lim, !.lim6 = r.lim] BY <1>1 DEF NewSingle
  <2>2. DOMAIN NewSingle(r) = RRFields /\ NewSingle(r).type = "A" /\ NewSingle(r).rdata = <<>> BY <2>1 DEF Rrset, RRFields
  <2>3. Numbers(NewSingle(r)) BY <1>0b, <2>1 DEF Rrset, Numbers
  <2>4. RdataOK(NewSingle(r)) BY <2>2 DEF RdataOK
  <2> QED BY <1>0a, <1>1, <2>2, <2>3, <2>4 DEF IsRR
<1>2. CASE r.type = "CNAME"
  <2>1. NewSingle(r) = Rrset("CNAME", TRUE, <<Rdata(r.rd)>>) BY <1>2 DEF NewSingle
  <2>2. DOMAIN NewSingle(r) = RRFields /\ NewSingle(r).type = "CNAME" /\ NewSingle(r).rdata = <<Rdata(r.rd)>>
    BY <2>1 DEF Rrset, RRFields
  <2>3. <<Rdata(r.rd)>>[1].dname = r.rd BY DEF Rdata
  <2>4. Numbers(NewSingle(r)) BY <2>1 DEF Rrset, Numbers
  <2>5. RdataOK(NewSingle(r))
    <3>1. Len(<<Rdata(r.rd)>>) = 1 OBVIOUS
    <3> QED BY <1>0, <1>0b, <2>2, <2>3, <3>1 DEF RdataOK
  <2> QED BY <1>0, <1>0a, <1>2, <2>2, <2>3, <2>4, <2>5 DEF IsRR
<1>3. CASE r.type = "DYNC"
  <2>1. NewSingle(r) = Rrset("CNAME", FALSE, <<>>) BY <1>3 DEF NewSingle
  <2>2. DOMAIN NewSingle(r) = RRFields /\ NewSingle(r).type = "CNAME" /\ NewSingle(r).static = FALSE
        /\ NewSingle(r).rdata = <<>>
    BY <2>1 DEF Rrset, RRFields
  <2>3. Numbers(NewSingle(r)) BY <2>1 DEF Rrset, Numbers
  <2>4. RdataOK(NewSingle(r)) BY <2>2 DEF RdataOK
  <2> QED BY <1>0a, <1>3, <2>2, <2>3, <2>4 DEF IsRR
<1>4. CASE r.type = "SOA"
  <2>1. NewSingle(r) = Rrset("SOA", TRUE, <<Rdata(r.rd), Rdata(<<"h">> \o r.zone)>>) BY <1>4 DEF NewSingle
  <2>2. DOMAIN NewSingle(r) = RRFields /\ NewSingle(r).type = "SOA"
        /\ NewSingle(r).rdata = <<Rdata(r.rd), Rdata(<<"h">> \o r.zone)>>
    BY <2>1 DEF Rrset, RRFields
  <2>3. Numbers(NewSingle(r)) BY <2>1 DEF Rrset, Numbers
  <2> DEFINE h == <<"h">> \o r.zone
  <2>4. IsSeq(h) BY <1>0a, RecordIs, NameSeq, ConcatIs
  <2> HIDE DEF h
  <2>5. RdataOK(NewSingle(r)) /\ Len(NewSingle(r).rdata) = 2
    <3>1. NewSingle(r).rdata = <<Rdata(r.rd), Rdata(h)>> BY <2>2 DEF h
    <3>2. Len(<<Rdata(r.rd), Rdata(h)>>) = 2 OBVIOUS
    <3>3. <<Rdata(r.rd), Rdata(h)>>[1].dname = r.rd /\ <<Rdata(r.rd), Rdata(h)>>[2].dname = h BY DEF Rdata
    <3> QED BY <1>0b, <2>2, <2>4, <3>1, <3>2, <3>3 DEF RdataOK
  <2> QED BY <1>0a, <1>4, <2>2, <2>3, <2>5 DEF IsRR
<1> QED BY <1>1, <1>2, <1>3, <1>4

LEMMA AddSingleStep ==
  ASSUME TreeInv, phase = "scan", NEW r, IsRecord(r), Inside(r), r.type # "SOA" => SubzonesOk(r),
         r.type \in {"DYNA", "CNAME", "DYNC", "SOA"}, AddSingle(r)
  PROVE  TreeInv' /\ phase' \in {"scan", "fatal"}
<1> DEFINE t == FindOrAdd(tree, r.name)
           node == t[r.name]
           x == SetRRset(node, NewSingle(r))
<1>0. TreeOK("scan", tree, loaded) /\ Shape(tree) BY DEF TreeInv, TreeOK
<1>1. CASE RefuseSingle(r, node)
  <2>1. phase' = "fatal" /\ tree' = tree /\ loaded' = loaded BY <1>1 DEF AddSingle
  <2>2. TreeOK("fatal", tree, loaded) BY <1>0, FatalKeeps
  <2> QED BY <2>1, <2>2 DEF TreeInv
<1>2. CASE ~RefuseSingle(r, node)
  <2>1. phase' = "scan" /\ tree' = [t EXCEPT ![r.name] = SetRRset(@, NewSingle(r))] /\ loaded' = loaded \cup {r}
    BY <1>2 DEF AddSingle
  <2>2. tree' = [t EXCEPT ![r.name] = x] BY <2>1
  <2>3. IsNode(node) BY <1>0, RecordIs, NodeToAdd
  <2>4. IsRR(NewSingle(r)) /\ (NewSingle(r).type = "CNAME" => r.type \in {"CNAME", "DYNC"}) BY SingleIs
  <2> HIDE DEF node
  <2>5. IsNode(x) /\ x.flags = node.flags /\ (Has(x, "CNAME") => NewSingle(r).type = "CNAME" \/ Has(node, "CNAME"))
    BY <2>3, <2>4, SetRRsetIs
  <2> HIDE DEF x
  <2>6. Has(x, "CNAME") => Has(node, "CNAME") \/ ~("ZROOT" \in node.flags)
    BY <1>2, <2>4, <2>5 DEF RefuseSingle
  <2>7. r.type # "NS" OBVIOUS
  <2>8. TreeOK("scan", [FindOrAdd(tree, r.name) EXCEPT ![r.name] = x], loaded \cup {r})
    BY <1>0, <2>5, <2>6, <2>7, TreeAddRecord DEF node
  <2> QED BY <2>1, <2>2, <2>8 DEF TreeInv
<1> QED BY <1>1, <1>2

LEMMA AddrNumbers ==
  ASSUME NEW r, IsRecord(r), r.type \in {"A", "AAAA"}, NEW old, DOMAIN old = RRFields, Numbers(old)
  PROVE  Numbers(WithAddr(r, old)) /\ DOMAIN WithAddr(r, old) = RRFields
<1>0. r.lim \in Nat BY RecordIs
<1>1. CASE r.type = "A"
  <2>1. WithAddr(r, old) = [old EXCEPT !.v4 = @ + 1, !.lim4 = r.lim] BY <1>1 DEF WithAddr
  <2> QED BY <1>0, <2>1 DEF Numbers, RRFields
<1>2. CASE r.type = "AAAA"
  <2>1. WithAddr(r, old) = [old EXCEPT !.v6 = @ + 1, !.lim6 = r.lim] BY <1>2 DEF WithAddr
  <2> QED BY <1>0, <2>1 DEF Numbers, RRFields
<1> QED BY <1>1, <1>2

LEMMA AddAddrStep ==
  ASSUME TreeInv, phase = "scan", NEW r, IsRecord(r), Inside(r), SubzonesOk(r),
         r.type \in {"A", "AAAA"}, AddAddr(r)
  PROVE  TreeInv' /\ phase' \in {"scan", "fatal"}
<1> DEFINE t == FindOrAdd(tree, r.name)
           node == t[r.name]
           old == IF Has(node, "A") THEN TheRRset(node, "A") ELSE Rrset("A", TRUE, <<>>)
           x == SetRRset(node, WithAddr(r, old))
<1>0. TreeOK("scan", tree, loaded) /\ Shape(tree) BY DEF TreeInv, TreeOK
<1>1. CASE ~(old.static /\ ~TooMany(r, old))
  <2>1. phase' = "fatal" /\ tree' = tree /\ loaded' = loaded BY <1>1 DEF AddAddr
  <2>2. TreeOK("fatal", tree, loaded) BY <1>0, FatalKeeps
  <2> QED BY <2>1, <2>2 DEF TreeInv
<1>2. CASE old.static /\ ~TooMany(r, old)
  <2>1. phase' = "scan" /\ tree' = [t EXCEPT ![r.name] = SetRRset(@, WithAddr(r, old))] /\ loaded' = loaded \cup {r}
    BY <1>2 DEF AddAddr
  <2>2. tree' = [t EXCEPT ![r.name] = x] BY <2>1
  <2>3. IsNode(node) BY <1>0, RecordIs, NodeToAdd
  <2> HIDE DEF node
  <2>4. DOMAIN old = RRFields /\ IsSeq(old.rdata) /\ old.type = "A" /\ Numbers(old) /\ RdataOK(old)
    <3>1. CASE Has(node, "A") BY <2>3, <3>1, RRsetFound DEF IsRR
    <3>2. CASE ~Has(node, "A") BY <3>2 DEF Rrset, RRFields, IsSeq, Numbers, RdataOK
    <3> QED BY <3>1, <3>2
  <2> HIDE DEF old
  <2>5. IsRR(WithAddr(r, old)) /\ WithAddr(r, old).type = "A"
    <3>1. CASE r.type = "A"
      <4>1. WithAddr(r, old) = [old EXCEPT !.v4 = @ + 1, !.lim4 = r.lim] BY <3>1 DEF WithAddr
      <4>2. DOMAIN WithAddr(r, old) = RRFields /\ WithAddr(r, old).type = "A" /\ WithAddr(r, old).rdata = old.rdata
        BY <2>4, <4>1 DEF RRFields
      <4>3. Numbers(WithAddr(r, old)) BY <2>4, AddrNumbers
      <4>4. RdataOK(WithAddr(r, old)) BY <2>4, <4>2 DEF RdataOK
      <4> QED BY <2>4, <4>2, <4>3, <4>4 DEF IsRR
    <3>2. CASE r.type = "AAAA"
      <4>1. WithAddr(r, old) = [old EXCEPT !.v6 = @ + 1, !.lim6 = r.lim] BY <3>2 DEF WithAddr
      <4>2. DOMAIN WithAddr(r, old) = RRFields /\ WithAddr(r, old).type = "A" /\ WithAddr(r, old).rdata = old.rdata
        BY <2>4, <4>1 DEF RRFields
      <4>3. Numbers(WithAddr(r, old)) BY <2>4, AddrNumbers
      <4>4. RdataOK(WithAddr(r, old)) BY <2>4, <4>2 DEF RdataOK
      <4> QED BY <2>4, <4>2, <4>3, <4>4 DEF IsRR
    <3> QED BY <3>1, <3>2
  <2>6. IsNode(x) /\ x.flags = node.flags /\ (Has(x, "CNAME") => Has(node, "CNAME"))
    BY <2>3, <2>5, SetRRsetIs
  <2> HIDE DEF x
  <2>7. r.type # "NS" OBVIOUS
  <2>8. TreeOK("scan", [FindOrAdd(tree, r.name) EXCEPT ![r.name] = x], loaded \cup {r})
    BY <1>0, <2>6, <2>7, TreeAddRecord DEF node
  <2> QED BY <2>1, <2>2, <2>8 DEF TreeInv
<1> QED BY <1>1, <1>2

LEMMA AddMultiStep ==
  ASSUME TreeInv, phase = "scan", NEW r, IsRecord(r), Inside(r), SubzonesOk(r),
         r.type \in {"NS", "MX", "SRV", "TXT"}, AddMulti(r)
  PROVE  TreeInv' /\ phase' \in {"scan", "fatal"}
<1> DEFINE t == FindOrAdd(tree, r.name)
           node == t[r.name]
           old == IF Has(node, r.type) THEN TheRRset(node, r.type) ELSE Rrset(r.type, TRUE, <<>>)
           deleg == IF r.type = "NS" /\ "ZROOT" \notin node.flags THEN {"DELEG"} ELSE {}
           new == [old EXCEPT !.rdata = Append(@, Rdata(r.rd))]
           y == SetRRset(node, new)
           x == [y EXCEPT !.flags = @ \cup deleg]
           refused == \/ ~r.ok \/ Len(old.rdata) = max_rrs
                      \/ r.type = "NS" /\ r.name # <<>> /\ Head(r.name) = Star
<1>0. TreeOK("scan", tree, loaded) /\ Shape(tree) BY DEF TreeInv, TreeOK
<1>1. CASE refused
  <2>1. phase' = "fatal" /\ tree' = tree /\ loaded' = loaded BY <1>1 DEF AddMulti
  <2>2. TreeOK("fatal", tree, loaded) BY <1>0, FatalKeeps
  <2> QED BY <2>1, <2>2 DEF TreeInv
<1>2. CASE ~refused
  <2>1. phase' = "scan" /\ loaded' = loaded \cup {r} BY <1>2 DEF AddMulti
  <2>2. tree' = [t EXCEPT ![r.name] = x] BY <1>2 DEF AddMulti
  <2>3. IsNode(node) BY <1>0, RecordIs, NodeToAdd
  <2> HIDE DEF node
  <2>4. DOMAIN old = RRFields /\ IsSeq(old.rdata) /\ old.type = r.type /\ Numbers(old) /\ RdataOK(old)
    <3>1. CASE Has(node, r.type) BY <2>3, <3>1, RRsetFound DEF IsRR
    <3>2. CASE ~Has(node, r.type) BY <3>2 DEF Rrset, RRFields, IsSeq, Numbers, RdataOK
    <3> QED BY <3>1, <3>2
  <2> HIDE DEF old
  <2>5. IsRR(new) /\ new.type = r.type
    <3>1. DOMAIN new = RRFields /\ new.type = r.type /\ new.rdata = Append(old.rdata, Rdata(r.rd))
      BY <2>4 DEF RRFields
    <3> DEFINE s == old.rdata
               e == Rdata(r.rd)
    <3>2. /\ IsSeq(Append(s, e)) /\ Len(Append(s, e)) = Len(s) + 1 /\ Append(s, e)[Len(s) + 1] = e
          /\ \A i \in 1..Len(s) : Append(s, e)[i] = s[i]
      BY <2>4, AppendIs
    <3>3. Len(s) \in Nat /\ \A i \in 1..(Len(s) + 1) : i \in 1..Len(s) \/ i = Len(s) + 1 BY <2>4 DEF IsSeq
    <3>4. e.dname \in Name /\ IsSeq(e.dname) BY RecordIs, NameSeq DEF Rdata
    <3>5. \A i \in 1..Len(s) : IsSeq(s[i].dname) /\ s[i].dname \in Name BY <2>4 DEF RdataOK
    <3> HIDE DEF s, e
    <3>6. RdataOK(new)
      <4>1. new.rdata = Append(s, e) BY <3>1 DEF s, e
      <4> QED BY <3>2, <3>3, <3>4, <3>5, <4>1 DEF RdataOK
    <3>7. Numbers(new) BY <2>4 DEF Numbers, RRFields
    <3>8. new.rdata = Append(s, e) BY <3>1 DEF s, e
    <3> QED BY <3>1, <3>2, <3>6, <3>7, <3>8 DEF IsRR
  <2> HIDE DEF new
  <2>6. IsNode(y) /\ y.flags = node.flags /\ (Has(y, "CNAME") => r.type = "CNAME" \/ Has(node, "CNAME"))
    BY <2>3, <2>5, SetRRsetIs
  <2> HIDE DEF y, deleg
  <2>7. DOMAIN x = {"flags", "rrsets"} /\ x.flags = node.flags \cup deleg /\ x.rrsets = y.rrsets
    BY <2>6 DEF IsNode
  <2> HIDE DEF x
  <2>8. IsNode(x) /\ (Has(x, "CNAME") => Has(node, "CNAME"))
    <3>1. IsNode(x) BY <2>6, <2>7 DEF IsNode
    <3>2. Has(x, "CNAME") <=> Has(y, "CNAME") BY <2>7, SameRrsets
    <3> QED BY <2>6, <3>1, <3>2
  <2>9. /\ "AUTH" \in node.flags => "AUTH" \in x.flags
        /\ "ZROOT" \in x.flags <=> "ZROOT" \in node.flags
        /\ "DELEG" \in x.flags <=> "DELEG" \in node.flags \/ (r.type = "NS" /\ ~("ZROOT" \in node.flags))
    <3>1. CASE r.type = "NS" /\ ~("ZROOT" \in node.flags)
      <4>1. deleg = {"DELEG"} BY <3>1 DEF deleg
      <4> QED BY <2>7, <3>1, <4>1
    <3>2. CASE ~(r.type = "NS" /\ ~("ZROOT" \in node.flags))
      <4>1. deleg = {} BY <3>2 DEF deleg
      <4> QED BY <2>7, <3>2, <4>1
    <3> QED BY <3>1, <3>2
  <2>10. TreeOK("scan", [FindOrAdd(tree, r.name) EXCEPT ![r.name] = x], loaded \cup {r})
    BY <1>0, <2>8, <2>9, TreeAddRecord DEF node
  <2> QED BY <2>1, <2>2, <2>10 DEF TreeInv
<1> QED BY <1>1, <1>2

LEMMA ScanStep == ASSUME LoadInv, ScanRecord PROVE LoadInv'
<1> DEFINE r == Records[pos]
<1>0. TreeInv /\ phase = "scan" /\ IsRecord(r) /\ TreeOK("scan", tree, loaded)
  BY DEF LoadInv, TreeInv, ScanRecord, IsRecord
<1>1. Record(r) BY DEF ScanRecord
<1>2. r.type \in RecordType /\ r.name \in Name /\ (r.type = "SOA" => r.name = r.zone) BY <1>0, RecordIs
<1> HIDE DEF r
<1>3. TreeInv' /\ phase' \in {"scan", "fatal"}
  <2>1. CASE r.type = "SOA" /\ AddSingle(r)
    <3>1. Inside(r)
      <4>1. r.name \in Path(r.name) BY <1>2, PathSelf
      <4> QED BY <1>2, <2>1, <4>1, PathIs DEF Inside
    <3> QED BY <1>0, <2>1, <3>1, AddSingleStep
  <2>2. CASE r.type # "SOA" /\ ~InZone(r.name, r.zone)
             /\ r.type \in {"A", "AAAA"} /\ AddOozAddr(r)
    <3>1. \/ tree' = FindOrAdd(tree, r.zone) /\ loaded' = loaded \cup {r} /\ phase' = "scan"
          \/ tree' = tree /\ loaded' = loaded /\ phase' = "fatal"
      BY <1>0, <2>2 DEF AddOozAddr
    <3>2. TreeOK("scan", FindOrAdd(tree, r.zone), loaded \cup {r}) BY <1>0, <2>2, TreeAddOoz DEF Inside
    <3>3. TreeOK("fatal", tree, loaded) BY <1>0, FatalKeeps
    <3> QED BY <3>1, <3>2, <3>3 DEF TreeInv
  <2>3. CASE phase' = "fatal" /\ UNCHANGED <<tree, ooz, loaded>>
    <3>1. TreeOK("fatal", tree, loaded) BY <1>0, FatalKeeps
    <3> QED BY <2>3, <3>1 DEF TreeInv
  <2>4. CASE UNCHANGED <<tree, ooz, loaded, phase>>
    BY <1>0, <2>4 DEF TreeInv
  <2>5. CASE r.type # "SOA" /\ InZone(r.name, r.zone) /\ SubzonesOk(r)
    <3>0. Inside(r) BY <2>5 DEF Inside
    <3>1. CASE r.type \in {"A", "AAAA"} /\ AddAddr(r) BY <1>0, <2>5, <3>0, <3>1, AddAddrStep
    <3>2. CASE r.type \in {"DYNA", "CNAME", "DYNC"} /\ AddSingle(r) BY <1>0, <2>5, <3>0, <3>2, AddSingleStep
    <3>3. CASE r.type \in {"NS", "MX", "SRV", "TXT"} /\ AddMulti(r) BY <1>0, <2>5, <3>0, <3>3, AddMultiStep
    <3>4. \/ r.type \in {"A", "AAAA"} /\ AddAddr(r)
          \/ r.type \in {"DYNA", "CNAME", "DYNC"} /\ AddSingle(r)
          \/ r.type \in {"NS", "MX", "SRV", "TXT"} /\ AddMulti(r)
      BY <1>1, <1>2, <2>5 DEF Record, RecordType
    <3> QED BY <3>1, <3>2, <3>3, <3>4
  <2> QED BY <1>1, <2>1, <2>2, <2>3, <2>4, <2>5 DEF Record
<1> QED BY <1>3 DEF LoadInv

LEMMA Phase1Step == ASSUME LoadInv, Phase1 PROVE LoadInv'
<1>0. phase = "scan" /\ TreeOK("scan", tree, loaded) /\ Shape(tree) BY DEF LoadInv, TreeInv, Phase1, TreeOK
<1>1. CASE \E n \in DOMAIN tree : Phase1Fatal(n)
  <2>1. phase' = "fatal" /\ tree' = tree /\ loaded' = loaded BY <1>1 DEF Phase1, Fatal
  <2>2. TreeOK("fatal", tree, loaded) BY <1>0, FatalKeeps
  <2> QED BY <2>1, <2>2 DEF LoadInv, TreeInv
<1>2. CASE ~\E n \in DOMAIN tree : Phase1Fatal(n)
  <2>1. phase' = "phase2" /\ loaded' = loaded BY <1>2 DEF Phase1
  <2>2. Alike(tree, tree') BY <1>0, <1>2, Phase1Alike
  <2>3. Accepted(tree) BY <1>0, <1>2, Phase1Accepts
  <2>4. TreeOK("phase2", tree', loaded) BY <1>0, <2>2, TreeAlike
  <2>5. Accepted(tree') BY <1>0, <2>2, <2>3, AcceptedAlike
  <2>6. TreeInv' BY <2>1, <2>4 DEF TreeInv
  <2> QED BY <2>1, <2>5, <2>6 DEF LoadInv
<1> QED BY <1>1, <1>2

LEMMA LoadStep == ASSUME LoadInv, Load \/ UNCHANGED ltree PROVE LoadInv'
<1>1. CASE \E z \in Zones : AddZone(z) BY <1>1, AddZoneStep
<1>2. CASE ScanRecord BY <1>2, ScanStep
<1>3. CASE NoRecord BY <1>3 DEF NoRecord, LoadInv, TreeInv
<1>4. CASE Phase1 BY <1>4, Phase1Step
<1>5. CASE Phase2
  <2>0. phase = "phase2" /\ TreeOK("phase2", tree, loaded) /\ Accepted(tree) BY <1>5 DEF LoadInv, TreeInv, Phase2
  <2>1. phase' \in {"run", "fatal"} /\ tree' = tree /\ loaded' = loaded BY <1>5 DEF Phase2, Fatal
  <2>2. TreeOK(phase', tree, loaded) BY <2>0, <2>1, FatalKeeps
  <2> QED BY <2>0, <2>1, <2>2 DEF LoadInv, TreeInv
<1>6. CASE UNCHANGED ltree BY <1>6 DEF ltree, LoadInv, TreeInv
<1> QED BY <1>1, <1>2, <1>3, <1>4, <1>5, <1>6 DEF Load

-----------------------------------------------------------------------------
(* What the tree says of a name is what the zone files say of it.          *)

LEMMA InZoneSame ==
  ASSUME NEW d \in Name, NEW n \in Name
  PROVE  InZone(d, n) <=> n \in Path(d)
BY PathIs

\* Between a zone and one inside of it there is a subzone.
LEMMA SubzoneBetween ==
  ASSUME NEW y \in Zones, NEW z \in Zones, y \in Path(z), y # z
  PROVE  \E s \in subzones(y) : s \in Path(z)
<1>0. y \in Name /\ z \in Name BY RecordsAssumption
<1> DEFINE S == {s \in Zones : s \in Path(z) /\ y \in Path(s) /\ s # y}
           T == {Len(s) : s \in S}
<1>1. z \in S BY <1>0, PathSelf
<1>2. \A s \in S : Len(s) \in Nat BY <1>0, PathIs
<1>3. PICK k \in T : \A j \in T : k <= j
  <2>1. T \in SUBSET Nat /\ T # {} BY <1>1, <1>2
  <2> QED BY <2>1, Least
<1>4. PICK s \in S : k = Len(s) BY <1>3
<1>5. s \in Zones /\ s \in Name /\ s \in Path(z) /\ y \in Path(s) /\ s # y BY <1>4, RecordsAssumption
<1>6. InZone(s, y) BY <1>0, <1>5, InZoneSame
<1>7. ASSUME NEW x \in Zones \ {s}, InZone(s, x) PROVE InZone(y, x)
  <2>1. x \in Name /\ x \in Path(s) BY <1>5, <1>7, InZoneSame, RecordsAssumption
  <2>2. Len(x) \in Nat /\ Len(y) \in Nat BY <1>0, <2>1 DEF Name
  <2>3. CASE Len(x) <= Len(y)
    <3>1. x \in Path(y) BY <1>5, <2>1, <2>3, PathLinear
    <3> QED BY <1>0, <2>1, <3>1, InZoneSame
  <2>4. CASE Len(y) < Len(x)
    <3>1. Len(y) <= Len(x) /\ x # y BY <2>2, <2>4
    <3>2. y \in Path(x) BY <1>5, <2>1, <3>1, PathLinear
    <3>3. x \in Path(z) BY <1>0, <1>5, <2>1, PathTrans
    <3>4. x \in S BY <3>1, <3>2, <3>3
    <3>5. Len(s) <= Len(x) BY <1>3, <1>4, <3>4
    <3>6. Len(x) <= Len(s) BY <1>5, <2>1, PathIs
    <3>7. Len(x) = Len(s) BY <1>2, <2>2, <3>5, <3>6
    <3>8. x = s BY <1>5, <2>1, <3>7, PathSame, PathSelf
    <3> QED BY <3>8
  <2> QED BY <2>2, <2>3, <2>4
<1>8. s \in subzones(y) BY <1>5, <1>6, <1>7 DEF subzones
<1> QED BY <1>5, <1>8

\* No record lies in a zone below its own.
LEMMA RecordAbove ==
  ASSUME TreeOK("run", tree, loaded), NEW r \in loaded, Inside(r),
         NEW z \in Zones, z \in Path(r.name), r.zone \in Path(z)
  PROVE  r.zone = z
<1>0. LoadedOK(tree, r) BY DEF TreeOK
<1>1. r.zone \in Zones /\ r.zone \in Name /\ r.name \in Name /\ (r.type = "SOA" => r.name = r.zone) /\ z \in Name
  BY <1>0, RecordIs, RecordsAssumption DEF LoadedOK
<1>2. SUFFICES ASSUME r.zone # z PROVE FALSE OBVIOUS
<1>3. CASE r.type = "SOA"
  <2>1. z \in Path(r.zone) BY <1>1, <1>3
  <2>2. Len(z) <= Len(r.zone) /\ Len(r.zone) <= Len(z) /\ Len(z) \in Nat /\ Len(r.zone) \in Nat
    BY <1>1, <2>1, PathIs
  <2>3. Len(r.zone) = Len(z) BY <2>2
  <2> QED BY <1>1, <1>2, <2>3, PathSame, PathSelf
<1>4. CASE r.type # "SOA"
  <2>1. SubzonesOk(r) BY <1>0, <1>4 DEF LoadedOK
  <2>2. PICK s \in subzones(r.zone) : s \in Path(z) BY <1>1, <1>2, SubzoneBetween
  <2>3. s \in Path(r.name) /\ s \in Name BY <1>1, <2>2, PathTrans, PathIs
  <2>4. InZone(r.name, s) BY <1>1, <2>3, InZoneSame
  <2> QED BY <2>1, <2>2, <2>4 DEF SubzonesOk
<1> QED BY <1>3, <1>4

\* A name exists for the records of its zone if and only if it has a node.
LEMMA ExistsIs ==
  ASSUME TreeOK("run", tree, loaded), NEW f \in Name, NEW z \in Zones, z \in Path(f),
         \A y \in Zones : y \in Path(f) => Len(y) <= Len(z) \/ y = f
  PROVE  Exists(z, f) <=> f \in DOMAIN tree
<1>0. Shape(tree) /\ RootsOK("run", tree, loaded) /\ z \in Name BY RecordsAssumption DEF TreeOK
<1>1. ASSUME NEW r \in loaded, r.zone = z, InZone(r.name, z), InZone(r.name, f) PROVE f \in DOMAIN tree
  <2>1. LoadedOK(tree, r) /\ Inside(r) BY <1>1 DEF TreeOK, Inside
  <2>2. r.name \in DOMAIN tree /\ r.name \in Name BY <2>1, RecordIs DEF LoadedOK
  <2>3. f \in Path(r.name) BY <1>1, <2>2, InZoneSame
  <2> QED BY <1>0, <2>2, <2>3 DEF Shape
<1>2. ASSUME NEW y \in Zones, InZone(y, f) PROVE f \in DOMAIN tree
  <2>1. y \in DOMAIN tree /\ y \in Name BY <1>0, RecordsAssumption DEF RootsOK, Root
  <2>2. f \in Path(y) BY <1>2, <2>1, InZoneSame
  <2> QED BY <1>0, <2>1, <2>2 DEF Shape
<1>3. ASSUME f \in DOMAIN tree PROVE Exists(z, f)
  <2>0. \A y \in Zones : y \in Name /\ (f \in Path(y) => Exists(z, f))
    BY InZoneSame, RecordsAssumption DEF Exists
  <2>1. CASE f = <<>>
    <3>1. <<>> \in Path(z) BY <1>0, PathSelf
    <3> QED BY <2>0, <2>1, <3>1
  <2>2. ASSUME NEW y, Root(tree, y), f \in Path(y) PROVE Exists(z, f)
    <3>1. y \in Zones BY <1>0, <2>2 DEF RootsOK
    <3> QED BY <2>0, <2>2, <3>1
  <2>3. ASSUME NEW r \in loaded, Inside(r), f \in Path(r.name) PROVE Exists(z, f)
    <3>0. LoadedOK(tree, r) BY DEF TreeOK
    <3>1. r.name \in Name /\ r.zone \in Zones /\ r.zone \in Name BY <3>0, RecordIs DEF LoadedOK
    <3>2. r.zone \in Path(r.name) BY <2>3, <3>1, InZoneSame DEF Inside
    <3>3. z \in Path(r.name) BY <2>3, <3>1, PathTrans
    <3>4. Len(z) \in Nat /\ Len(r.zone) \in Nat /\ Len(f) \in Nat BY <1>0, <3>1 DEF Name
    <3>5. CASE Len(r.zone) <= Len(z)
      <4>1. r.zone \in Path(z) BY <3>1, <3>2, <3>3, <3>5, PathLinear
      <4>2. r.zone = z BY <2>3, <3>3, <4>1, RecordAbove
      <4>3. InZone(r.name, z) /\ InZone(r.name, f) BY <1>0, <2>3, <3>1, <3>3, InZoneSame
      <4> QED BY <4>2, <4>3 DEF Exists
    <3>6. CASE Len(z) < Len(r.zone)
      <4>1. CASE Len(r.zone) <= Len(f)
        <5>1. r.zone \in Path(f) BY <2>3, <3>1, <3>2, <4>1, PathLinear
        <5>2. ~(Len(r.zone) <= Len(z)) BY <3>4, <3>6
        <5>3. r.zone = f BY <3>1, <5>1, <5>2
        <5>4. f \in Path(r.zone) BY <5>3, PathSelf
        <5> QED BY <2>0, <3>1, <5>4
      <4>2. CASE Len(f) <= Len(r.zone)
        <5>1. f \in Path(r.zone) BY <2>3, <3>1, <3>2, <4>2, PathLinear
        <5> QED BY <2>0, <3>1, <5>1
      <4> QED BY <3>4, <4>1, <4>2
    <3> QED BY <3>4, <3>5, <3>6
  <2>4. Justified(tree, loaded, f) BY <1>3 DEF TreeOK
  <2> QED BY <2>1, <2>2, <2>3, <2>4 DEF Justified
<1> QED BY <1>1, <1>2, <1>3 DEF Exists

\* The marked nodes on a path are its zones and the delegations out of them.
LEMMA MarksIs ==
  ASSUME TreeOK("run", tree, loaded), NEW d \in Name
  PROVE  /\ ZonesOf(d) = {n \in Path(d) \cap DOMAIN tree : "ZROOT" \in tree[n].flags}
         /\ ZonesOf(d) \subseteq Marked(d) /\ Marked(d) \subseteq Path(d) /\ ZonesOf(d) \subseteq Path(d)
         /\ \A m \in Marked(d) : m \notin Zones =>
              \E r \in loaded : r.type = "NS" /\ r.name = m /\ Inside(r) /\ r.zone \in ZonesOf(d)
         /\ Marked(d) = {} <=> ZonesOf(d) = {}
<1>0. Shape(tree) /\ RootsOK("run", tree, loaded) BY DEF TreeOK
<1>1. \A z : z \in Zones <=> z \in DOMAIN tree /\ "ZROOT" \in tree[z].flags BY <1>0 DEF RootsOK, Root
<1>2. \A z \in Zones : z \in Name /\ (InZone(d, z) <=> z \in Path(d)) BY InZoneSame, RecordsAssumption
<1>3. ZonesOf(d) = {n \in Path(d) \cap DOMAIN tree : "ZROOT" \in tree[n].flags} BY <1>1, <1>2 DEF ZonesOf
<1>4. ZonesOf(d) \subseteq Marked(d) /\ Marked(d) \subseteq Path(d) /\ ZonesOf(d) \subseteq Path(d) BY <1>3 DEF Marked
<1>5. ASSUME NEW m \in Marked(d), m \notin Zones
      PROVE  \E r \in loaded : r.type = "NS" /\ r.name = m /\ Inside(r) /\ r.zone \in ZonesOf(d)
  <2>1. m \in DOMAIN tree /\ m \in Path(d) /\ "DELEG" \in tree[m].flags BY <1>1, <1>5 DEF Marked
  <2>2. PICK r \in loaded : r.type = "NS" /\ r.name = m BY <2>1 DEF TreeOK, Delegated
  <2>3. LoadedOK(tree, r) BY DEF TreeOK
  <2>4. Inside(r) /\ r.zone \in Zones /\ r.zone \in Name /\ r.name \in Name BY <2>2, <2>3, RecordIs DEF LoadedOK
  <2>5. r.zone \in Path(m) BY <2>2, <2>4, InZoneSame DEF Inside
  <2>6. r.zone \in Path(d) BY <2>1, <2>5, PathTrans
  <2>7. r.zone \in ZonesOf(d) BY <1>2, <2>4, <2>6 DEF ZonesOf
  <2> QED BY <2>2, <2>4, <2>7
<1>6. Marked(d) = {} <=> ZonesOf(d) = {}
  <2>1. ASSUME NEW m \in Marked(d) PROVE ZonesOf(d) # {}
    <3>1. CASE m \in Zones BY <1>1, <1>2, <2>1, <3>1 DEF Marked, ZonesOf
    <3>2. CASE m \notin Zones BY <1>5, <2>1, <3>2
    <3> QED BY <3>1, <3>2
  <2> QED BY <1>4, <2>1
<1> QED BY <1>3, <1>4, <1>5, <1>6

NodeOf(d) == CASE Status(d) = "NOAUTH" -> {}
               [] Status(d) = "DELEG"  -> {LastMark(d)}
               [] Status(d) = "AUTH"   -> IF Deepest(d) = d THEN {d} ELSE Wildcard(d)

\* The response code a search stands for.
Found(status, node) ==
  IF status = "NOAUTH" THEN "REFUSED" ELSE IF status = "DELEG" \/ node # {} THEN "NOERROR" ELSE "NXDOMAIN"

\* The code the records call for is the one that the search of the tree stands for.
LEMMA ExpectedIs ==
  ASSUME TreeOK("run", tree, loaded), NEW d \in Name
  PROVE  ExpectedRcode(d) = Found(Status(d), NodeOf(d))
<1> DEFINE ZD == ZonesOf(d)
           MD == Marked(d)
           z == Longest(ZonesOf(d))
           m == LastMark(d)
           NSAbove == \E r \in loaded : r.type = "NS" /\ r.zone = z /\ r.name # z /\ InZone(d, r.name)
           E == {f \in Path(d) : Len(f) >= Len(z) /\ Exists(z, f)}
<1>1. /\ ZD \in SUBSET Path(d) /\ MD \in SUBSET Path(d) /\ ZD \subseteq MD /\ (MD = {} <=> ZD = {})
      /\ ZD = {n \in Path(d) \cap DOMAIN tree : "ZROOT" \in tree[n].flags}
      /\ \A x \in MD : x \notin Zones =>
              \E r \in loaded : r.type = "NS" /\ r.name = x /\ Inside(r) /\ r.zone \in ZD
  BY MarksIs
<1>1a. Shape(tree) /\ RootsOK("run", tree, loaded) BY DEF TreeOK
<1>2. CASE ZD = {}
  <2>1. Status(d) = "NOAUTH" BY <1>1, <1>2 DEF Status
  <2>2. ExpectedRcode(d) = "REFUSED" BY <1>2 DEF ExpectedRcode
  <2> QED BY <2>1, <2>2 DEF Found
<1>3. CASE ZD # {}
  <2>1. z \in ZD /\ \A y \in ZD : Len(y) <= Len(z) /\ y \in Path(z) BY <1>1, <1>3, LongestIs
  <2>2. m \in MD /\ \A x \in MD : Len(x) <= Len(m) /\ x \in Path(m) BY <1>1, <1>3, LongestIs DEF LastMark
  <2>3. /\ z \in Zones /\ z \in Name /\ z \in Path(d) /\ z \in DOMAIN tree /\ Len(z) \in Nat
        /\ m \in Name /\ m \in Path(d) /\ m \in DOMAIN tree /\ z \in Path(m) /\ Len(m) \in Nat
    <3>1. z \in Path(d) /\ m \in Path(d) /\ z \in MD /\ z \in DOMAIN tree BY <1>1, <2>1, <2>2
    <3>2. z \in Zones BY <2>1 DEF ZonesOf
    <3>3. m \in DOMAIN tree BY <2>2 DEF Marked
    <3> QED BY <2>2, <3>1, <3>2, <3>3, PathIs
  <2>4. ASSUME m \notin Zones PROVE NSAbove
    <3>1. PICK r \in loaded : r.type = "NS" /\ r.name = m /\ Inside(r) /\ r.zone \in ZD BY <1>1, <2>2, <2>4
    <3>2. r.zone \in Path(z) BY <2>1, <3>1
    <3>3. r.zone = z BY <2>3, <3>1, <3>2, RecordAbove
    <3>4. InZone(d, r.name) BY <2>3, <3>1, InZoneSame
    <3> QED BY <2>3, <2>4, <3>1, <3>3, <3>4
  <2>5. ASSUME m \in Zones PROVE ~NSAbove /\ m = z
    <3>0. m \in ZD BY <1>1a, <2>3, <2>5, InZoneSame DEF ZonesOf
    <3>1. Len(m) <= Len(z) BY <2>1, <3>0
    <3>2. Len(z) <= Len(m) BY <2>1, <2>2, <1>1
    <3>2a. Len(m) = Len(z) BY <2>3, <3>1, <3>2
    <3>3. m = z BY <2>3, <3>2a, PathSame
    <3>4. ASSUME NEW r \in loaded, r.type = "NS", r.zone = z, r.name # z, InZone(d, r.name) PROVE FALSE
      <4>1. LoadedOK(tree, r) BY DEF TreeOK
      <4>2. Inside(r) /\ r.name \in Name /\ r.name \in DOMAIN tree BY <3>4, <4>1, RecordIs DEF LoadedOK
      <4>3. r.name \in Path(d) /\ z \in Path(r.name) BY <2>3, <3>4, <4>2, InZoneSame DEF Inside
      <4>4. r.name \in MD
        <5>1. CASE r.name \in Zones
          <6>1. r.name \in ZD BY <3>4, <5>1 DEF ZonesOf
          <6> QED BY <1>1, <6>1
        <5>2. CASE r.name \notin Zones
          <6>1. Delegated(loaded, r.name) BY <3>4, <5>2 DEF Delegated
          <6>2. "DELEG" \in tree[r.name].flags BY <4>2, <6>1 DEF TreeOK
          <6> QED BY <4>2, <4>3, <6>2 DEF Marked
        <5> QED BY <5>1, <5>2
      <4>5. Len(r.name) <= Len(z) BY <2>2, <3>3, <4>4
      <4>6. Len(z) <= Len(r.name) /\ Len(r.name) \in Nat BY <4>2, <4>3, PathIs
      <4>7. Len(r.name) = Len(z) BY <2>3, <4>5, <4>6
      <4>8. r.name = z BY <2>3, <4>3, <4>7, PathSame
      <4> QED BY <3>4, <4>8
    <3> QED BY <3>3, <3>4
  <2>6. "ZROOT" \in tree[m].flags <=> m \in Zones BY <1>1a, <2>3 DEF RootsOK, Root
  <2>7. Status(d) = IF m \in Zones THEN "AUTH" ELSE "DELEG"
    <3>1. MD # {} BY <1>1, <1>3
    <3> QED BY <2>6, <3>1 DEF Status
  <2>8. CASE m \notin Zones
    <3>1. ExpectedRcode(d) = "NOERROR" BY <1>3, <2>4, <2>8 DEF ExpectedRcode
    <3> QED BY <2>7, <2>8, <3>1 DEF Found
  <2>9. CASE m \in Zones
    <3>0. Path(d) \cap DOMAIN tree \in SUBSET Path(d) /\ Path(d) \cap DOMAIN tree # {} BY <2>3
    <3>1. /\ Deepest(d) \in Path(d) \cap DOMAIN tree
          /\ \A x \in Path(d) \cap DOMAIN tree : Len(x) <= Len(Deepest(d)) /\ x \in Path(Deepest(d))
      BY <3>0, LongestIs DEF Deepest
    <3>2. Deepest(d) \in Name /\ Len(Deepest(d)) \in Nat /\ z \in Path(Deepest(d)) /\ Len(z) <= Len(Deepest(d))
      BY <2>3, <3>1, PathIs
    <3>3. ASSUME NEW f \in Path(d), Len(f) >= Len(z) PROVE Exists(z, f) <=> f \in DOMAIN tree
      <4>1. f \in Name /\ Len(f) \in Nat BY PathIs
      <4>2. z \in Path(f)
        <5>1. Len(z) <= Len(f) BY <2>3, <3>3, <4>1
        <5> QED BY <2>3, <5>1, PathLinear
      <4>3. ASSUME NEW y \in Zones, y \in Path(f) PROVE Len(y) <= Len(z)
        <5>1. y \in Path(d) BY <4>3, PathTrans
        <5>2. y \in ZD BY <5>1, InZoneSame, RecordsAssumption DEF ZonesOf
        <5> QED BY <2>1, <5>2
      <4> QED BY <2>3, <4>1, <4>2, <4>3, ExistsIs
    <3>4. Longest(E) = Deepest(d)
      <4>1. Deepest(d) \in E
        <5>1. Len(Deepest(d)) >= Len(z) BY <2>3, <3>2
        <5> QED BY <3>1, <3>3, <5>1
      <4>2. \A x \in E : Len(x) <= Len(Deepest(d)) BY <3>1, <3>3
      <4>3. E \in SUBSET Path(d) /\ E # {} BY <4>1
      <4> HIDE DEF E
      <4> QED BY <4>1, <4>2, <4>3, LongestIs
    <3>5. Exists(z, <<Star>> \o Deepest(d)) <=> Wildcard(d) # {}
      <4> DEFINE f == <<Star>> \o Deepest(d)
      <4>1. f \in Name /\ Path(f) = Path(Deepest(d)) \cup {f} BY <3>2, StarIs
      <4>2. z \in Path(f) BY <3>2, <4>1
      <4> HIDE DEF f
      <4>3. ASSUME NEW y \in Zones, y \in Path(f), y # f PROVE Len(y) <= Len(z)
        <5>1. y \in Path(d) BY <3>1, <4>1, <4>3, PathTrans
        <5>2. y \in ZD BY <5>1, InZoneSame, RecordsAssumption DEF ZonesOf
        <5> QED BY <2>1, <5>2
      <4>4. Exists(z, f) <=> f \in DOMAIN tree BY <2>3, <4>1, <4>2, <4>3, ExistsIs
      <4>5. Wildcard(d) = {f} \cap DOMAIN tree BY DEF Wildcard, f
      <4>6. Exists(z, f) <=> Wildcard(d) # {} BY <4>4, <4>5
      <4> QED BY <4>6 DEF f
    <3>6. ExpectedRcode(d) = IF Longest(E) = d \/ Exists(z, <<Star>> \o Longest(E)) THEN "NOERROR" ELSE "NXDOMAIN"
      BY <1>3, <2>5, <2>9 DEF ExpectedRcode
    <3>7. Status(d) = "AUTH" /\ NodeOf(d) = IF Deepest(d) = d THEN {d} ELSE Wildcard(d)
      BY <2>7, <2>9 DEF NodeOf
    <3> HIDE DEF E, z
    <3> QED BY <3>4, <3>5, <3>6, <3>7 DEF Found
  <2> QED BY <2>8, <2>9
<1> QED BY <1>2, <1>3

-----------------------------------------------------------------------------
(* The encoder leaves alone what decides on the response code and the      *)
(* chains: context y keeps these fields of context x.                      *)

Kept == {"status", "res", "auth", "via", "depth", "dyncs", "static", "cut", "rcode", "counted", "qname", "bad"}
IsContext(x) == Kept \subseteq DOMAIN x
KeepsAllBut(x, y) ==
  /\ DOMAIN y = DOMAIN x
  /\ y.status = x.status /\ y.res = x.res /\ y.auth = x.auth /\ y.via = x.via /\ y.depth = x.depth
  /\ y.static = x.static /\ y.cut = x.cut /\ y.rcode = x.rcode /\ y.counted = x.counted
Keeps(x, y) == KeepsAllBut(x, y) /\ y.dyncs = x.dyncs /\ y.qname = x.qname

LEMMA KeepsSelf == ASSUME NEW x PROVE Keeps(x, x)
BY DEF Keeps, KeepsAllBut

LEMMA KeepsTrans ==
  ASSUME NEW x, NEW y, NEW z, Keeps(x, y), Keeps(y, z)
  PROVE  Keeps(x, z)
BY DEF Keeps, KeepsAllBut

LEMMA KeepsContext == ASSUME NEW x, NEW y, IsContext(x), Keeps(x, y) PROVE IsContext(y)
BY DEF Keeps, KeepsAllBut, IsContext

LEMMA OwnerKeeps == ASSUME NEW x, IsContext(x), NEW orig, NEW ty PROVE Keeps(x, Owner(x, orig, ty))
BY DEF Owner, Keeps, KeepsAllBut, IsContext, Kept

LEMMA StoreNameKeeps == ASSUME NEW x, IsContext(x), NEW d PROVE Keeps(x, StoreName(x, d))
BY DEF StoreName, Keeps, KeepsAllBut, IsContext, Kept

LEMMA StoreTargetKeeps == ASSUME NEW x, IsContext(x), NEW ty, NEW d PROVE Keeps(x, StoreTarget(x, ty, d))
<1>1. Keeps(x, store_dname_nocomp(x, d)) BY DEF store_dname_nocomp, Keeps, KeepsAllBut, IsContext, Kept
<1> QED BY <1>1, StoreNameKeeps DEF StoreTarget

LEMMA MeanKeeps ==
  ASSUME NEW x, IsContext(x), NEW section, NEW owner, NEW ty, NEW names
  PROVE  Keeps(x, Mean(x, section, owner, ty, names))
BY DEF Mean, Keeps, KeepsAllBut, IsContext, Kept

LEMMA EncAddrsKeeps ==
  ASSUME NEW x, IsContext(x), NEW ty, NEW n, NEW orig, NEW owner, NEW is_addtl
  PROVE  Keeps(x, EncAddrs(x, ty, n, orig, owner, is_addtl))
BY DEF EncAddrs, PutAddrs, Keeps, KeepsAllBut, IsContext, Kept

LEMMA TrackKeeps ==
  ASSUME NEW x, IsContext(x), NEW ad
  PROVE  Keeps(x, track_addtl_rrset_unwind(x, ad))
BY DEF track_addtl_rrset_unwind, Keeps, KeepsAllBut, IsContext, Kept

LEMMA AnsaddrKeeps == ASSUME NEW x, IsContext(x), NEW v PROVE Keeps(x, [x EXCEPT !.ansaddr = v])
BY DEF Keeps, KeepsAllBut, IsContext, Kept

LEMMA GlueKeeps == ASSUME NEW x, IsContext(x) PROVE Keeps(x, [x EXCEPT !.glue = TRUE])
BY DEF Keeps, KeepsAllBut, IsContext, Kept

LEMMA PktKeeps == ASSUME NEW x, IsContext(x), NEW v PROVE Keeps(x, [x EXCEPT !.pkt = v])
BY DEF Keeps, KeepsAllBut, IsContext, Kept

LEMMA CountKeeps ==
  ASSUME NEW x, IsContext(x), NEW v
  PROVE  Keeps(x, [x EXCEPT !.an = v]) /\ Keeps(x, [x EXCEPT !.ns = v])
BY DEF Keeps, KeepsAllBut, IsContext, Kept

LEMMA CheckedKeeps == ASSUME NEW x, IsContext(x), NEW n, NEW ty PROVE Keeps(x, Checked(x, n, ty))
BY DEF Checked, Keeps, KeepsAllBut, IsContext, Kept

LEMMA AnyaddrKeeps ==
  ASSUME NEW x, IsContext(x), NEW ad, NEW orig, NEW owner, NEW is_addtl, NEW dr
  PROVE  Keeps(x, encode_rrs_anyaddr(x, ad, orig, owner, is_addtl, dr))
<1> DEFINE n == Limit(AddrRRset(ad), dr)
           y == IF is_addtl THEN x ELSE [x EXCEPT !.ansaddr = {ad}]
           w == EncAddrs(y, "A", n.v4, orig, owner, is_addtl)
<1>1. encode_rrs_anyaddr(x, ad, orig, owner, is_addtl, dr) = EncAddrs(w, "AAAA", n.v6, orig, owner, is_addtl)
  BY DEF encode_rrs_anyaddr
<1>2. Keeps(x, y) BY KeepsSelf, AnsaddrKeeps
<1> HIDE DEF y, n
<1>3. IsContext(y) /\ Keeps(y, w) BY <1>2, KeepsContext, EncAddrsKeeps
<1> HIDE DEF w
<1>4. IsContext(w) BY <1>3, KeepsContext
<1>5. Keeps(w, EncAddrs(w, "AAAA", n.v6, orig, owner, is_addtl)) BY <1>4, EncAddrsKeeps
<1>6. Keeps(x, w) BY <1>2, <1>3, KeepsTrans
<1> QED BY <1>1, <1>5, <1>6, KeepsTrans

LEMMA AddtlKeeps ==
  ASSUME NEW x, IsContext(x), NEW ad, NEW orig, NEW owner, NEW dr
  PROVE  Keeps(x, add_addtl_rrset(x, ad, orig, owner, dr))
<1> DEFINE y == track_addtl_rrset_unwind(x, ad)
           z == encode_rrs_anyaddr(y, ad, orig, owner, TRUE, dr)
<1>1. add_addtl_rrset(x, ad, orig, owner, dr) \in {x, z} BY DEF add_addtl_rrset
<1>2. Keeps(x, y) BY TrackKeeps
<1> HIDE DEF y
<1>3. Keeps(y, z) BY <1>2, KeepsContext, AnyaddrKeeps
<1> HIDE DEF z
<1>4. Keeps(x, z) BY <1>2, <1>3, KeepsTrans
<1> QED BY <1>1, <1>4, KeepsSelf

LEMMA AddrKeeps ==
  ASSUME NEW x, IsContext(x), NEW n, NEW dr
  PROVE  Keeps(x, encode_rrs_a(x, n, dr))
<1> DEFINE ad   == <<"tree", n>>
           lim  == Limit(AddrRRset(ad), dr)
           num  == Count(AddrRRset(ad), dr)
           y    == [x EXCEPT !.ansaddr = {ad}]
           both == IF q.qtype = "A" THEN [ty |-> "A", n |-> lim.v4, oty |-> "AAAA", on |-> lim.v6, has |-> num.v6]
                   ELSE [ty |-> "AAAA", n |-> lim.v6, oty |-> "A", on |-> lim.v4, has |-> num.v4]
           z    == EncAddrs(y, both.ty, both.n, y.qcomp, y.qname, FALSE)
           u    == track_addtl_rrset_unwind(z, ad)
           v    == EncAddrs(u, both.oty, both.on, z.qcomp, z.qname, TRUE)
<1>1. encode_rrs_a(x, n, dr) = IF both.has = 0 THEN z ELSE v BY Zenon DEF encode_rrs_a
<1> HIDE DEF both
<1>2. Keeps(x, y) BY AnsaddrKeeps
<1> HIDE DEF y
<1>3. Keeps(y, z) BY <1>2, KeepsContext, EncAddrsKeeps
<1> HIDE DEF z
<1>4. Keeps(x, z) /\ IsContext(z) BY <1>2, <1>3, KeepsTrans, KeepsContext
<1>5. Keeps(z, u) BY <1>4, TrackKeeps
<1> HIDE DEF u
<1>6. Keeps(x, u) /\ IsContext(u) BY <1>4, <1>5, KeepsTrans, KeepsContext
<1>7. Keeps(u, v) BY <1>6, EncAddrsKeeps
<1> HIDE DEF v
<1>8. Keeps(x, v) BY <1>6, <1>7, KeepsTrans
<1> QED BY <1>1, <1>4, <1>8

LEMMA TargetKeeps ==
  ASSUME NEW x, IsContext(x), NEW ty, NEW section, NEW orig, NEW owner, NEW rd, NEW dr
  PROVE  Keeps(x, EncTarget(x, ty, section, orig, owner, rd, dr))
<1> DEFINE y == Owner(x, orig, ty)
           s == StoreTarget(y, ty, rd.dname)
           z == Mean(s, section, owner, ty, <<rd.dname>>)
           h == [z EXCEPT !.glue = TRUE]
           g == IF rd.glue THEN h ELSE z
           a == add_addtl_rrset(g, CHOOSE ad \in rd.ad : TRUE, Len(y.pkt) + 1, rd.dname, dr)
<1>1. EncTarget(x, ty, section, orig, owner, rd, dr) = IF rd.ad = {} THEN g ELSE a
  BY Zenon DEF EncTarget, AddrsOf, MarkGlue
<1>2. Keeps(x, y) BY OwnerKeeps
<1> HIDE DEF y
<1>3. Keeps(y, s) BY <1>2, KeepsContext, StoreTargetKeeps
<1> HIDE DEF s
<1>4. Keeps(x, s) /\ IsContext(s) BY <1>2, <1>3, KeepsTrans, KeepsContext
<1>5. Keeps(s, z) BY <1>4, MeanKeeps
<1> HIDE DEF z
<1>6. Keeps(x, z) /\ IsContext(z) BY <1>4, <1>5, KeepsTrans, KeepsContext
<1>7. Keeps(z, h) BY <1>6, GlueKeeps
<1> HIDE DEF h
<1>8. Keeps(x, h) BY <1>6, <1>7, KeepsTrans
<1>9. Keeps(x, g) BY <1>6, <1>8
<1> HIDE DEF g
<1>10. IsContext(g) BY <1>9, KeepsContext
<1>11. Keeps(g, a) BY <1>10, AddtlKeeps
<1> HIDE DEF a
<1>12. Keeps(x, a) BY <1>9, <1>11, KeepsTrans
<1> QED BY <1>1, <1>9, <1>12

LEMMA SoaKeeps ==
  ASSUME NEW x, IsContext(x), NEW r, NEW answer
  PROVE  Keeps(x, encode_rr_soa(x, r, answer))
<1> DEFINE o == Owner(x, x.acomp, "SOA")
           s == StoreName(o, r.rdata[1].dname)
           y == StoreName(s, r.rdata[2].dname)
           p == [y EXCEPT !.pkt = Append(@, Data)]
           z == Mean(p, IF answer THEN "an" ELSE "ns", x.aname, "SOA", <<r.rdata[1].dname, r.rdata[2].dname>>)
<1>1. encode_rr_soa(x, r, answer) = IF answer THEN [z EXCEPT !.an = @ + 1] ELSE [z EXCEPT !.ns = @ + 1]
  BY Zenon DEF encode_rr_soa
<1>2. Keeps(x, o) BY OwnerKeeps
<1> HIDE DEF o
<1>3. Keeps(o, s) BY <1>2, KeepsContext, StoreNameKeeps
<1> HIDE DEF s
<1>4. Keeps(x, s) /\ IsContext(s) BY <1>2, <1>3, KeepsTrans, KeepsContext
<1>5. Keeps(s, y) BY <1>4, StoreNameKeeps
<1> HIDE DEF y
<1>6. Keeps(x, y) /\ IsContext(y) BY <1>4, <1>5, KeepsTrans, KeepsContext
<1>7. Keeps(y, p) BY <1>6, PktKeeps
<1> HIDE DEF p
<1>8. Keeps(x, p) /\ IsContext(p) BY <1>6, <1>7, KeepsTrans, KeepsContext
<1>9. Keeps(p, z) BY <1>8, MeanKeeps
<1> HIDE DEF z
<1>10. Keeps(x, z) /\ IsContext(z) BY <1>8, <1>9, KeepsTrans, KeepsContext
<1>11. Keeps(z, [z EXCEPT !.an = @ + 1]) /\ Keeps(z, [z EXCEPT !.ns = @ + 1]) BY <1>10, CountKeeps
<1> QED BY <1>1, <1>10, <1>11, KeepsTrans

-----------------------------------------------------------------------------
(* The loops over records: step i of the loop a, and n steps from b on.    *)

Step(a, v, i) ==
  CASE a.kind = "targets" -> EncTarget(v, a.ty, a.section, a.orig, a.owner, a.rds[i], a.dr)
    [] a.kind = "txt"     -> Mean([Owner(v, a.orig, "TXT") EXCEPT !.pkt = Append(@, Data)], "an", a.owner, "TXT", <<>>)
    [] a.kind = "any"     -> Encode(v, a.n, a.rds[i], a.start, a.dr, <<>>)
    [] a.kind = "match"   -> BetterMatch(a.d, v, a.rds[i])

IsLoop(f, b, a, n) == f = [i \in 0..n |-> IF i = 0 THEN b ELSE Step(a, f[i-1], i)]

\* The loops over the records of a rrset, as one recursive function.
LEMMA LoopDefined ==
  ASSUME NEW b, NEW a, NEW n \in Nat
  PROVE  \E f : IsLoop(f, b, a, n)
<1> DEFINE T == {j \in Nat : \E f : IsLoop(f, b, a, j)}
<1>1. \E f : IsLoop(f, b, a, 0)
  <2> DEFINE f == [i \in 0..0 |-> b]
  <2>1. f = [i \in 0..0 |-> IF i = 0 THEN b ELSE Step(a, f[i-1], i)] OBVIOUS
  <2> QED BY <2>1 DEF IsLoop
<1>2. ASSUME NEW j \in Nat, \E f : IsLoop(f, b, a, j) PROVE \E f : IsLoop(f, b, a, j + 1)
  <2>1. PICK f : f = [i \in 0..j |-> IF i = 0 THEN b ELSE Step(a, f[i-1], i)] BY <1>2 DEF IsLoop
  <2> DEFINE v == Step(a, f[j], j + 1)
             g == [i \in 0..(j + 1) |-> IF i = j + 1 THEN v ELSE f[i]]
             h == [i \in 0..(j + 1) |-> IF i = 0 THEN b ELSE Step(a, g[i-1], i)]
  <2>2. ASSUME NEW i \in 0..(j + 1) PROVE g[i] = h[i]
    <3>1. CASE i = j + 1
      <4>1. i # 0 /\ i - 1 = j /\ j \in 0..(j + 1) /\ j # j + 1 BY <3>1
      <4>2. g[j] = f[j] BY <4>1
      <4> QED BY <3>1, <4>1, <4>2
    <3>2. CASE i # j + 1
      <4>1. i \in 0..j BY <3>2
      <4>2. g[i] = f[i] BY <3>2
      <4>3. f[i] = IF i = 0 THEN b ELSE Step(a, f[i-1], i) BY <2>1, <4>1
      <4>4. i # 0 => i - 1 \in 0..(j + 1) /\ i - 1 # j + 1 BY <4>1
      <4>5. i # 0 => g[i-1] = f[i-1] BY <4>4
      <4>6. h[i] = IF i = 0 THEN b ELSE Step(a, g[i-1], i) OBVIOUS
      <4> HIDE DEF g, h
      <4> QED BY <4>2, <4>3, <4>5, <4>6
    <3> QED BY <3>1, <3>2
  <2>3. g = h
    <3>1. DOMAIN g = 0..(j + 1) /\ DOMAIN h = 0..(j + 1) OBVIOUS
    <3> QED BY <2>2
  <2> HIDE DEF v
  <2>4. IsLoop(g, b, a, j + 1) BY <2>3 DEF IsLoop
  <2> QED BY <2>4
<1>3. T \in SUBSET Nat /\ 0 \in T /\ \A j \in Nat : j \in T => j + 1 \in T BY <1>1, <1>2
<1>4. Nat \subseteq T BY <1>3, Induction
<1> QED BY <1>4

LEMMA LoopKeeps ==
  ASSUME NEW b, NEW a, NEW n \in Nat, NEW f, IsLoop(f, b, a, n), IsContext(b),
         \A v : \A i \in 1..n : IsContext(v) => Keeps(v, Step(a, v, i))
  PROVE  Keeps(b, f[n])
<1> DEFINE T == {j \in Nat : j <= n => Keeps(b, f[j])}
<1>1. 0 \in T
  <2>1. f[0] = b BY DEF IsLoop
  <2> QED BY <2>1, KeepsSelf
<1>2. ASSUME NEW j \in Nat, j \in T PROVE j + 1 \in T
  <2>1. SUFFICES ASSUME j + 1 <= n PROVE Keeps(b, f[j + 1]) OBVIOUS
  <2>2. j + 1 \in 0..n /\ j + 1 \in 1..n /\ j + 1 # 0 /\ (j + 1) - 1 = j /\ j <= n BY <2>1
  <2>3. f[j + 1] = Step(a, f[j], j + 1)
    <3>1. f[j + 1] = Step(a, f[(j + 1) - 1], j + 1) BY <2>2 DEF IsLoop
    <3> QED BY <2>2, <3>1
  <2>4. Keeps(b, f[j]) BY <1>2, <2>2
  <2>5. IsContext(f[j]) BY <2>4, KeepsContext
  <2>6. Keeps(f[j], f[j + 1]) BY <2>2, <2>3, <2>5
  <2> QED BY <2>4, <2>6, KeepsTrans
<1>3. Nat \subseteq T BY <1>1, <1>2, Induction
<1> QED BY <1>3

LEMMA TargetsKeep ==
  ASSUME NEW x, IsContext(x), NEW ty, NEW section, NEW orig, NEW owner, NEW rds, Len(rds) \in Nat, NEW dr
  PROVE  Keeps(x, EncTargets(x, ty, section, orig, owner, rds, dr))
<1> DEFINE a == [kind |-> "targets", ty |-> ty, section |-> section, orig |-> orig, owner |-> owner,
                 rds |-> rds, dr |-> dr]
           F(f) == f = [i \in 0..Len(rds) |->
                          IF i = 0 THEN x ELSE EncTarget(f[i-1], ty, section, orig, owner, rds[i], dr)]
           g == CHOOSE f : F(f)
<1>1. \A v, i : Step(a, v, i) = EncTarget(v, ty, section, orig, owner, rds[i], dr) BY DEF Step
<1> HIDE DEF a
<1>2. \A f : F(f) <=> IsLoop(f, x, a, Len(rds)) BY <1>1 DEF IsLoop
<1>3. EncTargets(x, ty, section, orig, owner, rds, dr) = g[Len(rds)] BY DEF EncTargets
<1> HIDE DEF F
<1>4. \E f : F(f) BY <1>2, LoopDefined
<1>5. F(g) BY <1>4
<1> HIDE DEF g
<1>6. IsLoop(g, x, a, Len(rds)) BY <1>2, <1>5
<1>7. \A v : \A i \in 1..Len(rds) : IsContext(v) => Keeps(v, Step(a, v, i)) BY <1>1, TargetKeeps
<1> QED BY <1>3, <1>6, <1>7, LoopKeeps

LEMMA RotatedIs == ASSUME NEW s, IsSeq(s), NEW start PROVE Len(Rotated(s, start)) \in Nat
<1> DEFINE m == Rotated(s, start)
<1>1. DOMAIN m = DOMAIN s /\ m = [i \in DOMAIN s |-> m[i]] BY DEF Rotated
<1> HIDE DEF m
<1>2. Len(m) = Len(s) BY <1>1, MapIs
<1> QED BY <1>2 DEF IsSeq, m

LEMMA NsKeeps ==
  ASSUME NEW x, IsContext(x), NEW r, IsSeq(r.rdata), NEW answer, NEW start, NEW dr
  PROVE  Keeps(x, encode_rrs_ns(x, r, answer, start, dr))
<1> DEFINE y == EncTargets(x, "NS", IF answer THEN "an" ELSE "ns", x.acomp, x.aname, Rotated(r.rdata, start), dr)
           u == [y EXCEPT !.an = @ + Len(r.rdata)]
           v == [y EXCEPT !.ns = @ + Len(r.rdata)]
<1>1. encode_rrs_ns(x, r, answer, start, dr) = IF answer THEN u ELSE v BY Zenon DEF encode_rrs_ns, Counted
<1>2. Keeps(x, y) BY RotatedIs, TargetsKeep
<1> HIDE DEF y
<1>3. Keeps(y, u) /\ Keeps(y, v) BY <1>2, KeepsContext, CountKeeps
<1> HIDE DEF u, v
<1> QED BY <1>1, <1>2, <1>3, KeepsTrans

LEMMA MxKeeps ==
  ASSUME NEW x, IsContext(x), NEW r, IsSeq(r.rdata), NEW start, NEW dr
  PROVE  Keeps(x, encode_rrs_mx(x, r, start, dr))
<1> DEFINE y == EncTargets(x, r.type, "an", x.qcomp, x.qname,
                           Rotated(r.rdata, IF r.type = "SRV" THEN 1 ELSE start), dr)
           u == [y EXCEPT !.an = @ + Len(r.rdata)]
<1>1. encode_rrs_mx(x, r, start, dr) = u BY Zenon DEF encode_rrs_mx, Counted
<1>2. Keeps(x, y) BY RotatedIs, TargetsKeep
<1> HIDE DEF y
<1>3. Keeps(y, u) BY <1>2, KeepsContext, CountKeeps
<1> HIDE DEF u
<1> QED BY <1>1, <1>2, <1>3, KeepsTrans

LEMMA TxtKeeps ==
  ASSUME NEW x, IsContext(x), NEW r, IsSeq(r.rdata)
  PROVE  Keeps(x, encode_rrs_txt(x, r))
<1> DEFINE n == Len(r.rdata)
           a == [kind |-> "txt", orig |-> x.qcomp, owner |-> x.qname]
           P(v) == [Owner(v, x.qcomp, "TXT") EXCEPT !.pkt = Append(@, Data)]
           M(v) == Mean(P(v), "an", x.qname, "TXT", <<>>)
           F(f) == f = [i \in 0..n |-> IF i = 0 THEN x ELSE M(f[i-1])]
           g == CHOOSE f : F(f)
           u == [g[n] EXCEPT !.an = @ + n]
<1>0. n \in Nat BY DEF IsSeq
<1>1. \A v, i : Step(a, v, i) = M(v) BY DEF Step
<1>2. encode_rrs_txt(x, r) = u BY Zenon DEF encode_rrs_txt
<1>3. ASSUME NEW v, IsContext(v) PROVE Keeps(v, M(v))
  <2> DEFINE o == Owner(v, x.qcomp, "TXT")
             p == P(v)
  <2>1. Keeps(v, o) BY <1>3, OwnerKeeps
  <2>2. p = [o EXCEPT !.pkt = Append(@, Data)] OBVIOUS
  <2> HIDE DEF o, p, P
  <2>3. Keeps(o, p) BY <1>3, <2>1, <2>2, KeepsContext, PktKeeps
  <2>4. Keeps(v, p) BY <2>1, <2>3, KeepsTrans
  <2>5. Keeps(p, Mean(p, "an", x.qname, "TXT", <<>>)) BY <1>3, <2>4, KeepsContext, MeanKeeps
  <2> QED BY <2>4, <2>5, KeepsTrans DEF p
<1> HIDE DEF a, M
<1>4. \A f : F(f) <=> IsLoop(f, x, a, n) BY <1>1 DEF IsLoop
<1> HIDE DEF F, n
<1>5. \E f : F(f) BY <1>0, <1>4, LoopDefined
<1>6. F(g) BY <1>5
<1> HIDE DEF g
<1>7. IsLoop(g, x, a, n) BY <1>4, <1>6
<1>8. \A v : \A i \in 1..n : IsContext(v) => Keeps(v, Step(a, v, i)) BY <1>1, <1>3
<1>9. Keeps(x, g[n]) BY <1>0, <1>7, <1>8, LoopKeeps
<1>10. Keeps(g[n], u) BY <1>9, KeepsContext, CountKeeps
<1> HIDE DEF u
<1> QED BY <1>2, <1>9, <1>10, KeepsTrans

LEMMA EncodeKeeps ==
  ASSUME NEW x, IsContext(x), NEW n, NEW r, IsRR(r), r.type # "CNAME", NEW start, NEW dr, NEW d
  PROVE  Keeps(x, Encode(x, n, r, start, dr, d))
<1>0. r.type \in {"A", "SOA", "NS", "CNAME", "MX", "SRV", "TXT"} /\ IsSeq(r.rdata) BY DEF IsRR
<1>1. CASE r.type = "A" BY <1>1, KeepsSelf, AddrKeeps DEF Encode
<1>2. CASE r.type = "SOA" BY <1>2, SoaKeeps DEF Encode
<1>3. CASE r.type = "NS" BY <1>0, <1>3, NsKeeps DEF Encode
<1>4. CASE r.type \in {"MX", "SRV"} BY <1>0, <1>4, MxKeeps DEF Encode
<1>5. CASE r.type = "TXT" BY <1>0, <1>5, TxtKeeps DEF Encode
<1> QED BY <1>0, <1>1, <1>2, <1>3, <1>4, <1>5

LEMMA AnyKeeps ==
  ASSUME NEW x, IsContext(x), NEW n, IsNode(tree[n]), ~Has(tree[n], "CNAME"), NEW start, NEW dr
  PROVE  Keeps(x, encode_rrs_any(x, n, start, dr))
<1> DEFINE rs == tree[n].rrsets
           b == IF Has(tree[n], "A") THEN encode_rrs_anyaddr(x, <<"tree", n>>, x.qcomp, x.qname, FALSE, dr) ELSE x
           a == [kind |-> "any", n |-> n, rds |-> rs, start |-> start, dr |-> dr]
           F(f) == f = [i \in 0..Len(rs) |-> IF i # 0 THEN Encode(f[i-1], n, rs[i], start, dr, <<>>) ELSE b]
           g == CHOOSE f : F(f)
<1>0. Len(rs) \in Nat /\ \A i \in 1..Len(rs) : IsRR(rs[i]) /\ rs[i].type # "CNAME" BY HasIs DEF IsNode, IsSeq
<1>1. \A v, i : Step(a, v, i) = Encode(v, n, rs[i], start, dr, <<>>) BY DEF Step
<1>2. encode_rrs_any(x, n, start, dr) = g[Len(rs)] BY Zenon DEF encode_rrs_any
<1>3. Keeps(x, b) BY AnyaddrKeeps, KeepsSelf
<1> HIDE DEF a, b, rs
<1>4. \A f : F(f) <=> IsLoop(f, b, a, Len(rs)) BY <1>1 DEF IsLoop
<1> HIDE DEF F
<1>5. \E f : F(f) BY <1>0, <1>4, LoopDefined
<1>6. F(g) BY <1>5
<1> HIDE DEF g
<1>7. IsLoop(g, b, a, Len(rs)) BY <1>4, <1>6
<1>8. \A v : \A i \in 1..Len(rs) : IsContext(v) => Keeps(v, Step(a, v, i)) BY <1>0, <1>1, EncodeKeeps
<1>9. IsContext(b) BY <1>3, KeepsContext
<1>10. Keeps(b, g[Len(rs)]) BY <1>0, <1>7, <1>8, <1>9, LoopKeeps
<1> QED BY <1>2, <1>3, <1>10, KeepsTrans

\* The RR of a CNAME; a link of a chain also moves on to its target.
LEMMA CnameRR ==
  ASSUME NEW x, IsContext(x), NEW d
  PROVE  Keeps(x, Mean(StoreName(Owner(x, x.qcomp, "CNAME"), d), "an", x.qname, "CNAME", <<d>>))
<1> DEFINE o == Owner(x, x.qcomp, "CNAME")
           s == StoreName(o, d)
           z == Mean(s, "an", x.qname, "CNAME", <<d>>)
<1>1. Keeps(x, o) BY OwnerKeeps
<1> HIDE DEF o
<1>2. Keeps(o, s) BY <1>1, KeepsContext, StoreNameKeeps
<1> HIDE DEF s
<1>3. Keeps(x, s) /\ IsContext(s) BY <1>1, <1>2, KeepsTrans, KeepsContext
<1>4. Keeps(s, z) BY <1>3, MeanKeeps
<1> HIDE DEF z
<1>5. Keeps(x, z) BY <1>3, <1>4, KeepsTrans
<1> QED BY <1>5 DEF z, s, o

LEMMA CnameAnswered ==
  ASSUME NEW x, IsContext(x), NEW d
  PROVE  Keeps(x, encode_rr_cname(x, d, TRUE))
<1> DEFINE z == Mean(StoreName(Owner(x, x.qcomp, "CNAME"), d), "an", x.qname, "CNAME", <<d>>)
           w == [z EXCEPT !.an = @ + 1]
<1>1. encode_rr_cname(x, d, TRUE) = w BY Zenon DEF encode_rr_cname
<1>2. Keeps(x, z) BY CnameRR
<1> HIDE DEF z
<1>3. Keeps(z, w) BY <1>2, KeepsContext, CountKeeps
<1> HIDE DEF w
<1> QED BY <1>1, <1>2, <1>3, KeepsTrans

LEMMA CnameFollowed ==
  ASSUME NEW x, IsContext(x), NEW d, NEW y, y = encode_rr_cname(x, d, FALSE)
  PROVE  KeepsAllBut(x, y) /\ y.dyncs = x.dyncs /\ y.qname = d
<1> DEFINE o == Owner(x, x.qcomp, "CNAME")
           z == Mean(StoreName(o, d), "an", x.qname, "CNAME", <<d>>)
<1>1. y = [z EXCEPT !.qcomp = Len(o.pkt) + 1, !.qname = d, !.cn = @ + 1] BY Zenon DEF encode_rr_cname
<1>2. Keeps(x, z) BY CnameRR
<1> HIDE DEF z, o
<1>3. IsContext(z) BY <1>2, KeepsContext
<1>4. KeepsAllBut(z, y) /\ y.dyncs = z.dyncs /\ y.qname = d
  BY <1>1, <1>3 DEF IsContext, Kept, KeepsAllBut
<1> QED BY <1>2, <1>4 DEF Keeps, KeepsAllBut

-----------------------------------------------------------------------------
(* What search_ltree() finds in a tree t.                                  *)

RootsIn(t, d) == {n \in Path(d) \cap DOMAIN t : "ZROOT" \in t[n].flags}
AuthIn(t, d) == {n \in RootsIn(t, d) : \A m \in RootsIn(t, d) : Len(m) <= Len(n)}
NodeFound(t, d) ==
  CASE StatusIn(t, d) = "NOAUTH" -> {}
    [] StatusIn(t, d) = "DELEG"  -> {Longest(MarkedIn(t, d))}
    [] StatusIn(t, d) = "AUTH"   -> NodeIn(t, d)

\* search_ltree() in terms of the tree it searches.
LEMMA SearchIs ==
  ASSUME NEW d, NEW checkroot
  PROVE  /\ search_ltree(d, checkroot).status = StatusIn(tree, d)
         /\ search_ltree(d, checkroot).node = NodeFound(tree, d)
         /\ search_ltree(d, checkroot).auth = AuthIn(tree, d)
         /\ search_ltree(d, checkroot).crossed <=> checkroot \subseteq Path(d)
<1>1. Status(d) = StatusIn(tree, d) /\ LastMark(d) = Longest(MarkedIn(tree, d))
      /\ (IF Deepest(d) = d THEN {d} ELSE Wildcard(d)) = NodeIn(tree, d)
  BY DEF Status, StatusIn, Marked, MarkedIn, LastMark, Deepest, DeepestIn, Wildcard, NodeIn
<1> DEFINE node == CASE Status(d) = "NOAUTH" -> {}
                     [] Status(d) = "DELEG"  -> {LastMark(d)}
                     [] Status(d) = "AUTH"   -> IF Deepest(d) = d THEN {d} ELSE Wildcard(d)
           roots == {n \in Path(d) \cap DOMAIN tree : "ZROOT" \in tree[n].flags}
           auth == {n \in roots : \A m \in roots : Len(m) <= Len(n)}
<1>2. node = NodeFound(tree, d) BY <1>1 DEF NodeFound
<1>3. auth = AuthIn(tree, d) BY DEF AuthIn, RootsIn
<1> DEFINE s == search_ltree(d, checkroot)
<1>4. s.status = Status(d) /\ s.node = node /\ s.auth = auth /\ (s.crossed <=> checkroot \subseteq Path(d))
  <2> HIDE DEF node, auth
  <2>1. s = [status |-> Status(d), auth |-> auth, node |-> node,
             depth |-> IF Marked(d) = {} THEN 0 ELSE Len(d) - Len(LastMark(d)),
             mark |-> IF Marked(d) = {} THEN <<>> ELSE LastMark(d),
             crossed |-> checkroot \subseteq Path(d)]
    BY Zenon DEF search_ltree, node, auth
  <2> HIDE DEF s
  <2> QED BY <2>1
<1> HIDE DEF s, node, auth
<1>5. /\ s.status = StatusIn(tree, d) /\ s.node = NodeFound(tree, d) /\ s.auth = AuthIn(tree, d)
      /\ s.crossed <=> checkroot \subseteq Path(d)
  BY <1>1, <1>2, <1>3, <1>4
<1> QED BY <1>5 DEF s

LEMMA ExpectedFound ==
  ASSUME TreeOK("run", tree, loaded), NEW d \in Name
  PROVE  ExpectedRcode(d) = Found(StatusIn(tree, d), NodeFound(tree, d))
<1>1. Status(d) = StatusIn(tree, d) /\ NodeOf(d) = NodeFound(tree, d)
  BY SearchIs DEF search_ltree, NodeOf
<1> QED BY <1>1, ExpectedIs

LEMMA StatusIs ==
  ASSUME NEW t, NEW d
  PROVE  StatusIn(t, d) \in {"NOAUTH", "DELEG", "AUTH"}
BY DEF StatusIn

\* The authority of a name is its longest zone.
LEMMA AuthIs ==
  ASSUME NEW t, NEW ld, TreeOK("run", t, ld), NEW d \in Name, StatusIn(t, d) # "NOAUTH"
  PROVE  \E z : /\ AuthIn(t, d) = {z} /\ z \in Path(d) /\ Root(t, z) /\ z \in Name
                /\ \A y \in Path(d) : Root(t, y) => y \in Path(z)
<1> DEFINE R == RootsIn(t, d)
           z == Longest(R)
<1>0. Shape(t) /\ RootsOK("run", t, ld) BY DEF TreeOK
<1>1. R \in SUBSET Path(d) /\ \A y : y \in R <=> y \in Path(d) /\ Root(t, y) BY DEF RootsIn, Root
<1>2. R # {}
  <2>1. PICK m \in MarkedIn(t, d) : TRUE BY DEF StatusIn
  <2>2. m \in Path(d) /\ m \in DOMAIN t /\ ("ZROOT" \in t[m].flags \/ "DELEG" \in t[m].flags) BY <2>1 DEF MarkedIn
  <2>3. CASE "ZROOT" \in t[m].flags BY <1>1, <2>2, <2>3 DEF Root
  <2>4. CASE "DELEG" \in t[m].flags
    <3>1. PICK r \in ld : r.type = "NS" /\ r.name = m BY <2>2, <2>4 DEF TreeOK, Delegated
    <3>2. LoadedOK(t, r) BY DEF TreeOK
    <3>3. Inside(r) /\ r.zone \in Zones /\ r.zone \in Name /\ r.name \in Name BY <3>1, <3>2, RecordIs DEF LoadedOK
    <3>4. r.zone \in Path(m) BY <3>1, <3>3, InZoneSame DEF Inside
    <3>5. r.zone \in Path(d) /\ Root(t, r.zone) BY <1>0, <2>2, <3>3, <3>4, PathTrans DEF RootsOK
    <3> QED BY <1>1, <3>5
  <2> QED BY <2>2, <2>3, <2>4
<1>3. /\ z \in R /\ \A m \in R : Len(m) <= Len(z) /\ m \in Path(z)
      /\ \A n \in R : (\A m \in R : Len(m) <= Len(n)) => n = z
  BY <1>1, <1>2, LongestIs
<1> HIDE DEF z, R
<1>4. AuthIn(t, d) = {z}
  <2>1. AuthIn(t, d) = {n \in R : \A m \in R : Len(m) <= Len(n)} BY DEF AuthIn, R
  <2> QED BY <1>3, <2>1
<1>5. z \in Path(d) /\ Root(t, z) /\ z \in Name BY <1>1, <1>3, PathIs
<1>6. \A y \in Path(d) : Root(t, y) => y \in Path(z) BY <1>1, <1>3
<1> QED BY <1>4, <1>5, <1>6

\* What a search finds is one node of the tree, with the authority above it.
LEMMA NodeFoundIs ==
  ASSUME NEW t, NEW ld, TreeOK("run", t, ld), NEW d \in Name, NEW n \in NodeFound(t, d)
  PROVE  /\ NodeFound(t, d) = {n} /\ n \in DOMAIN t /\ "AUTH" \in t[n].flags
         /\ StatusIn(t, d) = "DELEG" => DelegIn(t, n) # {}
         /\ StatusIn(t, d) = "AUTH" => n \in NodeIn(t, d)
         /\ Has(t[n], "CNAME") => /\ Root(t, RootOf(t, n))
                                  /\ \A a \in AuthIn(t, d) : RootOf(t, n) \in Path(a)
<1>0. Shape(t) /\ RootsOK("run", t, ld) BY DEF TreeOK
<1>1. StatusIn(t, d) \in {"DELEG", "AUTH"} BY StatusIs DEF NodeFound
<1>2. PICK z : /\ AuthIn(t, d) = {z} /\ z \in Path(d) /\ Root(t, z) /\ z \in Name
               /\ \A y \in Path(d) : Root(t, y) => y \in Path(z)
  BY <1>1, AuthIs
<1>3. MarkedIn(t, d) \in SUBSET Path(d) /\ z \in MarkedIn(t, d) BY <1>2 DEF MarkedIn, Root
<1> DEFINE m == Longest(MarkedIn(t, d))
           e == DeepestIn(t, d)
           w == <<Star>> \o e
<1>4. m \in MarkedIn(t, d) /\ \A x \in MarkedIn(t, d) : x \in Path(m) BY <1>3, LongestIs
<1>5. e \in Path(d) \cap DOMAIN t /\ \A x \in Path(d) \cap DOMAIN t : x \in Path(e)
  <2>1. Path(d) \cap DOMAIN t \in SUBSET Path(d) /\ z \in Path(d) \cap DOMAIN t BY <1>2 DEF Root
  <2> QED BY <2>1, LongestIs DEF DeepestIn
<1>6. e \in Name /\ z \in Path(e) /\ z \in Path(m) /\ m \in Path(d) /\ m \in DOMAIN t /\ m \in Name
  BY <1>2, <1>3, <1>4, <1>5, PathIs DEF MarkedIn, Root
<1>7. w \in Name /\ Path(w) = Path(e) \cup {w} BY <1>6, StarIs
<1> HIDE DEF m, e, w
<1>8. NodeFound(t, d) = {n} /\ n \in DOMAIN t /\ z \in Path(n) /\ (n \in Path(d) \/ (n = w /\ n \notin Path(e)))
      /\ (StatusIn(t, d) = "AUTH" => n \in NodeIn(t, d))
      /\ (StatusIn(t, d) = "DELEG" => n = m)
  <2>1. CASE StatusIn(t, d) = "DELEG"
    <3>1. NodeFound(t, d) = {m} BY <2>1 DEF NodeFound, m
    <3> QED BY <1>6, <2>1, <3>1
  <2>2. CASE StatusIn(t, d) = "AUTH"
    <3>1. NodeFound(t, d) = NodeIn(t, d) BY <2>2 DEF NodeFound
    <3>2. NodeIn(t, d) = IF e = d THEN {d} ELSE {w} \cap DOMAIN t BY DEF NodeIn, e, w
    <3>3. CASE e = d BY <1>2, <1>5, <2>2, <3>1, <3>2, <3>3, PathSelf
    <3>4. CASE e # d
      <4>1. n = w /\ n \in DOMAIN t /\ NodeFound(t, d) = {n} BY <3>1, <3>2, <3>4
      <4>2. w \notin Path(e)
        <5>1. Len(w) = Len(e) + 1 /\ Len(e) \in Nat BY <1>6, StarIs DEF w, Name
        <5>2. w \in Path(e) => Len(w) <= Len(e) BY <1>6, PathIs
        <5>3. ~(Len(w) <= Len(e)) BY <5>1
        <5> QED BY <5>2, <5>3
      <4> QED BY <1>6, <1>7, <2>2, <3>1, <4>1, <4>2
    <3> QED BY <3>3, <3>4
  <2> QED BY <1>1, <2>1, <2>2
<1>9. "AUTH" \in t[n].flags BY <1>0, <1>2, <1>8 DEF Shape
<1>10. n \in Name /\ Path(n) \subseteq DOMAIN t BY <1>0, <1>8 DEF Shape
<1> DEFINE P == {x \in Path(n) : "ZROOT" \in t[x].flags}
<1>11. P \in SUBSET Path(n) /\ z \in P BY <1>2, <1>8 DEF Root
<1>12. RootOf(t, n) \in P /\ \A x \in P : x \in Path(RootOf(t, n))
  <2> HIDE DEF P
  <2>1. Longest(P) \in P /\ \A x \in P : x \in Path(Longest(P)) BY <1>10, <1>11, LongestIs
  <2> QED BY <2>1 DEF RootOf, P
<1>13. Root(t, RootOf(t, n)) /\ RootOf(t, n) \in Path(n) BY <1>10, <1>12 DEF Root
<1>14. ASSUME Has(t[n], "CNAME") PROVE RootOf(t, n) \in Path(z)
  <2>1. RootOf(t, n) # n BY <1>8, <1>13, <1>14 DEF TreeOK
  <2>2. RootOf(t, n) \in Path(d)
    <3>1. CASE n \in Path(d) BY <1>13, <3>1, PathTrans
    <3>2. CASE n = w
      <4>1. RootOf(t, n) \in Path(e) BY <1>7, <1>13, <2>1, <3>2
      <4> QED BY <1>5, <4>1, PathTrans
    <3> QED BY <1>8, <3>1, <3>2
  <2> QED BY <1>2, <1>13, <2>2
<1>15. ASSUME StatusIn(t, d) = "DELEG" PROVE DelegIn(t, n) # {}
  <2>1. n = m BY <1>8, <1>15
  <2>2. ~("ZROOT" \in t[m].flags) BY <1>15 DEF StatusIn, m
  <2>3. "DELEG" \in t[m].flags BY <1>4, <2>2 DEF MarkedIn
  <2>4. RootOf(t, n) # n BY <1>13, <2>1, <2>2 DEF Root
  <2>5. Len(RootOf(t, n)) \in Nat /\ Len(n) \in Nat /\ Len(RootOf(t, n)) <= Len(n) BY <1>10, <1>13, PathIs DEF Name
  <2>6. Len(RootOf(t, n)) # Len(n) BY <1>10, <1>13, <2>4, PathSame, PathSelf
  <2>7. Len(n) > Len(RootOf(t, n)) BY <2>5, <2>6
  <2>8. n \in DelegIn(t, n) BY <1>10, <2>1, <2>3, <2>7, PathSelf DEF DelegIn
  <2> QED BY <2>8
<1> QED BY <1>2, <1>8, <1>9, <1>13, <1>14, <1>15

-----------------------------------------------------------------------------
(* Static chains at run time are those that phase 1 has followed.          *)

Chained(t, n, j, auth) ==
  \E s, n0 : /\ Leads(t, s, n0, j) /\ s[j] = n /\ n0 \in DOMAIN t
             /\ "AUTH" \in t[n0].flags /\ Has(t[n0], "CNAME")
             /\ Root(t, RootOf(t, n0)) /\ \A a \in auth : RootOf(t, n0) \in Path(a)

\* The node found first is the start of a chain.
LEMMA ChainBegins ==
  ASSUME NEW t, NEW ld, TreeOK("run", t, ld), NEW d \in Name, NEW n \in NodeFound(t, d), Has(t[n], "CNAME")
  PROVE  Chained(t, n, 0, AuthIn(t, d))
<1>1. /\ n \in DOMAIN t /\ "AUTH" \in t[n].flags
      /\ Root(t, RootOf(t, n)) /\ \A a \in AuthIn(t, d) : RootOf(t, n) \in Path(a)
  BY NodeFoundIs
<1> DEFINE s == [i \in 0..0 |-> n]
<1>2. s \in [0..0 -> DOMAIN t] /\ s[0] = n BY <1>1
<1>3. \A i \in 0..(0 - 1) : FALSE OBVIOUS
<1> HIDE DEF s
<1>4. Leads(t, s, n, 0) BY <1>2, <1>3 DEF Leads
<1> QED BY <1>1, <1>2, <1>4 DEF Chained

\* One more static CNAME, towards a name in the zone or below it.
LEMMA ChainGoesOn ==
  ASSUME NEW t, NEW ld, TreeOK("run", t, ld), NEW n, NEW j \in Nat, NEW auth, auth # {},
         Chained(t, n, j, auth), StaticCname(t, n), Target(t, n) \in Name,
         \A a \in auth : a \in Path(Target(t, n)),
         StatusIn(t, Target(t, n)) = "AUTH", NEW m \in NodeFound(t, Target(t, n))
  PROVE  Chained(t, m, j + 1, AuthIn(t, Target(t, n)))
<1> DEFINE d == Target(t, n)
<1>1. PICK s, n0 : /\ Leads(t, s, n0, j) /\ s[j] = n /\ n0 \in DOMAIN t
                   /\ "AUTH" \in t[n0].flags /\ Has(t[n0], "CNAME")
                   /\ Root(t, RootOf(t, n0)) /\ \A a \in auth : RootOf(t, n0) \in Path(a)
  BY DEF Chained
<1> DEFINE zr == RootOf(t, n0)
           u == [i \in 0..(j + 1) |-> IF i = j + 1 THEN m ELSE s[i]]
<1>2. zr \in Path(d) /\ Root(t, zr) BY <1>1, PathTrans
<1>3. Len(zr) <= Len(DeepestIn(t, d))
  <2>1. Path(d) \cap DOMAIN t \in SUBSET Path(d) /\ zr \in Path(d) \cap DOMAIN t BY <1>2 DEF Root
  <2> QED BY <2>1, LongestIs DEF DeepestIn
<1>4. m \in DOMAIN t /\ m \in NodeIn(t, d) BY NodeFoundIs
<1>5. m \in NextHop(t, zr, n) BY <1>2, <1>3, <1>4 DEF NextHop
<1>6. s \in [0..j -> DOMAIN t] /\ s[0] = n0
      /\ \A i \in 0..(j - 1) : StaticCname(t, s[i]) /\ s[i + 1] \in NextHop(t, zr, s[i])
  BY <1>1 DEF Leads
<1>7. u \in [0..(j + 1) -> DOMAIN t] /\ u[j + 1] = m /\ \A i \in 0..j : u[i] = s[i]
  <2>1. \A i \in 0..(j + 1) : i = j + 1 \/ i \in 0..j OBVIOUS
  <2>2. \A i \in 0..j : i # j + 1 /\ i \in 0..(j + 1) OBVIOUS
  <2>3. j + 1 \in 0..(j + 1) OBVIOUS
  <2> QED BY <1>4, <1>6, <2>1, <2>2, <2>3
<1> HIDE DEF u, zr, d
<1>8. u[0] = n0 BY <1>6, <1>7
<1>9. ASSUME NEW i \in 0..((j + 1) - 1) PROVE StaticCname(t, u[i]) /\ u[i + 1] \in NextHop(t, zr, u[i])
  <2>1. CASE i = j
    <3>1. u[i] = n /\ u[i + 1] = m BY <1>1, <1>7, <2>1
    <3> QED BY <1>5, <3>1
  <2>2. CASE i # j
    <3>1. i \in 0..(j - 1) /\ i \in 0..j /\ i + 1 \in 0..j BY <2>2
    <3>2. u[i] = s[i] /\ u[i + 1] = s[i + 1] BY <1>7, <3>1
    <3> QED BY <1>6, <3>1, <3>2
  <2> QED BY <2>1, <2>2
<1>10. Leads(t, u, n0, j + 1) BY <1>7, <1>8, <1>9 DEF Leads, zr
<1>11. \A a \in AuthIn(t, d) : zr \in Path(a)
  <2>1. d \in Name /\ StatusIn(t, d) # "NOAUTH" BY DEF d
  <2>2. PICK z : AuthIn(t, d) = {z} /\ \A y \in Path(d) : Root(t, y) => y \in Path(z) BY <2>1, AuthIs
  <2> QED BY <1>2, <2>2
<1>12. Chained(t, m, j + 1, AuthIn(t, d)) BY <1>1, <1>7, <1>10, <1>11 DEF Chained, zr
<1> QED BY <1>12 DEF d

\* Phase 1 has accepted no static chain with one CNAME more than the limit.
LEMMA ChainEnds ==
  ASSUME NEW t, Accepted(t), NEW n, NEW auth, Chained(t, n, max_cname_depth, auth)
  PROVE  ~StaticCname(t, n)
BY DEF Chained, Accepted, Short

-----------------------------------------------------------------------------
(* Serving: query u, context x and tree t at step p of the processing.     *)

Steps == {"idle", "search", "chain", "answer", "authority", "outer", "finish", "done"}

\* How the request is counted.
CountOK(p, x) ==
  /\ p \in {"search", "chain", "answer", "authority"} => x.rcode = "NOERROR" /\ x.counted = 0
  /\ p \in {"outer", "finish"} /\ x.rcode = "NOERROR" => x.counted = 0
  /\ p \in {"outer", "finish"} /\ x.rcode # "NOERROR" => x.counted = 1
  /\ p = "done" => x.counted = 1

\* The chain that is followed.
Matched(t, x) ==
  /\ x.qname \in Name
  /\ x.status = StatusIn(t, x.qname) /\ x.res = NodeFound(t, x.qname) /\ x.auth = AuthIn(t, x.qname)
Bounded(x) == x.depth \in Nat /\ x.dyncs \in Nat /\ x.dyncs <= x.depth /\ x.depth <= max_cname_depth
Static(t, x) == x.static => \A n \in x.res : Has(t[n], "CNAME") => Chained(t, n, x.depth, x.auth)
NoCname(t, u, x) == \A n \in x.res : n \in DOMAIN t /\ (u.qtype # "CNAME" => ~Has(t[n], "CNAME"))
ChainOK(p, t, u, x) ==
  /\ p = "search" => x.depth = 0 /\ x.dyncs = 0 /\ x.qname = u.qname /\ x.qname \in Name
  /\ p = "chain" => Bounded(x) /\ Static(t, x)
  /\ p = "answer" /\ x.status = "AUTH" => NoCname(t, u, x)
  /\ p \in {"chain", "answer"} /\ u.qtype = "CNAME" => x.dyncs = 0
  /\ x.dyncs \in Nat /\ x.dyncs <= max_cname_depth
  /\ x.cut => ~x.static

\* The response code.
Open(u, x) == /\ ~x.cut /\ u.edns \notin {"badvers", "formerr"} /\ ~u.chaos
              /\ x.rcode \notin {"IGNORE", "NOTIMP"}
Beyond(x) == x.via /\ x.status = "NOAUTH"
Expected(t, x) == x.qname \in Name /\ x.rcode = Found(StatusIn(t, x.qname), NodeFound(t, x.qname))
RcodeOK(p, t, u, x) ==
  /\ p \in {"search", "chain"} => ~x.cut
  /\ p \in {"answer", "authority"} /\ x.cut => x.res = {}
  /\ p = "chain" => Matched(t, x)
  /\ p \in {"answer", "authority"} => x.cut \/ Beyond(x) \/ Matched(t, x)
  /\ p = "authority" => x.status = "AUTH" /\ x.res # {}
  /\ p \in {"outer", "finish", "done"} /\ Open(u, x) /\ Beyond(x) => x.rcode = "NOERROR"
  /\ p \in {"outer", "finish", "done"} /\ Open(u, x) /\ ~Beyond(x) => Expected(t, x)

ServeOK(p, t, u, x) ==
  p \in Steps /\ IsContext(x) /\ CountOK(p, x) /\ ChainOK(p, t, u, x) /\ RcodeOK(p, t, u, x)

ServeInv == (phase # "run" => pc = "idle") /\ ServeOK(pc, tree, q, c)

-----------------------------------------------------------------------------
(* Steps of the encoder                                                    *)

LEMMA KeepsFields ==
  ASSUME NEW x, NEW y, Keeps(x, y), NEW t, NEW u
  PROVE  /\ y.rcode = x.rcode /\ y.counted = x.counted /\ y.status = x.status /\ y.res = x.res
         /\ y.dyncs = x.dyncs /\ (y.cut <=> x.cut) /\ (y.static <=> x.static)
         /\ (Beyond(y) <=> Beyond(x)) /\ (Matched(t, y) <=> Matched(t, x))
         /\ (Open(u, y) <=> Open(u, x)) /\ (Expected(t, y) <=> Expected(t, x))
BY DEF Keeps, KeepsAllBut, Beyond, Matched, Open, Expected

\* What is not followed by another name is encoded as it was found.
LEMMA FoundHere ==
  ASSUME NEW t, NEW u, NEW x, x.cut \/ Beyond(x) \/ Matched(t, x), x.rcode = "NOERROR",
         x.status = "DELEG" \/ (x.status = "AUTH" /\ x.res # {})
  PROVE  Open(u, x) => ~Beyond(x) /\ Expected(t, x)
<1> SUFFICES ASSUME Open(u, x) PROVE ~Beyond(x) /\ Expected(t, x) OBVIOUS
<1>1. ~Beyond(x) /\ ~x.cut BY DEF Beyond, Open
<1>2. Matched(t, x) BY <1>1
<1>3. Found(x.status, x.res) = "NOERROR" BY DEF Found
<1>4. x.qname \in Name /\ x.status = StatusIn(t, x.qname) /\ x.res = NodeFound(t, x.qname) BY <1>2 DEF Matched
<1>5. Expected(t, x) BY <1>3, <1>4 DEF Expected
<1> QED BY <1>1, <1>5

LEMMA EncodedAuthority ==
  ASSUME NEW t, NEW u, NEW x, NEW y, ServeOK("authority", t, u, x), Keeps(x, y)
  PROVE  ServeOK("outer", t, u, y)
<1>1. IsContext(y) BY KeepsContext DEF ServeOK
<1>2. /\ x.rcode = "NOERROR" /\ x.counted = 0 /\ x.status = "AUTH" /\ x.res # {}
      /\ x.cut \/ Beyond(x) \/ Matched(t, x)
  BY DEF ServeOK, CountOK, RcodeOK
<1>3. x.dyncs \in Nat /\ x.dyncs <= max_cname_depth BY DEF ServeOK, ChainOK
<1>4. x.cut => ~x.static BY DEF ServeOK, ChainOK
<1>5. Open(u, x) => ~Beyond(x) /\ Expected(t, x) BY <1>2, FoundHere
<1>6. CountOK("outer", y) BY <1>2, KeepsFields DEF CountOK
<1>7. ChainOK("outer", t, u, y)
  <2>1. y.dyncs \in Nat /\ y.dyncs <= max_cname_depth BY <1>3, KeepsFields
  <2>2. y.cut => ~y.static BY <1>4, KeepsFields
  <2> QED BY <2>1, <2>2 DEF ChainOK
<1>8. RcodeOK("outer", t, u, y) BY <1>5, KeepsFields DEF RcodeOK
<1> QED BY <1>1, <1>6, <1>7, <1>8 DEF ServeOK, Steps

LEMMA EncodedReferral ==
  ASSUME NEW t, NEW u, NEW x, NEW y, ServeOK("answer", t, u, x), x.status = "DELEG", Keeps(x, y)
  PROVE  ServeOK("outer", t, u, y)
<1>1. IsContext(y) BY KeepsContext DEF ServeOK
<1>2. x.rcode = "NOERROR" /\ x.counted = 0 /\ (x.cut \/ Beyond(x) \/ Matched(t, x))
  BY DEF ServeOK, CountOK, RcodeOK
<1>3. x.dyncs \in Nat /\ x.dyncs <= max_cname_depth BY DEF ServeOK, ChainOK
<1>4. x.cut => ~x.static BY DEF ServeOK, ChainOK
<1>5. Open(u, x) => ~Beyond(x) /\ Expected(t, x) BY <1>2, FoundHere
<1>6. CountOK("outer", y) BY <1>2, KeepsFields DEF CountOK
<1>7. ChainOK("outer", t, u, y)
  <2>1. y.dyncs \in Nat /\ y.dyncs <= max_cname_depth BY <1>3, KeepsFields
  <2>2. y.cut => ~y.static BY <1>4, KeepsFields
  <2> QED BY <2>1, <2>2 DEF ChainOK
<1>8. RcodeOK("outer", t, u, y) BY <1>5, KeepsFields DEF RcodeOK
<1> QED BY <1>1, <1>6, <1>7, <1>8 DEF ServeOK, Steps

LEMMA EncodedNode ==
  ASSUME NEW t, NEW u, NEW x, NEW y, ServeOK("answer", t, u, x), x.status = "AUTH", x.res # {},
         KeepsAllBut(x, y), y.qname = x.qname, y.dyncs \in Nat, y.dyncs <= max_cname_depth
  PROVE  ServeOK("authority", t, u, y)
<1>1. IsContext(y) BY DEF ServeOK, IsContext, KeepsAllBut
<1>2. /\ x.rcode = "NOERROR" /\ x.counted = 0 /\ (x.cut \/ Beyond(x) \/ Matched(t, x))
  BY DEF ServeOK, CountOK, RcodeOK
<1>3. x.cut => ~x.static BY DEF ServeOK, ChainOK
<1>4. CountOK("authority", y) BY <1>2 DEF CountOK, KeepsAllBut
<1>5. y.cut => ~y.static BY <1>3 DEF KeepsAllBut
<1>6. ChainOK("authority", t, u, y) BY <1>5 DEF ChainOK
<1>7. y.cut \/ Beyond(y) \/ Matched(t, y) BY <1>2 DEF Beyond, Matched, KeepsAllBut
<1>8. y.status = "AUTH" /\ y.res # {} BY DEF KeepsAllBut
<1>8a. ~y.cut
  <2>1. ~x.cut BY DEF ServeOK, RcodeOK
  <2> QED BY <2>1 DEF KeepsAllBut
<1>9. RcodeOK("authority", t, u, y) BY <1>7, <1>8, <1>8a DEF RcodeOK
<1> QED BY <1>1, <1>4, <1>6, <1>9 DEF ServeOK, Steps

LEMMA EncodedRest ==
  ASSUME NEW t, NEW u, NEW x, NEW y, ServeOK("outer", t, u, x), Keeps(x, y)
  PROVE  ServeOK("finish", t, u, y)
<1>1. IsContext(y) BY KeepsContext DEF ServeOK
<1>2. CountOK("finish", y)
  <2>1. (x.rcode = "NOERROR" => x.counted = 0) /\ (x.rcode # "NOERROR" => x.counted = 1) BY DEF ServeOK, CountOK
  <2>2. y.rcode = x.rcode /\ y.counted = x.counted BY KeepsFields
  <2> QED BY <2>1, <2>2 DEF CountOK
<1>3. x.dyncs \in Nat /\ x.dyncs <= max_cname_depth BY DEF ServeOK, ChainOK
<1>4. x.cut => ~x.static BY DEF ServeOK, ChainOK
<1>5. ChainOK("finish", t, u, y)
  <2>1. y.dyncs \in Nat /\ y.dyncs <= max_cname_depth BY <1>3, KeepsFields
  <2>2. y.cut => ~y.static BY <1>4, KeepsFields
  <2> QED BY <2>1, <2>2 DEF ChainOK
<1>6. /\ Open(u, x) /\ Beyond(x) => x.rcode = "NOERROR"
      /\ Open(u, x) /\ ~Beyond(x) => Expected(t, x) BY DEF ServeOK, RcodeOK
<1>7. RcodeOK("finish", t, u, y) BY <1>6, KeepsFields DEF RcodeOK
<1> QED BY <1>1, <1>2, <1>5, <1>7 DEF ServeOK, Steps

-----------------------------------------------------------------------------
(* One lemma per step of process_dns_query().                              *)

LEMMA ResetIs ==
  ASSUME NEW u
  PROVE  LET x == reset_context(u)
         IN  /\ IsContext(x) /\ x.qname = u.qname /\ x.depth = 0 /\ x.dyncs = 0 /\ x.counted = 0
             /\ x.rcode = "NOERROR" /\ ~x.cut /\ "pkt" \in DOMAIN x /\ "an" \in DOMAIN x
BY DEF reset_context, IsContext, Kept

\* Everything but code and count is as reset_context() leaves it.
Fresh(u, x) == IsContext(x) /\ x.qname = u.qname /\ x.depth = 0 /\ x.dyncs = 0 /\ ~x.cut

LEMMA FreshServe ==
  ASSUME NEW t, NEW u, NEW x, Fresh(u, x), NEW p \in {"idle", "search", "finish", "done"},
         p = "search" => x.qname \in Name, CountOK(p, x),
         p \in {"finish", "done"} => ~Open(u, x)
  PROVE  ServeOK(p, t, u, x)
<1>1. max_cname_depth \in Nat /\ 0 <= max_cname_depth BY LimitsAssumption
<1>2. x.dyncs \in Nat /\ x.dyncs <= max_cname_depth BY <1>1 DEF Fresh
<1>3. ~x.cut BY DEF Fresh
<1>4. p = "search" => x.depth = 0 /\ x.dyncs = 0 /\ x.qname = u.qname /\ x.qname \in Name BY DEF Fresh
<1>5. ChainOK(p, t, u, x) BY <1>2, <1>3, <1>4 DEF ChainOK
<1>6. RcodeOK(p, t, u, x) BY <1>3 DEF RcodeOK
<1>7. IsContext(x) /\ p \in Steps BY DEF Fresh, Steps
<1> QED BY <1>5, <1>6, <1>7 DEF ServeOK

LEMMA ServeInit == DnsInit => ServeInv
<1> SUFFICES ASSUME DnsInit PROVE ServeInv OBVIOUS
<1>1. pc = "idle" /\ c = reset_context(q) BY DEF DnsInit
<1>2. Fresh(q, c) BY <1>1, ResetIs DEF Fresh
<1>3. CountOK("idle", c) BY DEF CountOK
<1>4. ServeOK("idle", tree, q, c) BY <1>2, <1>3, FreshServe
<1> QED BY <1>1, <1>4 DEF ServeInv

LEMMA ReceiveServe ==
  ASSUME NEW u \in Queries, Receive(u)
  PROVE  ServeOK(pc', tree', q', c')
<1>1. PICK rcode \in decode_query(u) :
        LET x == [reset_context(u) EXCEPT !.rcode = rcode]
        IN  \/ /\ rcode \in {"IGNORE", "NOTIMP"}
               /\ pc' = "done" /\ c' = Bump([x EXCEPT !.pkt = <<>>])
            \/ /\ rcode \in {"FORMERR", "BADVERS"}
               /\ pc' = "finish" /\ c' = Bump(x)
            \/ /\ rcode = "OK" /\ u.chaos
               /\ pc' = "finish"
               /\ c' = Mean([x EXCEPT !.pkt = @ \o <<Ptr(QuestionAt), RR("TXT"), Data>>, !.an = 1,
                                      !.rcode = "NOERROR"], "an", u.qname, "TXT", <<>>)
            \/ /\ rcode = "OK" /\ ~u.chaos
               /\ pc' = "search" /\ c' = [x EXCEPT !.rcode = "NOERROR"]
  BY DEF Receive
<1> DEFINE w == reset_context(u)
           x == [w EXCEPT !.rcode = rcode]
<1>2. IsContext(w) /\ w.qname = u.qname /\ w.depth = 0 /\ w.dyncs = 0 /\ w.counted = 0 /\ ~w.cut BY ResetIs
<1>3. u.qname \in Name /\ u.form \in {"short", "ignored", "notimp", "query"} BY NamesAssumption
<1>4. q' = u BY DEF Receive
<1> HIDE DEF w
<1>5. IsContext(x) /\ x.qname = u.qname /\ x.depth = 0 /\ x.dyncs = 0 /\ x.counted = 0 /\ ~x.cut /\ x.rcode = rcode
  BY <1>2 DEF IsContext, Kept
<1>6. \/ /\ rcode \in {"IGNORE", "NOTIMP"}
         /\ pc' = "done" /\ c' = Bump([x EXCEPT !.pkt = <<>>])
      \/ /\ rcode \in {"FORMERR", "BADVERS"}
         /\ pc' = "finish" /\ c' = Bump(x)
      \/ /\ rcode = "OK" /\ u.chaos
         /\ pc' = "finish"
         /\ c' = Mean([x EXCEPT !.pkt = @ \o <<Ptr(QuestionAt), RR("TXT"), Data>>, !.an = 1,
                                !.rcode = "NOERROR"], "an", u.qname, "TXT", <<>>)
      \/ /\ rcode = "OK" /\ ~u.chaos
         /\ pc' = "search" /\ c' = [x EXCEPT !.rcode = "NOERROR"]
  BY <1>1 DEF w
<1> HIDE DEF x
<1>7. CASE rcode \in {"IGNORE", "NOTIMP"} /\ pc' = "done" /\ c' = Bump([x EXCEPT !.pkt = <<>>])
  <2>1. Fresh(u, c') /\ c'.counted = 1 /\ c'.rcode = rcode BY <1>5, <1>7 DEF Fresh, Bump, IsContext, Kept
  <2>2. CountOK("done", c') /\ ~Open(u, c') BY <1>7, <2>1 DEF CountOK, Open
  <2>3. ServeOK("done", tree', u, c') BY <2>1, <2>2, FreshServe
  <2> QED BY <1>4, <1>7, <2>3
<1>8. CASE rcode \in {"FORMERR", "BADVERS"} /\ pc' = "finish" /\ c' = Bump(x)
  <2>1. Fresh(u, c') /\ c'.counted = 1 /\ c'.rcode = rcode BY <1>5, <1>8 DEF Fresh, Bump, IsContext, Kept
  <2>2. u.edns \in {"badvers", "formerr"} BY <1>3, <1>8 DEF decode_query
  <2>3. CountOK("finish", c') /\ ~Open(u, c') BY <1>8, <2>1, <2>2 DEF CountOK, Open
  <2>4. ServeOK("finish", tree', u, c') BY <2>1, <2>3, FreshServe
  <2> QED BY <1>4, <1>8, <2>4
<1>9. CASE /\ rcode = "OK" /\ u.chaos /\ pc' = "finish"
           /\ c' = Mean([x EXCEPT !.pkt = @ \o <<Ptr(QuestionAt), RR("TXT"), Data>>, !.an = 1,
                                  !.rcode = "NOERROR"], "an", u.qname, "TXT", <<>>)
  <2> DEFINE y == [x EXCEPT !.pkt = @ \o <<Ptr(QuestionAt), RR("TXT"), Data>>, !.an = 1, !.rcode = "NOERROR"]
  <2>1. Fresh(u, y) /\ y.counted = 0 /\ y.rcode = "NOERROR" BY <1>5 DEF Fresh, IsContext, Kept
  <2>2. c' = Mean(y, "an", u.qname, "TXT", <<>>) BY <1>9
  <2> HIDE DEF y
  <2>3. Keeps(y, c') BY <2>1, <2>2, MeanKeeps DEF Fresh
  <2>4. Fresh(u, c') /\ c'.counted = 0 /\ c'.rcode = "NOERROR"
    <3>1. IsContext(c') BY <2>1, <2>3, KeepsContext DEF Fresh
    <3> QED BY <2>1, <2>3, <3>1 DEF Fresh, Keeps, KeepsAllBut
  <2>5. CountOK("finish", c') /\ ~Open(u, c') BY <1>9, <2>4 DEF CountOK, Open
  <2>6. ServeOK("finish", tree', u, c') BY <2>4, <2>5, FreshServe
  <2> QED BY <1>4, <1>9, <2>6
<1>10. CASE rcode = "OK" /\ ~u.chaos /\ pc' = "search" /\ c' = [x EXCEPT !.rcode = "NOERROR"]
  <2>1. Fresh(u, c') /\ c'.counted = 0 /\ c'.rcode = "NOERROR" BY <1>5, <1>10 DEF Fresh, IsContext, Kept
  <2>2. CountOK("search", c') /\ c'.qname \in Name BY <1>3, <2>1 DEF CountOK, Fresh
  <2>3. ServeOK("search", tree', u, c') BY <2>1, <2>2, FreshServe
  <2> QED BY <1>4, <1>10, <2>3
<1> QED BY <1>6, <1>7, <1>8, <1>9, <1>10

LEMMA SentServe == ASSUME Sent PROVE ServeOK(pc', tree', q', c')
<1>1. pc' = "idle" /\ q' = NoQuery /\ c' = reset_context(NoQuery) BY DEF Sent
<1>2. Fresh(q', c') BY <1>1, ResetIs DEF Fresh
<1>3. CountOK("idle", c') BY DEF CountOK
<1>4. ServeOK("idle", tree', q', c') BY <1>2, <1>3, FreshServe
<1> QED BY <1>1, <1>4

Running == TreeOK("run", tree, loaded) /\ Accepted(tree)

LEMMA SearchServe ==
  ASSUME Running, ServeOK(pc, tree, q, c), Search
  PROVE  ServeOK(pc', tree', q', c')
<1>0. pc = "search" /\ pc' = "chain" /\ q' = q /\ tree' = tree BY DEF Search
<1> DEFINE s == search_ltree(q.qname, {})
<1>1. c' = [c EXCEPT !.status = s.status, !.res = s.node, !.auth = s.auth,
                     !.acomp = c.qcomp + s.depth, !.aname = s.mark]
  BY DEF Search
<1>2. s.status = StatusIn(tree, q.qname) /\ s.node = NodeFound(tree, q.qname) /\ s.auth = AuthIn(tree, q.qname)
  BY SearchIs
<1> HIDE DEF s
<1>3. /\ IsContext(c) /\ c.depth = 0 /\ c.dyncs = 0 /\ c.qname = q.qname /\ c.qname \in Name
      /\ c.rcode = "NOERROR" /\ c.counted = 0
  BY <1>0 DEF ServeOK, ChainOK, CountOK
<1>4. ~c.cut BY <1>0 DEF ServeOK, RcodeOK
<1>5. /\ IsContext(c') /\ c'.depth = 0 /\ c'.dyncs = 0 /\ c'.qname = c.qname
      /\ c'.rcode = "NOERROR" /\ c'.counted = 0
      /\ c'.status = s.status /\ c'.res = s.node /\ c'.auth = s.auth
  BY <1>1, <1>3 DEF IsContext, Kept
<1>6. c'.cut = c.cut /\ c'.static = c.static BY <1>1, <1>3 DEF IsContext, Kept
<1>7. Matched(tree, c') BY <1>2, <1>3, <1>5 DEF Matched
<1>8. CountOK("chain", c') BY <1>5 DEF CountOK
<1>9. RcodeOK("chain", tree, q, c') BY <1>4, <1>6, <1>7 DEF RcodeOK
<1>10. Static(tree, c')
  <2>1. ASSUME NEW n \in c'.res, Has(tree[n], "CNAME") PROVE Chained(tree, n, 0, c'.auth)
    <3>1. n \in NodeFound(tree, c'.qname) /\ c'.auth = AuthIn(tree, c'.qname) /\ c'.qname \in Name
      BY <1>7, <2>1 DEF Matched
    <3> QED BY <2>1, <3>1, ChainBegins DEF Running
  <2> QED BY <1>5, <2>1 DEF Static
<1>11. c'.dyncs \in Nat /\ c'.dyncs <= max_cname_depth /\ Bounded(c') BY <1>5, LimitsAssumption DEF Bounded
<1>12. c'.cut => ~c'.static BY <1>4, <1>6
<1>13. ChainOK("chain", tree, q, c') BY <1>5, <1>10, <1>11, <1>12 DEF ChainOK
<1>14. ServeOK("chain", tree, q, c') BY <1>5, <1>8, <1>9, <1>13 DEF ServeOK, Steps
<1> QED BY <1>0, <1>14

\* A node with a CNAME as its first rrset has no other and is authoritative.
LEMMA AtCnameIs ==
  ASSUME Running, Matched(tree, c), NEW n \in c.res, tree[n].rrsets # <<>>, tree[n].rrsets[1].type = "CNAME"
  PROVE  /\ c.res = {n} /\ n \in DOMAIN tree /\ c.status = "AUTH" /\ Has(tree[n], "CNAME")
         /\ TheRRset(tree[n], "CNAME") = tree[n].rrsets[1] /\ IsRR(tree[n].rrsets[1])
<1>0. c.qname \in Name /\ n \in NodeFound(tree, c.qname) /\ c.res = NodeFound(tree, c.qname)
      /\ c.status = StatusIn(tree, c.qname)
  BY DEF Matched
<1>1. /\ c.res = {n} /\ n \in DOMAIN tree /\ "AUTH" \in tree[n].flags
      /\ StatusIn(tree, c.qname) = "DELEG" => DelegIn(tree, n) # {}
  BY <1>0, NodeFoundIs DEF Running
<1>2. IsNode(tree[n]) BY <1>1 DEF Running, TreeOK, Shape
<1> DEFINE rs == tree[n].rrsets
<1>3. Len(rs) \in Nat /\ rs = [i \in 1..Len(rs) |-> rs[i]] /\ rs # <<>> /\ \A i \in 1..Len(rs) : IsRR(rs[i])
  BY <1>2 DEF IsNode, IsSeq
<1> HIDE DEF rs
<1>4. Len(rs) # 0
  <2>1. ASSUME Len(rs) = 0 PROVE rs = <<>> BY <1>3, <2>1
  <2> QED BY <1>3, <2>1
<1>5. 1 \in 1..Len(rs) BY <1>3, <1>4
<1>6. Has(tree[n], "CNAME") BY <1>2, <1>5, HasIs DEF rs
<1>7. Len(rs) = 1 /\ DelegIn(tree, n) = {} BY <1>1, <1>6 DEF Running, Accepted, rs
<1>8. StatusIn(tree, c.qname) \in {"NOAUTH", "DELEG", "AUTH"} /\ StatusIn(tree, c.qname) # "NOAUTH"
  BY <1>0, StatusIs DEF NodeFound
<1>9. c.status = "AUTH" BY <1>0, <1>1, <1>7, <1>8
<1>10. TheRRset(tree[n], "CNAME") = rs[1]
  <2>1. TheRRset(tree[n], "CNAME") \in RRsetsOf(tree[n], "CNAME") BY <1>2, <1>6, RRsetFound
  <2>2. DOMAIN rs = 1..1 BY <1>3, <1>7
  <2>3. \A r \in RRsetsOf(tree[n], "CNAME") : r = rs[1] BY <2>2 DEF RRsetsOf, rs
  <2> QED BY <2>1, <2>3
<1> QED BY <1>1, <1>3, <1>5, <1>6, <1>9, <1>10 DEF rs

LEMMA TooLongServe ==
  ASSUME Running, ServeOK(pc, tree, q, c), ChainTooLongNow
  PROVE  ServeOK(pc', tree', q', c')
<1>0. pc = "chain" /\ pc' = "answer" /\ q' = q /\ tree' = tree BY DEF ChainTooLongNow
<1> DEFINE all == \A n \in c.res : tree[n].rrsets[1].static
<1>1. c' = [c EXCEPT !.via = TRUE, !.depth = @ + 1, !.res = {}, !.cut = TRUE, !.static = @ /\ all,
                     !.pkt = Question(q.qname), !.stale = c.pkt, !.an = 0, !.cn = 0, !.meant.an = <<>>]
  BY DEF ChainTooLongNow
<1>2. IsContext(c) /\ Matched(tree, c) /\ c.rcode = "NOERROR" /\ c.counted = 0
  BY <1>0 DEF ServeOK, RcodeOK, CountOK
<1>3. Bounded(c) /\ Static(tree, c) /\ (q.qtype = "CNAME" => c.dyncs = 0) BY <1>0 DEF ServeOK, ChainOK
<1>4. c.dyncs \in Nat /\ c.dyncs <= max_cname_depth BY <1>0 DEF ServeOK, ChainOK
<1>5. PICK n \in c.res : tree[n].rrsets # <<>> /\ tree[n].rrsets[1].type = "CNAME"
  BY DEF ChainTooLongNow, AtCname
<1>6. /\ c.res = {n} /\ n \in DOMAIN tree /\ c.status = "AUTH" /\ Has(tree[n], "CNAME")
      /\ TheRRset(tree[n], "CNAME") = tree[n].rrsets[1]
  BY <1>2, <1>5, AtCnameIs
<1>7. c.depth = max_cname_depth
  <2>1. c.depth + 1 > max_cname_depth BY DEF ChainTooLongNow
  <2>2. c.depth \in Nat /\ c.depth <= max_cname_depth /\ max_cname_depth \in Nat
    BY <1>3, LimitsAssumption DEF Bounded
  <2> HIDE DEF all
  <2> QED BY ONLY <2>1, <2>2
<1>8. ~(c.static /\ all)
  <2> SUFFICES ASSUME c.static, all PROVE FALSE OBVIOUS
  <2>1. Chained(tree, n, max_cname_depth, c.auth) BY <1>3, <1>6, <1>7 DEF Static
  <2>2. StaticCname(tree, n) BY <1>6 DEF StaticCname
  <2> QED BY <2>1, <2>2, ChainEnds DEF Running
<1> HIDE DEF all
<1>9. IsContext(c') /\ c'.rcode = "NOERROR" /\ c'.counted = 0 /\ c'.res = {} /\ c'.dyncs = c.dyncs
  BY <1>1, <1>2 DEF IsContext, Kept
<1>10. c'.cut /\ ~c'.static
  <2>1. c'.cut = TRUE BY <1>1, <1>2 DEF IsContext, Kept
  <2>2. c'.static = (c.static /\ all) BY <1>1, <1>2 DEF IsContext, Kept
  <2> QED BY <1>8, <2>1, <2>2
<1>11. CountOK("answer", c') BY <1>9 DEF CountOK
<1>12. RcodeOK("answer", tree, q, c') BY <1>9, <1>10 DEF RcodeOK
<1>13. c'.dyncs \in Nat /\ c'.dyncs <= max_cname_depth /\ NoCname(tree, q, c')
       /\ (q.qtype = "CNAME" => c'.dyncs = 0)
  BY <1>3, <1>4, <1>9 DEF NoCname
<1>14. ChainOK("answer", tree, q, c') BY <1>10, <1>13 DEF ChainOK
<1>15. ServeOK("answer", tree, q, c') BY <1>9, <1>11, <1>12, <1>14 DEF ServeOK, Steps
<1> QED BY <1>0, <1>15

LEMMA ChainDoneServe ==
  ASSUME Running, ServeOK(pc, tree, q, c), ChainDone
  PROVE  ServeOK(pc', tree', q', c')
<1>0. pc = "chain" /\ pc' = "answer" /\ q' = q /\ tree' = tree /\ c' = c /\ ~AtCname BY DEF ChainDone
<1>2. IsContext(c) /\ Matched(tree, c) /\ CountOK("answer", c) BY <1>0 DEF ServeOK, RcodeOK, CountOK
<1>3. q.qtype = "CNAME" => c.dyncs = 0 BY <1>0 DEF ServeOK, ChainOK
<1>4. c.dyncs \in Nat /\ c.dyncs <= max_cname_depth BY <1>0 DEF ServeOK, ChainOK
<1>5. ~c.cut BY <1>0 DEF ServeOK, RcodeOK
<1>6. NoCname(tree, q, c)
  <2> SUFFICES ASSUME NEW n \in c.res PROVE n \in DOMAIN tree /\ (q.qtype # "CNAME" => ~Has(tree[n], "CNAME"))
    BY DEF NoCname
  <2>1. n \in DOMAIN tree /\ "AUTH" \in tree[n].flags BY <1>2, NodeFoundIs DEF Matched, Running
  <2>2. ASSUME q.qtype # "CNAME", Has(tree[n], "CNAME") PROVE FALSE
    <3> DEFINE rs == tree[n].rrsets
    <3>1. IsNode(tree[n]) BY <2>1 DEF Running, TreeOK, Shape
    <3>2. PICK i \in 1..Len(rs) : rs[i].type = "CNAME" BY <2>2, <3>1, HasIs
    <3>3. Len(rs) = 1 BY <2>1, <2>2 DEF Running, Accepted
    <3>4. i = 1 /\ rs[1].type = "CNAME" BY <3>2, <3>3
    <3>5. rs # <<>>
      <4>1. ASSUME rs = <<>> PROVE Len(rs) = 0 BY <4>1
      <4> HIDE DEF rs
      <4> QED BY <3>3, <4>1
    <3> QED BY <1>0, <2>2, <3>4, <3>5 DEF AtCname
  <2> QED BY <2>1, <2>2
<1>7. ChainOK("answer", tree, q, c) BY <1>3, <1>4, <1>5, <1>6 DEF ChainOK
<1>8. RcodeOK("answer", tree, q, c) BY <1>2, <1>5 DEF RcodeOK
<1> QED BY <1>0, <1>2, <1>7, <1>8 DEF ServeOK, Steps

LEMMA FollowServe ==
  ASSUME Running, ServeOK(pc, tree, q, c), FollowCname
  PROVE  ServeOK(pc', tree', q', c')
<1>0. pc = "chain" /\ q' = q /\ tree' = tree /\ AtCname BY DEF FollowCname
<1>1. IsContext(c) /\ Matched(tree, c) /\ c.rcode = "NOERROR" /\ c.counted = 0
  BY <1>0 DEF ServeOK, RcodeOK, CountOK
<1>2. Bounded(c) /\ Static(tree, c) BY <1>0 DEF ServeOK, ChainOK
<1>2a. ~c.cut BY <1>0 DEF ServeOK, RcodeOK
<1>3. PICK n \in c.res : LET r == tree[n].rrsets[1] IN \E d \in Targets(r) :
         LET x == encode_rr_cname([c EXCEPT !.dyncs = @ + IF r.static THEN 0 ELSE 1], d, FALSE)
             s == search_ltree(d, c.auth)
         IN  /\ c' = [x EXCEPT !.via = TRUE, !.depth = @ + 1, !.static = @ /\ r.static,
                               !.bad = @ \/ c.status # "AUTH" \/ c.auth = {},
                               !.res = s.node, !.auth = s.auth,
                               !.status = IF s.crossed THEN s.status ELSE "NOAUTH",
                               !.acomp = IF s.crossed THEN chase_auth_ptr(x.pkt, x.qcomp, s.depth) ELSE @,
                               !.aname = IF s.crossed THEN s.mark ELSE @]
             /\ pc' = IF s.crossed THEN "chain" ELSE "answer"
  BY DEF FollowCname
<1>4. tree[n].rrsets # <<>> /\ tree[n].rrsets[1].type = "CNAME"
  <2>1. PICK m \in c.res : tree[m].rrsets # <<>> /\ tree[m].rrsets[1].type = "CNAME" BY <1>0 DEF AtCname
  <2>2. c.res = {m} BY <1>1, <2>1, AtCnameIs
  <2> QED BY <2>1, <2>2
<1> DEFINE r == tree[n].rrsets[1]
           more == IF r.static THEN 0 ELSE 1
           y == [c EXCEPT !.dyncs = @ + more]
<1>5. PICK d \in Targets(r) :
         LET x == encode_rr_cname(y, d, FALSE)
             s == search_ltree(d, c.auth)
         IN  /\ c' = [x EXCEPT !.via = TRUE, !.depth = @ + 1, !.static = @ /\ r.static,
                               !.bad = @ \/ c.status # "AUTH" \/ c.auth = {},
                               !.res = s.node, !.auth = s.auth,
                               !.status = IF s.crossed THEN s.status ELSE "NOAUTH",
                               !.acomp = IF s.crossed THEN chase_auth_ptr(x.pkt, x.qcomp, s.depth) ELSE @,
                               !.aname = IF s.crossed THEN s.mark ELSE @]
             /\ pc' = IF s.crossed THEN "chain" ELSE "answer"
  BY <1>3
<1> DEFINE x == encode_rr_cname(y, d, FALSE)
           s == search_ltree(d, c.auth)
<1>6. /\ c.res = {n} /\ n \in DOMAIN tree /\ c.status = "AUTH" /\ Has(tree[n], "CNAME")
      /\ TheRRset(tree[n], "CNAME") = r /\ IsRR(r) /\ r.type = "CNAME"
  BY <1>1, <1>4, AtCnameIs
<1>7. d \in Name /\ (r.static => d = Target(tree, n) /\ StaticCname(tree, n))
  <2>1. CASE r.static
    <3>1. d = r.rdata[1].dname BY <2>1 DEF Targets
    <3>2. r.rdata[1].dname \in Name BY <1>6, <2>1 DEF IsRR
    <3> QED BY <1>6, <2>1, <3>1, <3>2 DEF Target, StaticCname
  <2>2. CASE ~r.static
    <3>1. d \in DyncNames BY <2>2 DEF Targets
    <3> QED BY <2>2, <3>1, NamesAssumption
  <2> QED BY <2>1, <2>2
<1> HIDE DEF r
<1>8. more \in {0, 1} OBVIOUS
<1> HIDE DEF more
<1>9. KeepsAllBut(c, y) /\ y.qname = c.qname /\ y.dyncs = c.dyncs + more /\ IsContext(y)
  BY <1>1 DEF KeepsAllBut, IsContext, Kept
<1> HIDE DEF y
<1>10. KeepsAllBut(y, x) /\ x.dyncs = y.dyncs /\ x.qname = d
  <2>1. x = encode_rr_cname(y, d, FALSE) OBVIOUS
  <2> HIDE DEF x
  <2>2. IsContext(y) BY <1>9
  <2>3. KeepsAllBut(y, x) BY ONLY <2>1, <2>2, CnameFollowed
  <2>4. x.dyncs = y.dyncs BY ONLY <2>1, <2>2, CnameFollowed
  <2>5. x.qname = d BY ONLY <2>1, <2>2, CnameFollowed
  <2> QED BY <2>3, <2>4, <2>5
<1>11. /\ s.status = StatusIn(tree, d) /\ s.node = NodeFound(tree, d) /\ s.auth = AuthIn(tree, d)
       /\ s.crossed <=> c.auth \subseteq Path(d)
  BY SearchIs
<1>12. /\ c' = [x EXCEPT !.via = TRUE, !.depth = @ + 1, !.static = @ /\ r.static,
                         !.bad = @ \/ c.status # "AUTH" \/ c.auth = {},
                         !.res = s.node, !.auth = s.auth,
                         !.status = IF s.crossed THEN s.status ELSE "NOAUTH",
                         !.acomp = IF s.crossed THEN chase_auth_ptr(x.pkt, x.qcomp, s.depth) ELSE @,
                         !.aname = IF s.crossed THEN s.mark ELSE @]
       /\ pc' = IF s.crossed THEN "chain" ELSE "answer"
  BY <1>5
<1> HIDE DEF x, s
<1>13. IsContext(x) /\ x.rcode = "NOERROR" /\ x.counted = 0 /\ x.depth = c.depth /\ x.dyncs = c.dyncs + more
  BY <1>1, <1>9, <1>10 DEF KeepsAllBut, IsContext
<1>14. x.static = c.static /\ x.cut = c.cut BY <1>9, <1>10 DEF KeepsAllBut
<1>15. /\ IsContext(c') /\ c'.rcode = "NOERROR" /\ c'.counted = 0 /\ c'.depth = c.depth + 1
       /\ c'.dyncs = c.dyncs + more /\ c'.qname = d /\ c'.res = s.node /\ c'.auth = s.auth
       /\ c'.status = IF s.crossed THEN s.status ELSE "NOAUTH"
  BY <1>10, <1>12, <1>13 DEF IsContext, Kept
<1>16. c'.static = (c.static /\ r.static) /\ c'.cut = c.cut /\ c'.via = TRUE
  BY <1>12, <1>13, <1>14 DEF IsContext, Kept
<1>17. ~c'.cut BY <1>2a, <1>16
<1>18. Bounded(c') /\ c'.dyncs \in Nat /\ c'.dyncs <= max_cname_depth
  <2>1. c.depth + 1 <= max_cname_depth BY DEF FollowCname
  <2>2. c.depth \in Nat /\ c.dyncs \in Nat /\ c.dyncs <= c.depth /\ max_cname_depth \in Nat
    BY <1>2, LimitsAssumption DEF Bounded
  <2>3. c'.depth = c.depth + 1 /\ c'.dyncs = c.dyncs + more BY <1>15
  <2> QED BY <1>8, <2>1, <2>2, <2>3 DEF Bounded
<1>19. q.qtype # "CNAME" BY <1>0 DEF AtCname
<1>20. CountOK("chain", c') /\ CountOK("answer", c') BY <1>15 DEF CountOK
<1>21. CASE s.crossed
  <2>1. pc' = "chain" /\ c'.status = s.status BY <1>12, <1>15, <1>21
  <2>2. Matched(tree, c') BY <1>7, <1>11, <1>15, <2>1 DEF Matched
  <2>3. Static(tree, c')
    <3> SUFFICES ASSUME c'.static, NEW m \in c'.res, Has(tree[m], "CNAME") PROVE Chained(tree, m, c'.depth, c'.auth)
      BY DEF Static
    <3>1. c.static /\ r.static BY <1>16
    <3>2. d = Target(tree, n) /\ StaticCname(tree, n) BY <1>7, <3>1
    <3>3. Chained(tree, n, c.depth, c.auth) BY <1>2, <1>6, <3>1 DEF Static
    <3>4. m \in NodeFound(tree, d) BY <1>11, <1>15
    <3>5. \A a \in c.auth : a \in Path(d) BY <1>11, <1>21
    <3>6. c.auth # {}
      <4>1. c.qname \in Name /\ c.auth = AuthIn(tree, c.qname) /\ StatusIn(tree, c.qname) # "NOAUTH"
        BY <1>1, <1>6 DEF Matched
      <4> QED BY <4>1, AuthIs DEF Running
    <3>7. StatusIn(tree, d) = "AUTH"
      <4>1. m \in DOMAIN tree /\ "AUTH" \in tree[m].flags /\ (StatusIn(tree, d) = "DELEG" => DelegIn(tree, m) # {})
        BY <1>7, <3>4, NodeFoundIs DEF Running
      <4>2. StatusIn(tree, d) # "DELEG" BY <4>1 DEF Running, Accepted
      <4>3. StatusIn(tree, d) # "NOAUTH" BY <3>4 DEF NodeFound
      <4> QED BY <4>2, <4>3, StatusIs
    <3>8. c.depth \in Nat BY <1>2 DEF Bounded
    <3>9. Chained(tree, m, c.depth + 1, AuthIn(tree, d))
      BY <1>7, <3>2, <3>3, <3>4, <3>5, <3>6, <3>7, <3>8, ChainGoesOn DEF Running
    <3> QED BY <1>11, <1>15, <3>9
  <2>4. ChainOK("chain", tree, q, c') BY <1>17, <1>18, <1>19, <2>3 DEF ChainOK
  <2>5. RcodeOK("chain", tree, q, c') BY <1>17, <2>2 DEF RcodeOK
  <2>6. ServeOK("chain", tree, q, c') BY <1>15, <1>20, <2>4, <2>5 DEF ServeOK, Steps
  <2> QED BY <1>0, <2>1, <2>6
<1>22. CASE ~s.crossed
  <2>1. pc' = "answer" /\ c'.status = "NOAUTH" BY <1>12, <1>15, <1>22
  <2>2. Beyond(c') BY <1>16, <2>1 DEF Beyond
  <2>3. ChainOK("answer", tree, q, c') BY <1>17, <1>18, <1>19, <2>1 DEF ChainOK
  <2>4. RcodeOK("answer", tree, q, c') BY <1>17, <2>2 DEF RcodeOK
  <2>5. ServeOK("answer", tree, q, c') BY <1>15, <1>20, <2>3, <2>4 DEF ServeOK, Steps
  <2> QED BY <1>0, <2>1, <2>5
<1> QED BY <1>21, <1>22

\* A code that is counted as soon as it is set.
LEMMA CodeServe ==
  ASSUME NEW t, NEW u, NEW x, NEW y, NEW w, ServeOK("answer", t, u, x), Keeps(x, y),
         NEW code \in {"NXDOMAIN", "REFUSED"}, w = Bump([y EXCEPT !.rcode = code]),
         x.cut \/ (Matched(t, x) /\ ~Beyond(x) /\ Found(x.status, x.res) = code)
  PROVE  ServeOK("outer", t, u, w)
<1>1. IsContext(y) BY KeepsContext DEF ServeOK
<1>2. y.counted = 0
  <2>1. x.counted = 0 BY DEF ServeOK, CountOK
  <2> QED BY <2>1 DEF Keeps, KeepsAllBut
<1>3. /\ IsContext(w) /\ w.rcode = code /\ w.counted = 1 /\ w.dyncs = y.dyncs /\ w.qname = y.qname
      /\ w.status = y.status /\ w.res = y.res /\ w.auth = y.auth
  BY <1>1, <1>2 DEF Bump, IsContext, Kept
<1>4. w.cut = y.cut /\ w.static = y.static /\ w.via = y.via BY <1>1 DEF Bump, IsContext, Kept
<1>5. w.cut = x.cut /\ w.static = x.static /\ w.via = x.via BY <1>4 DEF Keeps, KeepsAllBut
<1>6. w.dyncs = x.dyncs /\ w.qname = x.qname /\ w.status = x.status /\ w.res = x.res /\ w.auth = x.auth
  BY <1>3 DEF Keeps, KeepsAllBut
<1>7. CountOK("outer", w) BY <1>3 DEF CountOK
<1>8. ChainOK("outer", t, u, w)
  <2>1. x.dyncs \in Nat /\ x.dyncs <= max_cname_depth BY DEF ServeOK, ChainOK
  <2>2. x.cut => ~x.static BY DEF ServeOK, ChainOK
  <2>3. w.dyncs \in Nat /\ w.dyncs <= max_cname_depth BY <1>6, <2>1
  <2>4. w.cut => ~w.static BY <1>5, <2>2
  <2> QED BY <2>3, <2>4 DEF ChainOK
<1>9. Open(u, w) => ~Beyond(w) /\ Expected(t, w)
  <2> SUFFICES ASSUME Open(u, w) PROVE ~Beyond(w) /\ Expected(t, w) OBVIOUS
  <2>1. ~x.cut BY <1>5 DEF Open
  <2>2. Matched(t, x) /\ ~Beyond(x) /\ Found(x.status, x.res) = code BY <2>1
  <2>3. ~Beyond(w) BY <1>5, <1>6, <2>2 DEF Beyond
  <2>4. Expected(t, w) BY <1>3, <1>6, <2>2 DEF Expected, Matched
  <2> QED BY <2>3, <2>4
<1>10. RcodeOK("outer", t, u, w) BY <1>9 DEF RcodeOK
<1> QED BY <1>3, <1>7, <1>8, <1>10 DEF ServeOK, Steps

LEMMA NxdomainServe ==
  ASSUME ServeOK(pc, tree, q, c), AnswerNxdomain
  PROVE  ServeOK(pc', tree', q', c')
<1>0. pc = "answer" /\ pc' = "outer" /\ q' = q /\ tree' = tree /\ c.status = "AUTH" /\ c.res = {} BY DEF AnswerNxdomain
<1> DEFINE x == Checked(c, AuthNode, "SOA")
           e == encode_rr_soa(x, TheRRset(tree[AuthNode], "SOA"), FALSE)
           y == IF x.bad THEN x ELSE e
<1>1. c' = Bump([y EXCEPT !.rcode = "NXDOMAIN"]) BY Zenon DEF AnswerNxdomain
<1>2. IsContext(c) /\ (c.cut \/ Beyond(c) \/ Matched(tree, c)) BY <1>0 DEF ServeOK, RcodeOK
<1>3. Keeps(c, x) BY <1>2, CheckedKeeps
<1> HIDE DEF x
<1>4. IsContext(x) BY <1>2, <1>3, KeepsContext
<1>5. Keeps(x, e) BY <1>4, SoaKeeps
<1> HIDE DEF e
<1>6. Keeps(c, e) BY <1>3, <1>5, KeepsTrans
<1>7. Keeps(c, y) BY <1>3, <1>6
<1> HIDE DEF y
<1>8. ~Beyond(c) /\ Found(c.status, c.res) = "NXDOMAIN" BY <1>0 DEF Beyond, Found
<1>9. c.cut \/ (Matched(tree, c) /\ ~Beyond(c) /\ Found(c.status, c.res) = "NXDOMAIN") BY <1>2, <1>8
<1>10. ServeOK("answer", tree, q, c) BY <1>0
<1>11. ServeOK("outer", tree, q, c') BY <1>1, <1>7, <1>9, <1>10, CodeServe
<1> QED BY <1>0, <1>11

LEMMA NoauthServe ==
  ASSUME ServeOK(pc, tree, q, c), AnswerNoauth
  PROVE  ServeOK(pc', tree', q', c')
<1>0. pc = "answer" /\ pc' = "outer" /\ q' = q /\ tree' = tree /\ c.status = "NOAUTH" BY DEF AnswerNoauth
<1>1. /\ IsContext(c) /\ (c.cut \/ Beyond(c) \/ Matched(tree, c)) /\ c.rcode = "NOERROR" /\ c.counted = 0
  BY <1>0 DEF ServeOK, RcodeOK, CountOK
<1>2. CASE c.via
  <2>1. c' = c BY <1>2 DEF AnswerNoauth
  <2>2. Beyond(c) BY <1>0, <1>2 DEF Beyond
  <2>3. CountOK("outer", c) BY <1>1 DEF CountOK
  <2>4. RcodeOK("outer", tree, q, c) BY <1>1, <2>2 DEF RcodeOK
  <2>5. c.dyncs \in Nat /\ c.dyncs <= max_cname_depth BY DEF ServeOK, ChainOK
  <2>6. c.cut => ~c.static BY DEF ServeOK, ChainOK
  <2>7. ChainOK("outer", tree, q, c) BY <2>5, <2>6 DEF ChainOK
  <2> QED BY <1>0, <1>1, <2>1, <2>3, <2>4, <2>7 DEF ServeOK, Steps
<1>3. CASE ~c.via
  <2>1. c' = Bump([c EXCEPT !.rcode = "REFUSED"]) BY <1>3 DEF AnswerNoauth
  <2>2. ~Beyond(c) /\ Found(c.status, c.res) = "REFUSED" BY <1>0, <1>3 DEF Beyond, Found
  <2>3. c.cut \/ (Matched(tree, c) /\ ~Beyond(c) /\ Found(c.status, c.res) = "REFUSED") BY <1>1, <2>2
  <2>4. ServeOK("answer", tree, q, c) /\ Keeps(c, c) BY <1>0, KeepsSelf
  <2>5. ServeOK("outer", tree, q, c') BY <2>1, <2>3, <2>4, CodeServe
  <2> QED BY <1>0, <2>5
<1> QED BY <1>2, <1>3

\* The NS rrset of a node that has one.
LEMMA NsOf ==
  ASSUME NEW ty, NEW n \in DOMAIN tree, Shape(tree), Has(tree[n], ty)
  PROVE  IsRR(TheRRset(tree[n], ty)) /\ TheRRset(tree[n], ty).type = ty /\ IsSeq(TheRRset(tree[n], ty).rdata)
<1>1. IsNode(tree[n]) BY DEF Shape
<1>2. IsRR(TheRRset(tree[n], ty)) /\ TheRRset(tree[n], ty).type = ty BY <1>1, RRsetFound
<1> QED BY <1>2 DEF IsRR

LEMMA NodeServe ==
  ASSUME Running, ServeOK(pc, tree, q, c), AnswerNode
  PROVE  ServeOK(pc', tree', q', c')
<1>0. pc = "answer" /\ pc' = "authority" /\ q' = q /\ tree' = tree /\ c.status = "AUTH" BY DEF AnswerNode
<1> DEFINE ety == IF q.qtype = "AAAA" THEN "A" ELSE q.qtype
<1>1. PICK n \in c.res, dr \in DynAddrs : \E start \in Starts(n) :
        IF q.qtype = "ANY" THEN c' = encode_rrs_any(c, n, start, dr)
        ELSE IF Has(tree[n], ety)
        THEN \E d \in IF ety = "CNAME" THEN Targets(TheRRset(tree[n], ety)) ELSE {<<>>} :
               c' = Encode(c, n, TheRRset(tree[n], ety), start, dr, d)
        ELSE c' = c
  BY DEF AnswerNode
<1>2. PICK start \in Starts(n) :
        IF q.qtype = "ANY" THEN c' = encode_rrs_any(c, n, start, dr)
        ELSE IF Has(tree[n], ety)
        THEN \E d \in IF ety = "CNAME" THEN Targets(TheRRset(tree[n], ety)) ELSE {<<>>} :
               c' = Encode(c, n, TheRRset(tree[n], ety), start, dr, d)
        ELSE c' = c
  BY <1>1
<1> HIDE DEF ety
<1>3. IsContext(c) /\ n \in DOMAIN tree /\ c.res # {} /\ (q.qtype # "CNAME" => ~Has(tree[n], "CNAME"))
  BY <1>0 DEF ServeOK, ChainOK, NoCname
<1>4. Shape(tree) /\ IsNode(tree[n]) BY <1>3 DEF Running, TreeOK, Shape
<1>5. c.dyncs \in Nat /\ c.dyncs <= max_cname_depth /\ (q.qtype = "CNAME" => c.dyncs = 0)
  BY <1>0 DEF ServeOK, ChainOK
<1>6. ServeOK("answer", tree, q, c) BY <1>0
<1>7. ASSUME Keeps(c, c') PROVE ServeOK("authority", tree, q, c')
  <2>1. KeepsAllBut(c, c') /\ c'.qname = c.qname /\ c'.dyncs = c.dyncs BY <1>7 DEF Keeps
  <2>2. c'.dyncs \in Nat /\ c'.dyncs <= max_cname_depth BY <1>5, <2>1
  <2> QED BY <1>0, <1>3, <1>6, <2>1, <2>2, EncodedNode
<1>8. CASE q.qtype = "ANY"
  <2>1. c' = encode_rrs_any(c, n, start, dr) BY <1>2, <1>8
  <2>2. ~Has(tree[n], "CNAME") BY <1>3, <1>8
  <2>3. Keeps(c, encode_rrs_any(c, n, start, dr)) BY <1>3, <1>4, <2>2, AnyKeeps
  <2> QED BY <1>0, <1>7, <2>1, <2>3
<1>9. CASE q.qtype # "ANY" /\ ~Has(tree[n], ety)
  <2>1. c' = c BY <1>2, <1>9
  <2>2. Keeps(c, c') BY <2>1, KeepsSelf
  <2> QED BY <1>0, <1>7, <2>2
<1>10. CASE q.qtype # "ANY" /\ Has(tree[n], ety) /\ ety # "CNAME"
  <2>1. PICK d : c' = Encode(c, n, TheRRset(tree[n], ety), start, dr, d) BY <1>2, <1>10
  <2>2. IsRR(TheRRset(tree[n], ety)) /\ TheRRset(tree[n], ety).type # "CNAME" BY <1>3, <1>4, <1>10, NsOf
  <2>3. Keeps(c, Encode(c, n, TheRRset(tree[n], ety), start, dr, d)) BY <1>3, <2>2, EncodeKeeps
  <2> QED BY <1>0, <1>7, <2>1, <2>3
<1>11. CASE q.qtype # "ANY" /\ Has(tree[n], ety) /\ ety = "CNAME"
  <2> DEFINE r == TheRRset(tree[n], ety)
             more == IF r.static THEN 0 ELSE 1
             y == [c EXCEPT !.dyncs = @ + more]
  <2>1. PICK d : c' = Encode(c, n, r, start, dr, d) BY <1>2, <1>11
  <2>2. r.type = "CNAME" BY <1>3, <1>4, <1>11, NsOf
  <2> HIDE DEF r
  <2>3. c' = encode_rr_cname(y, d, TRUE) BY <2>1, <2>2 DEF Encode
  <2>4. more \in {0, 1} OBVIOUS
  <2> HIDE DEF more
  <2>5. KeepsAllBut(c, y) /\ y.qname = c.qname /\ y.dyncs = c.dyncs + more /\ IsContext(y)
    BY <1>3 DEF KeepsAllBut, IsContext, Kept
  <2> HIDE DEF y
  <2>6. Keeps(y, c')
    <3>1. Keeps(y, encode_rr_cname(y, d, TRUE)) BY <2>5, CnameAnswered
    <3> QED BY <2>3, <3>1
  <2>7. KeepsAllBut(c, c') /\ c'.qname = c.qname /\ c'.dyncs = c.dyncs + more
    BY <2>5, <2>6 DEF Keeps, KeepsAllBut
  <2>8. c'.dyncs \in Nat /\ c'.dyncs <= max_cname_depth
    <3>1. q.qtype = "CNAME" BY <1>11 DEF ety
    <3>2. c.dyncs = 0 /\ max_cname_depth \in Nat \ {0} BY <1>5, <3>1, LimitsAssumption
    <3>3. c'.dyncs = 0 + more BY <2>7, <3>2
    <3> QED BY <2>4, <3>2, <3>3
  <2>9. ServeOK("authority", tree, q, c') BY <1>0, <1>3, <1>6, <2>7, <2>8, EncodedNode
  <2> QED BY <1>0, <2>9
<1> QED BY <1>8, <1>9, <1>10, <1>11

LEMMA ReferralServe ==
  ASSUME Running, ServeOK(pc, tree, q, c), AnswerReferral
  PROVE  ServeOK(pc', tree', q', c')
<1>0. pc = "answer" /\ pc' = "outer" /\ q' = q /\ tree' = tree /\ c.status = "DELEG" BY DEF AnswerReferral
<1>1. PICK n \in c.res, dr \in DynAddrs : \E start \in Starts(n) :
        LET x == Checked(c, n, "NS")
        IN  c' = IF x.bad THEN x ELSE encode_rrs_ns(x, TheRRset(tree[n], "NS"), FALSE, start, dr)
  BY DEF AnswerReferral
<1> DEFINE x == Checked(c, n, "NS")
           r == TheRRset(tree[n], "NS")
<1>2. PICK start \in Starts(n) : c' = IF x.bad THEN x ELSE encode_rrs_ns(x, r, FALSE, start, dr) BY <1>1
<1>3. IsContext(c) /\ Matched(tree, c)
  <2>1. ~c.cut BY <1>0, <1>1 DEF ServeOK, RcodeOK
  <2>2. ~Beyond(c) BY <1>0 DEF Beyond
  <2> QED BY <1>0, <2>1, <2>2 DEF ServeOK, RcodeOK
<1>4. Shape(tree) /\ n \in DOMAIN tree
  <2>1. n \in NodeFound(tree, c.qname) /\ c.qname \in Name BY <1>3 DEF Matched
  <2> QED BY <2>1, NodeFoundIs DEF Running, TreeOK
<1>5. Keeps(c, x) BY <1>3, CheckedKeeps
<1>6. ~x.bad => Has(tree[n], "NS")
  <2>1. "bad" \in DOMAIN c BY <1>3 DEF IsContext, Kept
  <2> QED BY <2>1 DEF Checked
<1> HIDE DEF x
<1>7. IsContext(x) BY <1>3, <1>5, KeepsContext
<1>8. CASE x.bad
  <2>1. Keeps(c, c') BY <1>2, <1>5, <1>8
  <2> QED BY <1>0, <2>1, EncodedReferral
<1>9. CASE ~x.bad
  <2>1. IsSeq(r.rdata) BY <1>4, <1>6, <1>9, NsOf
  <2> HIDE DEF r
  <2>2. c' = encode_rrs_ns(x, r, FALSE, start, dr) BY <1>2, <1>9
  <2>3. Keeps(x, encode_rrs_ns(x, r, FALSE, start, dr)) BY <1>7, <2>1, NsKeeps
  <2>4. Keeps(c, c') BY <1>5, <2>2, <2>3, KeepsTrans
  <2> QED BY <1>0, <2>4, EncodedReferral
<1> QED BY <1>8, <1>9

LEMMA AuthorityServe ==
  ASSUME Running, ServeOK(pc, tree, q, c), Authority
  PROVE  ServeOK(pc', tree', q', c')
<1>0. pc = "authority" /\ pc' = "outer" /\ q' = q /\ tree' = tree BY DEF Authority
<1> DEFINE w == Checked(c, AuthNode, "SOA")
           x == Checked(w, AuthNode, "NS")
           optns == /\ include_optional_ns /\ q.qtype # "NS"
                    /\ q.qtype # "ANY" \/ c.res # c.auth
           soa == TheRRset(tree[AuthNode], "SOA")
           ns == TheRRset(tree[AuthNode], "NS")
<1>1. PICK dr \in DynAddrs, start \in Starts(AuthNode) :
        c' = IF x.bad THEN x
             ELSE IF c.an = 0 THEN encode_rr_soa(x, soa, FALSE)
             ELSE IF optns THEN encode_rrs_ns(x, ns, FALSE, start, dr) ELSE x
  BY Zenon DEF Authority
<1>2. IsContext(c) /\ Matched(tree, c) /\ c.status = "AUTH"
  <2>1. c.status = "AUTH" /\ ~c.cut BY <1>0 DEF ServeOK, RcodeOK
  <2>2. ~Beyond(c) BY <2>1 DEF Beyond
  <2> QED BY <1>0, <2>1, <2>2 DEF ServeOK, RcodeOK
<1>3. Shape(tree) /\ AuthNode \in DOMAIN tree
  <2>1. c.qname \in Name /\ c.auth = AuthIn(tree, c.qname) /\ StatusIn(tree, c.qname) # "NOAUTH"
    BY <1>2 DEF Matched
  <2>2. PICK z : c.auth = {z} /\ Root(tree, z) BY <2>1, AuthIs DEF Running
  <2>3. AuthNode = z BY <2>2 DEF AuthNode
  <2> QED BY <2>2, <2>3 DEF Root, Running, TreeOK
<1>4. Keeps(c, w) BY <1>2, CheckedKeeps
<1> HIDE DEF w, optns
<1>5. IsContext(w) BY <1>2, <1>4, KeepsContext
<1>6. Keeps(w, x) BY <1>5, CheckedKeeps
<1>7. ~x.bad => Has(tree[AuthNode], "NS")
  <2>1. "bad" \in DOMAIN w BY <1>5 DEF IsContext, Kept
  <2> QED BY <2>1 DEF Checked
<1> HIDE DEF x
<1>8. Keeps(c, x) /\ IsContext(x) BY <1>4, <1>5, <1>6, KeepsTrans, KeepsContext
<1>10. CASE c' = x
  <2>1. Keeps(c, c') BY <1>8, <1>10
  <2> QED BY <1>0, <2>1, EncodedAuthority
<1>9. CASE c' = encode_rr_soa(x, soa, FALSE)
  <2> HIDE DEF soa
  <2>1. Keeps(x, encode_rr_soa(x, soa, FALSE)) BY <1>8, SoaKeeps
  <2>2. Keeps(c, encode_rr_soa(x, soa, FALSE)) BY <1>8, <2>1, KeepsTrans
  <2>3. Keeps(c, c') BY <1>9, <2>2
  <2> QED BY <1>0, <2>3, EncodedAuthority
<1>11. CASE ~x.bad /\ c' = encode_rrs_ns(x, ns, FALSE, start, dr)
  <2>1. IsSeq(ns.rdata) BY <1>3, <1>7, <1>11, NsOf
  <2> HIDE DEF ns
  <2>2. Keeps(x, encode_rrs_ns(x, ns, FALSE, start, dr)) BY <1>8, <2>1, NsKeeps
  <2>3. Keeps(c, c') BY <1>8, <1>11, <2>2, KeepsTrans
  <2> QED BY <1>0, <2>3, EncodedAuthority
<1> HIDE DEF soa, ns
<1>12. \/ c' = x \/ c' = encode_rr_soa(x, soa, FALSE)
       \/ ~x.bad /\ c' = encode_rrs_ns(x, ns, FALSE, start, dr)
  BY <1>1
<1> QED BY <1>9, <1>10, <1>11, <1>12

LEMMA TruncateServe ==
  ASSUME ServeOK(pc, tree, q, c), Truncate
  PROVE  ServeOK(pc', tree', q', c')
<1>0. pc = "outer" /\ pc' = "finish" /\ q' = q /\ tree' = tree BY DEF Truncate
<1>1. c' = [c EXCEPT !.an = 0, !.ns = 0, !.ar = 0, !.tc = TRUE, !.pkt = Question(q.qname)] BY DEF Truncate
<1>2. IsContext(c) BY DEF ServeOK
<1>3. Keeps(c, c') BY <1>1, <1>2 DEF Keeps, KeepsAllBut, IsContext, Kept
<1> QED BY <1>0, <1>3, EncodedRest

LEMMA TrimServe ==
  ASSUME ServeOK(pc, tree, q, c), Trim
  PROVE  ServeOK(pc', tree', q', c')
<1>0. pc = "outer" /\ pc' = "finish" /\ q' = q /\ tree' = tree BY DEF Trim
<1>1. PICK keep : c' = [c EXCEPT !.pkt = @ \o SubSeq(c.add, 1, AddtlOff(c, keep)), !.ar = AddtlAr(c, keep),
                                 !.addtl = SubSeq(@, 1, keep)]
  BY DEF Trim
<1>2. IsContext(c) BY DEF ServeOK
<1>3. Keeps(c, c') BY <1>1, <1>2 DEF Keeps, KeepsAllBut, IsContext, Kept
<1> QED BY <1>0, <1>3, EncodedRest

LEMMA FinishServe ==
  ASSUME ServeOK(pc, tree, q, c), Finish
  PROVE  ServeOK(pc', tree', q', c')
<1>0. pc = "finish" /\ pc' = "done" /\ q' = q /\ tree' = tree BY DEF Finish
<1> DEFINE y == IF c.rcode = "NOERROR" THEN Bump(c) ELSE c
           x == IF q.edns = "none" THEN y
                ELSE [y EXCEPT !.pkt = @ \o OptOut(q), !.ar = @ + 1]
<1>1. c' = [x EXCEPT !.hdr = <<x.cn + x.an, x.ns, x.ar>>] BY DEF Finish
<1>2. IsContext(c) /\ (c.rcode = "NOERROR" => c.counted = 0) /\ (c.rcode # "NOERROR" => c.counted = 1)
  BY <1>0 DEF ServeOK, CountOK
<1>3. /\ DOMAIN y = DOMAIN c /\ y.status = c.status /\ y.dyncs = c.dyncs /\ y.qname = c.qname /\ y.rcode = c.rcode
      /\ y.cut = c.cut /\ y.static = c.static /\ y.via = c.via /\ y.counted = 1
  BY <1>2 DEF Bump, IsContext, Kept
<1> HIDE DEF y
<1>4. IsContext(y) BY <1>2, <1>3 DEF IsContext
<1>5. Keeps(y, x) BY <1>4 DEF Keeps, KeepsAllBut, IsContext, Kept
<1> HIDE DEF x
<1>6. IsContext(x) BY <1>4, <1>5, KeepsContext
<1>7. Keeps(x, c') BY <1>1, <1>6 DEF Keeps, KeepsAllBut, IsContext, Kept
<1>8. Keeps(y, c') BY <1>5, <1>7, KeepsTrans
<1>9. IsContext(c') BY <1>4, <1>8, KeepsContext
<1>10. /\ c'.status = c.status /\ c'.dyncs = c.dyncs /\ c'.qname = c.qname /\ c'.rcode = c.rcode
       /\ c'.cut = c.cut /\ c'.static = c.static /\ c'.via = c.via /\ c'.counted = 1
  BY <1>3, <1>8 DEF Keeps, KeepsAllBut
<1>11. CountOK("done", c') BY <1>10 DEF CountOK
<1>12. ChainOK("done", tree, q, c')
  <2>1. c.dyncs \in Nat /\ c.dyncs <= max_cname_depth BY DEF ServeOK, ChainOK
  <2>2. c.cut => ~c.static BY DEF ServeOK, ChainOK
  <2>3. c'.dyncs \in Nat /\ c'.dyncs <= max_cname_depth BY <1>10, <2>1
  <2>4. c'.cut => ~c'.static BY <1>10, <2>2
  <2> QED BY <2>3, <2>4 DEF ChainOK
<1>13. RcodeOK("done", tree, q, c')
  <2>1. /\ Open(q, c) /\ Beyond(c) => c.rcode = "NOERROR"
        /\ Open(q, c) /\ ~Beyond(c) => Expected(tree, c)
    BY <1>0 DEF ServeOK, RcodeOK
  <2>2. /\ (Open(q, c') <=> Open(q, c)) /\ (Beyond(c') <=> Beyond(c)) /\ (Expected(tree, c') <=> Expected(tree, c))
    BY <1>10 DEF Open, Beyond, Expected
  <2> QED BY <1>10, <2>1, <2>2 DEF RcodeOK
<1>14. ServeOK("done", tree, q, c') BY <1>9, <1>11, <1>12, <1>13 DEF ServeOK, Steps
<1> QED BY <1>0, <1>14

\* An idle thread does not look at the tree.
LEMMA IdleServe ==
  ASSUME NEW t, NEW s, NEW u, NEW x, ServeOK("idle", t, u, x)
  PROVE  ServeOK("idle", s, u, x)
BY DEF ServeOK, CountOK, ChainOK, RcodeOK

LEMMA QueryServe ==
  ASSUME LoadInv, ServeInv, Query
  PROVE  ServeInv'
<1>1. UNCHANGED ltree /\ phase = "run"
  <2>1. UNCHANGED ltree
    BY DEF Query, Receive, Search, ChainTooLongNow, FollowCname, ChainDone, AnswerNxdomain, AnswerNode,
           Authority, AnswerReferral, AnswerNoauth, Truncate, Trim, Finish, Sent, ltree
  <2>2. pc # "idle" \/ phase = "run"
    BY DEF Query, Receive, Search, ChainTooLongNow, FollowCname, ChainDone, AnswerNxdomain, AnswerNode,
           Authority, AnswerReferral, AnswerNoauth, Truncate, Trim, Finish, Sent
  <2> QED BY <2>1, <2>2 DEF ServeInv
<1>2. Running BY <1>1 DEF LoadInv, TreeInv, Running
<1>3. ServeOK(pc, tree, q, c) BY DEF ServeInv
<1>4. ServeOK(pc', tree', q', c')
  <2>1. CASE \E u \in Queries : Receive(u) BY <2>1, ReceiveServe
  <2>2. CASE Search BY <1>2, <1>3, <2>2, SearchServe
  <2>3. CASE ChainTooLongNow BY <1>2, <1>3, <2>3, TooLongServe
  <2>4. CASE FollowCname BY <1>2, <1>3, <2>4, FollowServe
  <2>5. CASE ChainDone BY <1>2, <1>3, <2>5, ChainDoneServe
  <2>6. CASE AnswerNxdomain BY <1>2, <1>3, <2>6, NxdomainServe
  <2>7. CASE AnswerNode BY <1>2, <1>3, <2>7, NodeServe
  <2>8. CASE Authority BY <1>2, <1>3, <2>8, AuthorityServe
  <2>9. CASE AnswerReferral BY <1>2, <1>3, <2>9, ReferralServe
  <2>10. CASE AnswerNoauth BY <1>2, <1>3, <2>10, NoauthServe
  <2>11. CASE Truncate BY <1>3, <2>11, TruncateServe
  <2>12. CASE Trim BY <1>3, <2>12, TrimServe
  <2>13. CASE Finish BY <1>3, <2>13, FinishServe
  <2>14. CASE Sent BY <2>14, SentServe
  <2> QED BY <2>1, <2>2, <2>3, <2>4, <2>5, <2>6, <2>7, <2>8, <2>9, <2>10, <2>11, <2>12, <2>13, <2>14 DEF Query
<1> QED BY <1>1, <1>4 DEF ServeInv, ltree

LEMMA ServeStep ==
  ASSUME LoadInv, ServeInv, [Next]_vars
  PROVE  LoadInv' /\ ServeInv'
<1>1. CASE Load /\ UNCHANGED <<pc, q, c>>
  <2>1. LoadInv' BY <1>1, LoadStep
  <2>2. phase # "run"
    BY <1>1 DEF Load, AddZone, ScanRecord, NoRecord, Phase1, Phase2
  <2>3. pc = "idle" /\ ServeOK("idle", tree, q, c) BY <2>2 DEF ServeInv
  <2>4. ServeOK("idle", tree', q, c) BY <2>3, IdleServe
  <2> QED BY <1>1, <2>1, <2>3, <2>4 DEF ServeInv
<1>2. CASE Query
  <2>1. ServeInv' BY <1>2, QueryServe
  <2>2. UNCHANGED ltree
    BY <1>2 DEF Query, Receive, Search, ChainTooLongNow, FollowCname, ChainDone, AnswerNxdomain, AnswerNode,
           Authority, AnswerReferral, AnswerNoauth, Truncate, Trim, Finish, Sent, ltree
  <2> QED BY <2>1, <2>2, LoadStep
<1>3. CASE UNCHANGED vars
  <2>1. UNCHANGED ltree /\ UNCHANGED <<pc, q, c>> BY <1>3 DEF vars, ltree
  <2>2. LoadInv' BY <2>1, LoadStep
  <2>3. tree' = tree /\ phase' = phase BY <1>3 DEF vars
  <2> QED BY <2>1, <2>2, <2>3 DEF ServeInv
<1> QED BY <1>1, <1>2, <1>3 DEF Next

\* The tree and the request being served are always as LoadInv and ServeInv say.
THEOREM ServeAlways == Spec => [](LoadInv /\ ServeInv)
<1>1. DnsInit => LoadInv /\ ServeInv BY LoadInit, ServeInit DEF DnsInit
<1>2. LoadInv /\ ServeInv /\ [Next]_vars => LoadInv' /\ ServeInv' BY ServeStep
<1> QED BY <1>1, <1>2, PTL DEF Spec

\* A chain of CNAMEs that is cut at run time has a DYNC in it, for any records that
\* loading accepts and any max_cname_depth, and the plugins never give more names
\* than answer_from_db() has room for.
THEOREM ChainsBoundedAlways == Spec => []ChainsBounded
<1>1. ServeInv => ChainsBounded
  <2> SUFFICES ASSUME ServeInv PROVE ChainsBounded OBVIOUS
  <2>1. c.cut => ~c.static BY DEF ServeInv, ServeOK, ChainOK
  <2>2. c.dyncs <= max_cname_depth BY DEF ServeInv, ServeOK, ChainOK
  <2> QED BY <2>1, <2>2 DEF ChainsBounded
<1> QED BY <1>1, ServeAlways, PTL

\* Every response to a query that was understood has the code its zone files call
\* for, whatever zones and records were loaded, and every request is counted once.
THEOREM RcodeMatchesAlways == Spec => []RcodeMatches
<1>1. LoadInv /\ ServeInv => RcodeMatches
  <2> SUFFICES ASSUME LoadInv, ServeInv PROVE RcodeMatches OBVIOUS
  <2>1. pc = "done" => c.counted = 1 BY DEF ServeInv, ServeOK, CountOK
  <2>2. ASSUME Responded, q.edns \notin {"badvers", "formerr"}, ~q.chaos, ~c.cut
        PROVE  c.rcode = IF c.via /\ c.status = "NOAUTH" THEN "NOERROR" ELSE ExpectedRcode(c.qname)
    <3>1. pc = "done" /\ Open(q, c) BY <2>2 DEF Responded, Open
    <3>2. TreeOK("run", tree, loaded)
      <4>1. phase = "run" BY <3>1 DEF ServeInv
      <4> QED BY <4>1 DEF LoadInv, TreeInv
    <3>3. Beyond(c) => c.rcode = "NOERROR" BY <3>1 DEF ServeInv, ServeOK, RcodeOK
    <3>4. ~Beyond(c) => Expected(tree, c) BY <3>1 DEF ServeInv, ServeOK, RcodeOK
    <3>5. ~Beyond(c) => c.rcode = ExpectedRcode(c.qname) BY <3>2, <3>4, ExpectedFound DEF Expected
    <3> QED BY <3>3, <3>5 DEF Beyond
  <2> QED BY <2>1, <2>2 DEF RcodeMatches
<1> QED BY <1>1, ServeAlways, PTL

-----------------------------------------------------------------------------
(* The address rrsets that phase 1 has linked to records.                  *)

AddrIn(t, o, ad) == IF ad[1] = "ooz" THEN o[<<ad[2], ad[3]>>] ELSE TheRRset(t[ad[2]], "A")
AdsOK(t, o, r) ==
  r.type \in {"NS", "MX", "SRV"} => \A j \in 1..Len(r.rdata) : \A ad \in r.rdata[j].ad : Numbers(AddrIn(t, o, ad))
Links(t, o) ==
  \A n \in DOMAIN t : "AUTH" \in t[n].flags => \A i \in 1..Len(t[n].rrsets) : AdsOK(t, o, t[n].rrsets[i])
OozOK(o) == \A key \in DOMAIN o : DOMAIN o[key] = RRFields /\ Numbers(o[key])

LinkInv == OozOK(ooz) /\ (phase \in {"phase2", "run"} => Links(tree, ooz))

LEMMA LinkInit == Init => LinkInv
BY DEF Init, LinkInv, OozOK

LEMMA Phase1Rrsets ==
  ASSUME Shape(tree), Phase1, ~\E n \in DOMAIN tree : Phase1Fatal(n), NEW n \in DOMAIN tree
  PROVE  /\ Len(tree'[n].rrsets) = Len(tree[n].rrsets)
         /\ \A i \in 1..Len(tree[n].rrsets) :
              /\ tree'[n].rrsets[i].type = tree[n].rrsets[i].type
              /\ tree[n].flags # {} => tree'[n].rrsets[i] = Linked(ZoneRoot(n), tree[n].rrsets[i])
<1> DEFINE used == UNION {UNION {proc_ns(ZoneRoot(m), d).used : d \in NsNames(m)} : m \in DOMAIN tree}
           fl(m) == tree[m].flags \cup (IF m \in used THEN {"GUSED"} ELSE {})
           lk(m) == [i \in DOMAIN tree[m].rrsets |-> Linked(ZoneRoot(m), tree[m].rrsets[i])]
           rs(m) == IF tree[m].flags # {} THEN lk(m) ELSE tree[m].rrsets
           x == tree[n]
<1>1. tree' = [m \in DOMAIN tree |-> [flags |-> fl(m), rrsets |-> rs(m)]] BY DEF Phase1
<1>2. tree'[n].rrsets = rs(n) BY <1>1
<1>3. Len(x.rrsets) \in Nat /\ DOMAIN x.rrsets = 1..Len(x.rrsets)
      /\ \A i \in 1..Len(x.rrsets) : IsRR(x.rrsets[i])
  BY DEF Shape, IsNode, IsSeq
<1>4. DOMAIN lk(n) = 1..Len(x.rrsets) /\ \A i \in 1..Len(x.rrsets) : lk(n)[i] = Linked(ZoneRoot(n), x.rrsets[i])
  BY <1>3
<1>5. Len(lk(n)) = Len(x.rrsets) BY <1>3, <1>4
<1> HIDE DEF lk, used
<1>6. CASE tree[n].flags # {} BY <1>2, <1>3, <1>4, <1>5, <1>6, LinkedIs
<1>7. CASE tree[n].flags = {} BY <1>2, <1>7
<1> QED BY <1>6, <1>7

\* What ltree_search_dname() finds is one node of the tree.
LEMMA SearchNode ==
  ASSUME Shape(tree), NEW d \in Name, NEW zr, NEW m \in ltree_search_dname(d, zr).node
  PROVE  m \in DOMAIN tree /\ \A n \in ltree_search_dname(d, zr).node : n = m
<1> DEFINE node == IF Deepest(d) = d THEN IF Status(d) = "NOAUTH" THEN {} ELSE {d}
                   ELSE IF Status(d) = "AUTH" THEN Wildcard(d) ELSE {}
<1>1. ltree_search_dname(d, zr).node = node BY DEF ltree_search_dname
<1>2. Deepest(d) \in DOMAIN tree
  <2>1. Path(d) \cap DOMAIN tree \in SUBSET Path(d) /\ <<>> \in Path(d) \cap DOMAIN tree BY PathSelf DEF Shape
  <2>2. Longest(Path(d) \cap DOMAIN tree) \in Path(d) \cap DOMAIN tree BY <2>1, LongestIs
  <2> QED BY <2>2 DEF Deepest
<1>3. Wildcard(d) \subseteq {<<Star>> \o Deepest(d)} /\ Wildcard(d) \subseteq DOMAIN tree BY DEF Wildcard
<1>4. m \in node BY <1>1
<1>5. CASE Deepest(d) = d BY <1>1, <1>2, <1>4, <1>5
<1>6. CASE Deepest(d) # d
  <2>1. m \in Wildcard(d) /\ node = Wildcard(d) BY <1>4, <1>6
  <2> HIDE DEF node
  <2> QED BY <1>1, <1>3, <2>1
<1> QED BY <1>5, <1>6

LEMMA TreeAd ==
  ASSUME Shape(tree), Shape(tree'), Phase1, ~\E n \in DOMAIN tree : Phase1Fatal(n),
         NEW d \in Name, NEW zr, NodeHas(ltree_search_dname(d, zr).node, "A"),
         NEW m \in ltree_search_dname(d, zr).node
  PROVE  Numbers(AddrIn(tree', ooz', <<"tree", m>>))
<1>1. m \in DOMAIN tree /\ Has(tree[m], "A") BY SearchNode DEF NodeHas
<1>2. DOMAIN tree' = DOMAIN tree BY DEF Phase1
<1>3. IsNode(tree[m]) /\ IsNode(tree'[m]) BY <1>1, <1>2 DEF Shape
<1>4. PICK i \in 1..Len(tree[m].rrsets) : tree[m].rrsets[i].type = "A" BY <1>1, <1>3, HasIs
<1>5. tree'[m].rrsets[i].type = "A" /\ i \in 1..Len(tree'[m].rrsets) BY <1>1, <1>4, Phase1Rrsets
<1>6. Has(tree'[m], "A") BY <1>3, <1>5, HasIs
<1>7. Numbers(TheRRset(tree'[m], "A")) BY <1>3, <1>6, RRsetFound DEF IsRR
<1>8. AddrIn(tree', ooz', <<"tree", m>>) = TheRRset(tree'[m], "A") BY DEF AddrIn
<1> QED BY <1>7, <1>8

LEMMA OozFixed ==
  ASSUME OozOK(ooz), Phase1, ~\E n \in DOMAIN tree : Phase1Fatal(n)
  PROVE  OozOK(ooz') /\ DOMAIN ooz' = DOMAIN ooz
<1>1. ooz' = [key \in DOMAIN ooz |-> fix_addr_limits(ooz[key])] BY DEF Phase1
<1> QED BY <1>1, FixNumbers DEF OozOK

LEMMA LinkedAds ==
  ASSUME Shape(tree), Shape(tree'), OozOK(ooz), Phase1, ~\E n \in DOMAIN tree : Phase1Fatal(n),
         NEW zr, NEW r, IsRR(r)
  PROVE  AdsOK(tree', ooz', Linked(zr, r))
<1>0. DOMAIN r = RRFields /\ IsSeq(r.rdata) /\ Linked(zr, r).type = r.type BY LinkedIs DEF IsRR
<1>0a. Len(r.rdata) \in Nat /\ DOMAIN r.rdata = 1..Len(r.rdata) BY <1>0 DEF IsSeq
<1>1. CASE r.type = "NS"
  <2> DEFINE e(i) == LET p == proc_ns(zr, r.rdata[i].dname)
                     IN  [dname |-> r.rdata[i].dname, ad |-> p.ad, glue |-> p.glue]
             f == [i \in DOMAIN r.rdata |-> e(i)]
  <2>1. Linked(zr, r) = [r EXCEPT !.rdata = f] BY <1>1 DEF Linked
  <2>2. Linked(zr, r).rdata = f BY <1>0, <2>1 DEF RRFields
  <2>3. DOMAIN f = 1..Len(r.rdata) BY <1>0a
  <2>4. Len(f) = Len(r.rdata) BY <1>0a, <2>3
  <2>5. \A i \in 1..Len(r.rdata) : f[i].ad = proc_ns(zr, r.rdata[i].dname).ad BY <1>0a
  <2> HIDE DEF f
  <2>6. ASSUME NEW j \in 1..Len(r.rdata), NEW ad \in proc_ns(zr, r.rdata[j].dname).ad
        PROVE  Numbers(AddrIn(tree', ooz', ad))
    <3> DEFINE d == r.rdata[j].dname
               s == ltree_search_dname(d, zr)
               found == s.status # "NOAUTH" /\ NodeHas(s.node, "A")
               isooz == ~s.crossed /\ <<zr, d>> \in DOMAIN ooz
    <3>1. d \in Name BY <1>1 DEF IsRR, RdataOK
    <3>2. proc_ns(zr, d).ad = IF isooz THEN {<<"ooz", zr, d>>}
                              ELSE IF found THEN {<<"tree", n>> : n \in s.node} ELSE {}
      BY DEF proc_ns
    <3>3. CASE isooz
      <4>1. ad = <<"ooz", zr, d>> BY <2>6, <3>2, <3>3
      <4>2. AddrIn(tree', ooz', ad) = ooz'[<<zr, d>>] BY <4>1 DEF AddrIn
      <4> QED BY <3>3, <4>2, OozFixed DEF OozOK
    <3>4. CASE ~isooz
      <4>1. found /\ ad \in {<<"tree", n>> : n \in s.node} BY <2>6, <3>2, <3>4
      <4>2. PICK n \in s.node : ad = <<"tree", n>> BY <4>1
      <4> QED BY <3>1, <4>1, <4>2, TreeAd
    <3> QED BY <3>3, <3>4
  <2> QED BY <2>2, <2>4, <2>5, <2>6 DEF AdsOK
<1>2. CASE r.type \in {"MX", "SRV"}
  <2> DEFINE e(i) == [Rdata(r.rdata[i].dname) EXCEPT !.ad = valid_addr(zr, r.rdata[i].dname)]
             f == [i \in DOMAIN r.rdata |-> e(i)]
  <2>1. Linked(zr, r) = [r EXCEPT !.rdata = f] BY <1>2 DEF Linked
  <2>2. Linked(zr, r).rdata = f BY <1>0, <2>1 DEF RRFields
  <2>3. DOMAIN f = 1..Len(r.rdata) BY <1>0a
  <2>4. Len(f) = Len(r.rdata) BY <1>0a, <2>3
  <2>5. \A i \in 1..Len(r.rdata) : f[i].ad = valid_addr(zr, r.rdata[i].dname) BY <1>0a DEF Rdata
  <2> HIDE DEF f
  <2>6. ASSUME NEW j \in 1..Len(r.rdata), NEW ad \in valid_addr(zr, r.rdata[j].dname)
        PROVE  Numbers(AddrIn(tree', ooz', ad))
    <3> DEFINE d == r.rdata[j].dname
               s == ltree_search_dname(d, zr)
    <3>1. d \in Name BY <1>2 DEF IsRR, RdataOK
    <3>2. NodeHas(s.node, "A") /\ ad \in {<<"tree", n>> : n \in s.node} BY <2>6 DEF valid_addr
    <3>3. PICK n \in s.node : ad = <<"tree", n>> BY <3>2
    <3> QED BY <3>1, <3>2, <3>3, TreeAd
  <2> QED BY <2>2, <2>4, <2>5, <2>6 DEF AdsOK
<1> QED BY <1>0, <1>1, <1>2 DEF AdsOK

LEMMA LinkPhase1 == ASSUME LoadInv, LoadInv', LinkInv, Phase1 PROVE LinkInv'
<1>1. CASE \E n \in DOMAIN tree : Phase1Fatal(n)
  BY <1>1 DEF Phase1, Fatal, LinkInv
<1>2. CASE ~\E n \in DOMAIN tree : Phase1Fatal(n)
  <2>1. Shape(tree) /\ Shape(tree') /\ OozOK(ooz) BY DEF LoadInv, TreeInv, TreeOK, LinkInv
  <2>2. OozOK(ooz') BY <1>2, <2>1, OozFixed
  <2>3. ASSUME NEW n \in DOMAIN tree', "AUTH" \in tree'[n].flags, NEW i \in 1..Len(tree'[n].rrsets)
        PROVE  AdsOK(tree', ooz', tree'[n].rrsets[i])
    <3>1. Alike(tree, tree') BY <1>2, <2>1, Phase1Alike
    <3>2. n \in DOMAIN tree /\ tree[n].flags # {} BY <2>3, <3>1 DEF Alike
    <3>3. i \in 1..Len(tree[n].rrsets) /\ tree'[n].rrsets[i] = Linked(ZoneRoot(n), tree[n].rrsets[i])
      BY <1>2, <2>1, <2>3, <3>2, Phase1Rrsets
    <3>4. IsRR(tree[n].rrsets[i]) BY <2>1, <3>2, <3>3 DEF Shape, IsNode
    <3>5. AdsOK(tree', ooz', Linked(ZoneRoot(n), tree[n].rrsets[i])) BY <1>2, <2>1, <3>4, LinkedAds
    <3> QED BY <3>3, <3>5
  <2>4. Links(tree', ooz') BY <2>3 DEF Links
  <2> QED BY <2>2, <2>4 DEF LinkInv
<1> QED BY <1>1, <1>2

LEMMA LinkScan == ASSUME LinkInv, LoadInv, ScanRecord PROVE LinkInv'
<1> DEFINE r == Records[pos]
<1>0. IsRecord(r) /\ r.type \in RecordType BY RecordIs DEF ScanRecord, IsRecord
<1>1. Record(r) /\ phase = "scan" BY DEF ScanRecord
<1> HIDE DEF r
<1>2. phase' \in {"scan", "fatal"}
  BY <1>0, <1>1 DEF Record, AddSingle, AddAddr, AddMulti, AddOozAddr, RecordType
<1>3. ooz' = ooz \/ (r.type \in {"A", "AAAA"} /\ AddOozAddr(r))
  BY <1>0, <1>1 DEF Record, AddSingle, AddAddr, AddMulti, RecordType
<1>4. CASE r.type \in {"A", "AAAA"} /\ AddOozAddr(r)
  <2> DEFINE key == <<r.zone, r.name>>
             old == IF key \in DOMAIN ooz THEN ooz[key] ELSE Rrset("A", TRUE, <<>>)
  <2>1. \/ ooz' = ooz
        \/ ooz' = [j \in DOMAIN ooz \cup {key} |-> IF j = key THEN WithAddr(r, old) ELSE ooz[j]]
    BY <1>4 DEF AddOozAddr
  <2>2. DOMAIN old = RRFields /\ Numbers(old)
    <3>1. CASE key \in DOMAIN ooz BY <3>1 DEF LinkInv, OozOK
    <3>2. CASE key \notin DOMAIN ooz BY <3>2 DEF Rrset, RRFields, Numbers
    <3> QED BY <3>1, <3>2
  <2> HIDE DEF old, key
  <2>3. DOMAIN WithAddr(r, old) = RRFields /\ Numbers(WithAddr(r, old)) BY <1>0, <1>4, <2>2, AddrNumbers
  <2>4. OozOK(ooz') BY <2>1, <2>3 DEF OozOK, LinkInv
  <2> QED BY <1>2, <2>4 DEF LinkInv
<1>5. CASE ooz' = ooz BY <1>2, <1>5 DEF LinkInv
<1> QED BY <1>3, <1>4, <1>5

LEMMA LinkStep == ASSUME LoadInv, LoadInv', LinkInv, Load \/ UNCHANGED ltree PROVE LinkInv'
<1>1. CASE \E z \in Zones : AddZone(z)
  <2>1. ooz' = ooz /\ phase' \in {"zones", "scan"} BY <1>1 DEF AddZone
  <2> QED BY <2>1 DEF LinkInv
<1>2. CASE ScanRecord BY <1>2, LinkScan
<1>3. CASE NoRecord BY <1>3 DEF NoRecord, LinkInv
<1>4. CASE Phase1 BY <1>4, LinkPhase1
<1>5. CASE Phase2 BY <1>5 DEF Phase2, Fatal, LinkInv
<1>6. CASE UNCHANGED ltree BY <1>6 DEF ltree, LinkInv
<1> QED BY <1>1, <1>2, <1>3, <1>4, <1>5, <1>6 DEF Load

-----------------------------------------------------------------------------
(* Packets stay sequences, and the additional store has its offsets.       *)

Wire(x) ==
  /\ {"pkt", "stale", "add", "targets", "addtl"} \subseteq DOMAIN x
  /\ IsSeq(x.pkt) /\ IsSeq(x.stale) /\ IsSeq(x.add) /\ IsSeq(x.targets) /\ IsSeq(x.addtl)
  /\ \A i \in 1..Len(x.addtl) : x.addtl[i].off \in Nat
  /\ Len(x.addtl) > 0 => x.addtl[1].off = 0
  /\ Len(x.addtl) = 0 => Len(x.add) = 0

SameWire(x, y) == /\ y.pkt = x.pkt /\ y.stale = x.stale /\ y.add = x.add /\ y.targets = x.targets
                  /\ y.addtl = x.addtl /\ DOMAIN y = DOMAIN x

LEMMA WireSame == ASSUME NEW x, Wire(x), NEW y, SameWire(x, y) PROVE Wire(y)
BY DEF Wire, SameWire

LEMMA SubIs ==
  ASSUME NEW s, IsSeq(s), NEW n \in Nat
  PROVE  IsSeq(SubSeq(s, 1, n)) /\ Len(SubSeq(s, 1, n)) = n
<1> DEFINE f == SubSeq(s, 1, n)
<1>1. PICK S : s \in Seq(S) BY SeqIs
<1>2. f = [i \in 1..n |-> s[i]] BY <1>1
<1>3. DOMAIN f = 1..n /\ Len(f) = n BY <1>2
<1> HIDE DEF f
<1>4. f = [i \in 1..Len(f) |-> f[i]] BY <1>2, <1>3
<1>5. IsSeq(f) /\ Len(f) = n BY <1>3, <1>4 DEF IsSeq
<1> QED BY <1>5 DEF f

LEMMA FunIs ==
  ASSUME NEW f, NEW n \in Nat, DOMAIN f = 1..n, f = [i \in 1..n |-> f[i]]
  PROVE  IsSeq(f) /\ Len(f) = n
<1>1. Len(f) = n OBVIOUS
<1> QED BY <1>1 DEF IsSeq

LEMMA LoopAt ==
  ASSUME NEW b, NEW a, NEW n \in Nat, NEW f, IsLoop(f, b, a, n)
  PROVE  f[0] = b /\ \A j \in Nat : j + 1 <= n => f[j + 1] = Step(a, f[j], j + 1)
<1>1. f[0] = b BY DEF IsLoop
<1>2. ASSUME NEW j \in Nat, j + 1 <= n PROVE f[j + 1] = Step(a, f[j], j + 1)
  <2>1. j + 1 \in 0..n /\ j + 1 # 0 /\ (j + 1) - 1 = j BY <1>2
  <2>2. f[j + 1] = Step(a, f[(j + 1) - 1], j + 1) BY <2>1 DEF IsLoop
  <2> QED BY <2>1, <2>2
<1> QED BY <1>1, <1>2

LEMMA BetterIs ==
  ASSUME NEW d, Len(d) \in Nat, NEW best, best.at \in 1..(Len(d) + 1), NEW t
  PROVE  BetterMatch(d, best, t).at \in 1..(Len(d) + 1)
<1> DEFINE matches == {i \in 1..Len(d) :
                         /\ i < best.at
                         /\ i + Len(t.name) > Len(d)
                         /\ i + Len(t.name) - Len(d) < t.comp
                         /\ SubSeq(d, i, Len(d)) = SubSeq(t.name, i + Len(t.name) - Len(d), Len(t.name))}
           i == CHOOSE i \in matches : \A j \in matches : i <= j
<1>1. matches \in SUBSET (1..Len(d)) OBVIOUS
<1>2. BetterMatch(d, best, t) = IF matches = {} THEN best
                                ELSE [at |-> i, off |-> t.at + i + Len(t.name) - Len(d) - 1]
  BY Zenon DEF BetterMatch
<1> HIDE DEF matches
<1>3. CASE matches = {} BY <1>2, <1>3
<1>4. CASE matches # {}
  <2>1. matches \in SUBSET Nat BY <1>1
  <2>2. i \in matches BY <1>4, <2>1, Least
  <2> HIDE DEF i
  <2>3. BetterMatch(d, best, t).at = i BY <1>2, <1>4
  <2> QED BY <1>1, <2>2, <2>3
<1> QED BY <1>3, <1>4

LEMMA BestIs ==
  ASSUME NEW d, Len(d) \in Nat, NEW targets, Len(targets) \in Nat
  PROVE  BestMatch(d, targets).at \in 1..(Len(d) + 1)
<1> DEFINE n == Len(targets)
           b == [at |-> Len(d) + 1, off |-> 0]
           a == [kind |-> "match", d |-> d, rds |-> targets]
           F(f) == f = [i \in 0..n |-> IF i = 0 THEN b ELSE BetterMatch(d, f[i-1], targets[i])]
           g == CHOOSE f : F(f)
           T == {j \in Nat : j <= n => g[j].at \in 1..(Len(d) + 1)}
<1>1. \A v, i : Step(a, v, i) = BetterMatch(d, v, targets[i]) BY DEF Step
<1>2. BestMatch(d, targets) = g[n] BY DEF BestMatch
<1>3. b.at \in 1..(Len(d) + 1) OBVIOUS
<1> HIDE DEF a, b
<1>4. \A f : F(f) <=> IsLoop(f, b, a, n) BY <1>1 DEF IsLoop
<1> HIDE DEF F
<1>5. \E f : F(f) BY <1>4, LoopDefined
<1>6. IsLoop(g, b, a, n) BY <1>4, <1>5
<1> HIDE DEF g
<1>7. g[0] = b /\ \A j \in Nat : j + 1 <= n => g[j + 1] = BetterMatch(d, g[j], targets[j + 1])
  <2>1. n \in Nat OBVIOUS
  <2> HIDE DEF n, T
  <2>2. g[0] = b /\ \A j \in Nat : j + 1 <= n => g[j + 1] = Step(a, g[j], j + 1) BY ONLY <1>6, <2>1, LoopAt
  <2> QED BY <1>1, <2>2
<1>8. 0 \in T BY <1>3, <1>7
<1>9. ASSUME NEW j \in Nat, j \in T PROVE j + 1 \in T
  <2>1. CASE j + 1 <= n
    <3>1. g[j].at \in 1..(Len(d) + 1) BY <1>9, <2>1
    <3>2. g[j + 1].at \in 1..(Len(d) + 1) BY <1>7, <2>1, <3>1, BetterIs
    <3> QED BY <3>2
  <2>2. CASE ~(j + 1 <= n) BY <2>2
  <2> QED BY <2>1, <2>2
<1>10. Nat \subseteq T BY <1>8, <1>9, Induction
<1>11. n \in T BY <1>10
<1> QED BY <1>2, <1>11

LEMMA LabelsIs == ASSUME NEW d, IsSeq(d) PROVE IsSeq(Labels(d)) /\ IsSeq(WireName(d)) /\ Len(WireName(d)) = Len(d) + 1
<1> DEFINE m == Labels(d)
<1>1. DOMAIN m = DOMAIN d /\ m = [i \in DOMAIN d |-> m[i]] BY DEF Labels
<1> HIDE DEF m
<1>2. IsSeq(m) /\ Len(m) = Len(d) BY <1>1, MapIs
<1>3. IsSeq(Append(m, End)) /\ Len(Append(m, End)) = Len(m) + 1 BY <1>2, AppendIs
<1> QED BY <1>2, <1>3 DEF m, WireName

LEMMA StoreIs ==
  ASSUME NEW x, IsSeq(x.targets), NEW d, IsSeq(d), NEW is_addtl
  PROVE  /\ IsSeq(store_dname(x, d, is_addtl).cells) /\ IsSeq(store_dname(x, d, is_addtl).targets)
<1> DEFINE best == BestMatch(d, x.targets)
           here == Len(x.pkt) + 1
           kept == best.at # 1 /\ ~is_addtl /\ here < MaxPtr /\ Len(x.targets) < COMPTARGETS_MAX
           sub == SubSeq(d, 1, best.at - 1)
           cells == IF best.off = 0 THEN WireName(d) ELSE Append(Labels(sub), Ptr(best.off))
           more == Append(x.targets, [name |-> d, at |-> here, comp |-> best.at])
           targets == IF kept THEN more ELSE x.targets
           s == store_dname(x, d, is_addtl)
<1>1. s = IF d = <<>> THEN [cells |-> <<End>>, targets |-> x.targets] ELSE [cells |-> cells, targets |-> targets]
  BY Zenon DEF store_dname
<1>2. best.at \in 1..(Len(d) + 1) BY BestIs DEF IsSeq
<1>3. Len(d) \in Nat BY DEF IsSeq
<1> HIDE DEF best
<1>4. best.at - 1 \in Nat BY <1>2, <1>3
<1>5. IsSeq(sub) BY <1>4, SubIs
<1> HIDE DEF sub
<1>6. IsSeq(Labels(sub)) /\ IsSeq(WireName(d)) BY <1>5, LabelsIs
<1>7. IsSeq(Append(Labels(sub), Ptr(best.off))) BY <1>6, AppendIs
<1>8. IsSeq(more) BY AppendIs
<1> HIDE DEF more, kept
<1>9. IsSeq(cells) /\ IsSeq(targets) BY <1>6, <1>7, <1>8
<1>10. IsSeq(<<End>>) BY DEF IsSeq
<1> HIDE DEF cells, targets, s
<1>11. IsSeq(s.cells) /\ IsSeq(s.targets) BY <1>1, <1>9, <1>10
<1> QED BY <1>11 DEF s

LEMMA RepeatIs ==
  ASSUME NEW x, Wire(x), NEW orig, NEW is_addtl
  PROVE  IsSeq(repeat_name(x, orig, is_addtl))
<1> DEFINE m == Larger(Len(x.pkt), Len(x.stale))
           buf == [i \in 1..m |-> IF i <= Len(x.pkt) THEN x.pkt[i] ELSE x.stale[i]]
           L == {i \in 1..Len(buf) : /\ orig + i - 1 <= Len(buf)
                                    /\ \A r \in orig .. orig + i - 1 : buf[r][1] = "lab"}
           labs == Cardinality(L)
           d == [i \in 1..labs |-> buf[orig + i - 1][2]]
<1>1. repeat_name(x, orig, is_addtl) =
        IF buf[orig][1] # "lab" THEN <<buf[orig]>>
        ELSE IF orig < MaxPtr THEN <<Ptr(orig)>>
        ELSE IF buf[orig + labs] = End THEN store_dname(x, d, is_addtl).cells
        ELSE <<Undefined>>
  BY Zenon DEF repeat_name
<1>2. \A e : IsSeq(<<e>>) BY DEF IsSeq
<1>3. Len(x.pkt) \in Nat /\ Len(x.stale) \in Nat BY DEF Wire, IsSeq
<1>4. m \in Nat BY <1>3 DEF Larger
<1> HIDE DEF m
<1>5. Len(buf) \in Nat
  <2>1. DOMAIN buf = 1..m BY <1>4
  <2> HIDE DEF buf
  <2>2. Len(buf) = m BY <1>4, <2>1
  <2> QED BY <1>4, <2>2
<1> HIDE DEF buf
<1>6. L \in SUBSET (1..Len(buf)) OBVIOUS
<1> HIDE DEF L
<1>7. labs \in Nat
  <2>1. IsFiniteSet(1..Len(buf)) BY <1>5, FS_Interval
  <2>2. IsFiniteSet(L) BY <1>6, <2>1, FS_Subset
  <2> QED BY <2>2, FS_CardinalityType
<1> HIDE DEF labs
<1>8. IsSeq(d)
  <2>1. DOMAIN d = 1..labs /\ d = [i \in 1..labs |-> d[i]] OBVIOUS
  <2> HIDE DEF d
  <2> QED BY <1>7, <2>1, FunIs
<1> HIDE DEF d
<1>9. IsSeq(store_dname(x, d, is_addtl).cells) BY <1>8, StoreIs DEF Wire
<1> QED BY <1>1, <1>2, <1>9

LEMMA WirePkt ==
  ASSUME NEW x, Wire(x), NEW y, DOMAIN y = DOMAIN x, y.stale = x.stale, y.add = x.add, y.addtl = x.addtl,
         IsSeq(y.pkt), IsSeq(y.targets)
  PROVE  Wire(y)
BY DEF Wire

LEMMA OneIs == ASSUME NEW e PROVE IsSeq(<<e>>) /\ Len(<<e>>) = 1
BY DEF IsSeq

LEMMA OwnerWire == ASSUME NEW x, Wire(x), NEW orig, NEW ty PROVE Wire(Owner(x, orig, ty))
<1> DEFINE v == x.pkt \o repeat_name(x, orig, FALSE) \o <<RR(ty)>>
           y == Owner(x, orig, ty)
<1>1. IsSeq(repeat_name(x, orig, FALSE)) BY RepeatIs
<1>2. IsSeq(<<RR(ty)>>) /\ IsSeq(x.pkt) /\ IsSeq(x.targets) BY OneIs DEF Wire
<1>3. IsSeq(v) BY <1>1, <1>2, ConcatIs
<1> HIDE DEF v
<1>4. /\ DOMAIN y = DOMAIN x /\ y.pkt = v /\ y.stale = x.stale /\ y.add = x.add /\ y.targets = x.targets
      /\ y.addtl = x.addtl
  BY DEF Owner, Wire, v
<1> HIDE DEF y
<1>5. Wire(y) BY <1>2, <1>3, <1>4, WirePkt
<1> QED BY <1>5 DEF y

LEMMA StoreNameWire == ASSUME NEW x, Wire(x), NEW d, IsSeq(d) PROVE Wire(StoreName(x, d))
<1> DEFINE s == store_dname(x, d, FALSE)
           v == x.pkt \o s.cells
           y == StoreName(x, d)
<1>1. IsSeq(s.cells) /\ IsSeq(s.targets) BY StoreIs DEF Wire
<1> HIDE DEF s
<1>2. IsSeq(v) BY <1>1, ConcatIs DEF Wire
<1>3. y = [x EXCEPT !.pkt = v, !.targets = s.targets] BY DEF StoreName, s
<1> HIDE DEF v, y
<1>4. /\ DOMAIN y = DOMAIN x /\ y.pkt = v /\ y.stale = x.stale /\ y.add = x.add /\ y.targets = s.targets
      /\ y.addtl = x.addtl
  BY <1>3 DEF Wire
<1>5. Wire(y) BY <1>1, <1>2, <1>4, WirePkt
<1> QED BY <1>5 DEF y

LEMMA StoreTargetWire == ASSUME NEW x, Wire(x), NEW ty, NEW d, IsSeq(d) PROVE Wire(StoreTarget(x, ty, d))
<1> DEFINE here == Len(x.pkt) + 1
           kept == d # <<>> /\ here < MaxPtr /\ Len(x.targets) < COMPTARGETS_MAX
           v == x.pkt \o WireName(d)
           more == Append(x.targets, [name |-> d, at |-> here, comp |-> Len(d) + 1])
           w == IF kept THEN more ELSE x.targets
           y == store_dname_nocomp(x, d)
<1>1. y = [x EXCEPT !.pkt = v, !.targets = w] BY Zenon DEF store_dname_nocomp
<1>2. IsSeq(v) BY LabelsIs, ConcatIs DEF Wire
<1>3. IsSeq(more) /\ IsSeq(x.targets) BY AppendIs DEF Wire
<1> HIDE DEF v, more, kept, y
<1>4. IsSeq(w) BY <1>3
<1> HIDE DEF w
<1>5. /\ DOMAIN y = DOMAIN x /\ y.pkt = v /\ y.stale = x.stale /\ y.add = x.add /\ y.targets = w
      /\ y.addtl = x.addtl
  BY <1>1 DEF Wire
<1>6. Wire(y) BY <1>2, <1>4, <1>5, WirePkt
<1> QED BY <1>6, StoreNameWire DEF StoreTarget, y

LEMMA MeanWire ==
  ASSUME NEW x, Wire(x), NEW section, NEW owner, NEW ty, NEW names
  PROVE  Wire(Mean(x, section, owner, ty, names))
<1>1. SameWire(x, Mean(x, section, owner, ty, names)) BY DEF Mean, SameWire
<1> QED BY <1>1, WireSame

LEMMA DataWire == ASSUME NEW x, Wire(x), NEW e PROVE Wire([x EXCEPT !.pkt = Append(@, e)])
<1> DEFINE v == Append(x.pkt, e)
           y == [x EXCEPT !.pkt = v]
<1>1. IsSeq(v) BY AppendIs DEF Wire
<1> HIDE DEF v
<1>2. /\ DOMAIN y = DOMAIN x /\ y.pkt = v /\ y.stale = x.stale /\ y.add = x.add /\ y.targets = x.targets
      /\ y.addtl = x.addtl
  BY DEF Wire
<1> HIDE DEF y
<1>3. Wire(y) BY <1>1, <1>2, WirePkt DEF Wire
<1> QED BY <1>3 DEF y, v

LEMMA CountsWire ==
  ASSUME NEW x, Wire(x), NEW v
  PROVE  /\ Wire([x EXCEPT !.an = v]) /\ Wire([x EXCEPT !.ns = v]) /\ Wire([x EXCEPT !.ansaddr = v])
         /\ Wire([x EXCEPT !.glue = v]) /\ Wire([x EXCEPT !.dyncs = v]) /\ Wire([x EXCEPT !.rcode = v])
         /\ Wire([x EXCEPT !.counted = v])
<1>1. /\ SameWire(x, [x EXCEPT !.an = v]) /\ SameWire(x, [x EXCEPT !.ns = v])
      /\ SameWire(x, [x EXCEPT !.ansaddr = v]) /\ SameWire(x, [x EXCEPT !.glue = v])
      /\ SameWire(x, [x EXCEPT !.dyncs = v]) /\ SameWire(x, [x EXCEPT !.rcode = v])
      /\ SameWire(x, [x EXCEPT !.counted = v])
  BY DEF SameWire
<1> QED BY <1>1, WireSame

LEMMA CopiesIs == ASSUME NEW n \in Nat, NEW cells, IsSeq(cells) PROVE IsSeq(Copies(n, cells))
<1> DEFINE m == n * Len(cells)
           f == Copies(n, cells)
<1>1. Len(cells) \in Nat BY DEF IsSeq
<1>2. m \in Nat BY <1>1
<1> HIDE DEF m
<1>3. DOMAIN f = 1..m /\ f = [i \in 1..m |-> f[i]] BY DEF Copies, m
<1> HIDE DEF f
<1>4. IsSeq(f) BY <1>2, <1>3, FunIs
<1> QED BY <1>4 DEF f

LEMMA PutWire ==
  ASSUME NEW x, Wire(x), NEW n, NEW cells, IsSeq(cells), NEW rrs, NEW is_addtl \in BOOLEAN,
         is_addtl => Len(x.addtl) > 0
  PROVE  LET y == PutAddrs(x, n, cells, rrs, is_addtl) IN Wire(y) /\ y.addtl = x.addtl
<1> DEFINE y == PutAddrs(x, n, cells, rrs, is_addtl)
           va == x.add \o cells
           vp == x.pkt \o cells
<1>1. IsSeq(va) /\ IsSeq(vp) BY ConcatIs DEF Wire
<1>2. CASE is_addtl
  <2>1. y = [x EXCEPT !.add = va, !.ar = @ + n, !.meant.ar = @ \o rrs] BY <1>2 DEF PutAddrs
  <2> HIDE DEF va, y
  <2>2. /\ DOMAIN y = DOMAIN x /\ y.pkt = x.pkt /\ y.stale = x.stale /\ y.add = va /\ y.targets = x.targets
        /\ y.addtl = x.addtl
    BY <2>1 DEF Wire
  <2>3. Wire(y) BY <1>1, <1>2, <2>2 DEF Wire
  <2> QED BY <2>2, <2>3 DEF y
<1>3. CASE ~is_addtl
  <2>1. y = [x EXCEPT !.pkt = vp, !.an = @ + n, !.meant.an = @ \o rrs] BY <1>3 DEF PutAddrs
  <2> HIDE DEF vp, y
  <2>2. /\ DOMAIN y = DOMAIN x /\ y.pkt = vp /\ y.stale = x.stale /\ y.add = x.add /\ y.targets = x.targets
        /\ y.addtl = x.addtl
    BY <2>1 DEF Wire
  <2>3. Wire(y) BY <1>1, <2>2, WirePkt DEF Wire
  <2> QED BY <2>2, <2>3 DEF y
<1> QED BY <1>2, <1>3

LEMMA EncAddrsWire ==
  ASSUME NEW x, Wire(x), NEW ty, NEW n \in Nat, NEW orig, NEW owner, NEW is_addtl \in BOOLEAN,
         is_addtl => Len(x.addtl) > 0
  PROVE  LET y == EncAddrs(x, ty, n, orig, owner, is_addtl) IN Wire(y) /\ y.addtl = x.addtl
<1> DEFINE one == repeat_name(x, orig, is_addtl) \o <<RR(ty), Data>>
           cells == Copies(n, one)
           rrs == [i \in 1..n |-> [owner |-> owner, type |-> ty, names |-> <<>>]]
           y == EncAddrs(x, ty, n, orig, owner, is_addtl)
<1>1. IsSeq(<<RR(ty), Data>>) BY DEF IsSeq
<1>2. IsSeq(one) BY <1>1, RepeatIs, ConcatIs
<1>3. y = PutAddrs(x, n, cells, rrs, is_addtl) BY DEF EncAddrs
<1> HIDE DEF one
<1>4. IsSeq(cells) BY <1>2, CopiesIs
<1> HIDE DEF cells, rrs, y
<1>5. Wire(y) /\ y.addtl = x.addtl BY <1>3, <1>4, PutWire
<1> QED BY <1>5 DEF y

LEMMA TrackWire ==
  ASSUME NEW x, Wire(x), NEW ad
  PROVE  LET y == track_addtl_rrset_unwind(x, ad) IN Wire(y) /\ Len(y.addtl) > 0
<1> DEFINE e == [ad |-> ad, off |-> Len(x.add), ar |-> x.ar]
           s == x.addtl
           v == Append(s, e)
           y == track_addtl_rrset_unwind(x, ad)
<1>1. e.off = Len(x.add) /\ Len(x.add) \in Nat BY DEF Wire, IsSeq
<1> HIDE DEF e
<1>2. IsSeq(s) /\ Len(s) \in Nat BY DEF Wire, IsSeq
<1>3. /\ IsSeq(v) /\ Len(v) = Len(s) + 1 /\ v[Len(s) + 1] = e
      /\ \A i \in 1..Len(s) : v[i] = s[i]
  BY <1>2, AppendIs
<1>4. y = [x EXCEPT !.addtl = v, !.bad = @ \/ (x.addtl = <<>> /\ (x.add # <<>> \/ x.ar # 0))]
  BY DEF track_addtl_rrset_unwind, e
<1> HIDE DEF v, y
<1>5. /\ DOMAIN y = DOMAIN x /\ y.pkt = x.pkt /\ y.stale = x.stale /\ y.add = x.add /\ y.targets = x.targets
      /\ y.addtl = v
  BY <1>4 DEF Wire
<1>6. \A i \in 1..Len(v) : v[i].off \in Nat
  <2>1. \A i \in 1..(Len(s) + 1) : i \in 1..Len(s) \/ i = Len(s) + 1 BY <1>2
  <2>2. \A i \in 1..Len(s) : s[i].off \in Nat BY DEF Wire
  <2> HIDE DEF s
  <2> QED BY <1>1, <1>3, <2>1, <2>2
<1>7. v[1].off = 0
  <2>1. CASE Len(s) = 0
    <3>1. v[1] = e BY <1>3, <2>1
    <3>2. Len(x.add) = 0 BY <2>1 DEF Wire
    <3> QED BY <1>1, <3>1, <3>2
  <2>2. CASE Len(s) # 0
    <3>1. Len(s) > 0 /\ 1 \in 1..Len(s) BY <1>2, <2>2
    <3>2. s[1].off = 0 BY <3>1 DEF Wire
    <3> QED BY <1>3, <3>1, <3>2
  <2> QED BY <2>1, <2>2
<1>8. Len(v) > 0 /\ Len(v) # 0 BY <1>2, <1>3
<1> HIDE DEF s
<1>9. Wire(y) BY <1>3, <1>5, <1>6, <1>7, <1>8 DEF Wire
<1> QED BY <1>5, <1>8, <1>9 DEF y

Answered(dr) == dr.v4 \in Nat /\ dr.v6 \in Nat

LEMMA LimitIs ==
  ASSUME NEW r, Numbers(r), NEW dr, Answered(dr)
  PROVE  Limit(r, dr).v4 \in Nat /\ Limit(r, dr).v6 \in Nat
BY DEF Limit, Numbers, Answered

LEMMA AnyaddrWire ==
  ASSUME NEW x, Wire(x), NEW ad, Numbers(AddrRRset(ad)), NEW orig, NEW owner, NEW is_addtl \in BOOLEAN,
         is_addtl => Len(x.addtl) > 0, NEW dr, Answered(dr)
  PROVE  Wire(encode_rrs_anyaddr(x, ad, orig, owner, is_addtl, dr))
<1> DEFINE n == Limit(AddrRRset(ad), dr)
           y == IF is_addtl THEN x ELSE [x EXCEPT !.ansaddr = {ad}]
           w == EncAddrs(y, "A", n.v4, orig, owner, is_addtl)
<1>1. encode_rrs_anyaddr(x, ad, orig, owner, is_addtl, dr) = EncAddrs(w, "AAAA", n.v6, orig, owner, is_addtl)
  BY DEF encode_rrs_anyaddr
<1>2. n.v4 \in Nat /\ n.v6 \in Nat BY LimitIs
<1> HIDE DEF n
<1>3. Wire(y) /\ (is_addtl => y = x) BY CountsWire
<1> HIDE DEF y
<1>4. Wire(w) /\ w.addtl = y.addtl BY <1>2, <1>3, EncAddrsWire
<1> HIDE DEF w
<1>5. Wire(EncAddrs(w, "AAAA", n.v6, orig, owner, is_addtl)) BY <1>2, <1>3, <1>4, EncAddrsWire
<1> QED BY <1>1, <1>5

LEMMA AddtlWire ==
  ASSUME NEW x, Wire(x), NEW ad, Numbers(AddrRRset(ad)), NEW orig, NEW owner, NEW dr, Answered(dr)
  PROVE  Wire(add_addtl_rrset(x, ad, orig, owner, dr))
<1> DEFINE y == track_addtl_rrset_unwind(x, ad)
           z == encode_rrs_anyaddr(y, ad, orig, owner, TRUE, dr)
<1>1. add_addtl_rrset(x, ad, orig, owner, dr) \in {x, z} BY DEF add_addtl_rrset
<1>2. Wire(y) /\ Len(y.addtl) > 0 BY TrackWire
<1> HIDE DEF y
<1>3. Wire(z) BY <1>2, AnyaddrWire
<1> HIDE DEF z
<1> QED BY <1>1, <1>3

LEMMA AddrWire ==
  ASSUME NEW x, Wire(x), NEW n, Numbers(AddrRRset(<<"tree", n>>)), NEW dr, Answered(dr)
  PROVE  Wire(encode_rrs_a(x, n, dr))
<1> DEFINE ad   == <<"tree", n>>
           lim  == Limit(AddrRRset(ad), dr)
           num  == Count(AddrRRset(ad), dr)
           y    == [x EXCEPT !.ansaddr = {ad}]
           both == IF q.qtype = "A" THEN [ty |-> "A", n |-> lim.v4, oty |-> "AAAA", on |-> lim.v6, has |-> num.v6]
                   ELSE [ty |-> "AAAA", n |-> lim.v6, oty |-> "A", on |-> lim.v4, has |-> num.v4]
           z    == EncAddrs(y, both.ty, both.n, y.qcomp, y.qname, FALSE)
           u    == track_addtl_rrset_unwind(z, ad)
           v    == EncAddrs(u, both.oty, both.on, z.qcomp, z.qname, TRUE)
<1>1. encode_rrs_a(x, n, dr) = IF both.has = 0 THEN z ELSE v BY Zenon DEF encode_rrs_a
<1>2. lim.v4 \in Nat /\ lim.v6 \in Nat BY LimitIs
<1> HIDE DEF lim, num
<1>3. both.n \in Nat /\ both.on \in Nat BY <1>2
<1> HIDE DEF both
<1>4. Wire(y) BY CountsWire
<1> HIDE DEF y
<1>5. Wire(z) BY <1>3, <1>4, EncAddrsWire
<1> HIDE DEF z
<1>6. Wire(u) /\ Len(u.addtl) > 0 BY <1>5, TrackWire
<1> HIDE DEF u
<1>7. Wire(v) BY <1>3, <1>6, EncAddrsWire
<1> HIDE DEF v
<1> QED BY <1>1, <1>5, <1>7

RdOK(rd) == IsSeq(rd.dname) /\ \A ad \in rd.ad : Numbers(AddrRRset(ad))

LEMMA TargetWire ==
  ASSUME NEW x, Wire(x), NEW ty, NEW section, NEW orig, NEW owner, NEW rd, RdOK(rd), NEW dr, Answered(dr)
  PROVE  Wire(EncTarget(x, ty, section, orig, owner, rd, dr))
<1> DEFINE y == Owner(x, orig, ty)
           s == StoreTarget(y, ty, rd.dname)
           z == Mean(s, section, owner, ty, <<rd.dname>>)
           h == [z EXCEPT !.glue = TRUE]
           g == IF rd.glue THEN h ELSE z
           ad == CHOOSE ad \in rd.ad : TRUE
           a == add_addtl_rrset(g, ad, Len(y.pkt) + 1, rd.dname, dr)
<1>1. EncTarget(x, ty, section, orig, owner, rd, dr) = IF rd.ad = {} THEN g ELSE a
  BY Zenon DEF EncTarget, AddrsOf, MarkGlue
<1>2. Wire(y) BY OwnerWire
<1> HIDE DEF y
<1>3. Wire(s) BY <1>2, StoreTargetWire DEF RdOK
<1> HIDE DEF s
<1>4. Wire(z) BY <1>3, MeanWire
<1> HIDE DEF z
<1>5. Wire(h) BY <1>4, CountsWire
<1> HIDE DEF h
<1>6. Wire(g) BY <1>4, <1>5
<1> HIDE DEF g
<1>7. rd.ad # {} => Numbers(AddrRRset(ad)) BY DEF RdOK
<1> HIDE DEF ad
<1>8. rd.ad # {} => Wire(a) BY <1>6, <1>7, AddtlWire
<1> HIDE DEF a
<1> QED BY <1>1, <1>6, <1>8

LEMMA LoopWire ==
  ASSUME NEW b, NEW a, NEW n \in Nat, NEW f, IsLoop(f, b, a, n), Wire(b),
         \A v : \A i \in 1..n : Wire(v) => Wire(Step(a, v, i))
  PROVE  Wire(f[n])
<1> DEFINE T == {j \in Nat : j <= n => Wire(f[j])}
<1>1. f[0] = b /\ \A j \in Nat : j + 1 <= n => f[j + 1] = Step(a, f[j], j + 1) BY LoopAt
<1>2. 0 \in T BY <1>1
<1>3. ASSUME NEW j \in Nat, j \in T PROVE j + 1 \in T
  <2>1. SUFFICES ASSUME j + 1 <= n PROVE Wire(f[j + 1]) OBVIOUS
  <2>2. j + 1 \in 1..n /\ j <= n BY <2>1
  <2>3. Wire(f[j]) BY <1>3, <2>2
  <2> QED BY <1>1, <2>1, <2>2, <2>3
<1>4. Nat \subseteq T BY <1>2, <1>3, Induction
<1> QED BY <1>4

LEMMA TargetsWire ==
  ASSUME NEW x, Wire(x), NEW ty, NEW section, NEW orig, NEW owner, NEW rds, Len(rds) \in Nat,
         \A i \in 1..Len(rds) : RdOK(rds[i]), NEW dr, Answered(dr)
  PROVE  Wire(EncTargets(x, ty, section, orig, owner, rds, dr))
<1> DEFINE a == [kind |-> "targets", ty |-> ty, section |-> section, orig |-> orig, owner |-> owner,
                 rds |-> rds, dr |-> dr]
           F(f) == f = [i \in 0..Len(rds) |->
                          IF i = 0 THEN x ELSE EncTarget(f[i-1], ty, section, orig, owner, rds[i], dr)]
           g == CHOOSE f : F(f)
<1>1. \A v, i : Step(a, v, i) = EncTarget(v, ty, section, orig, owner, rds[i], dr) BY DEF Step
<1> HIDE DEF a
<1>2. \A f : F(f) <=> IsLoop(f, x, a, Len(rds)) BY <1>1 DEF IsLoop
<1>3. EncTargets(x, ty, section, orig, owner, rds, dr) = g[Len(rds)] BY DEF EncTargets
<1> HIDE DEF F
<1>4. \E f : F(f) BY <1>2, LoopDefined
<1>5. F(g) BY <1>4
<1> HIDE DEF g
<1>6. IsLoop(g, x, a, Len(rds)) BY <1>2, <1>5
<1>7. \A v : \A i \in 1..Len(rds) : Wire(v) => Wire(Step(a, v, i)) BY <1>1, TargetWire
<1> QED BY <1>3, <1>6, <1>7, LoopWire

LEMMA RotatedOK ==
  ASSUME NEW s, IsSeq(s), \A i \in 1..Len(s) : RdOK(s[i]), NEW start \in Nat \ {0}
  PROVE  \A i \in 1..Len(Rotated(s, start)) : RdOK(Rotated(s, start)[i])
<1> DEFINE m == Rotated(s, start)
           l == Len(s)
<1>1. l \in Nat /\ DOMAIN s = 1..l BY DEF IsSeq
<1>2. DOMAIN m = DOMAIN s /\ m = [i \in DOMAIN s |-> m[i]]
      /\ \A i \in 1..l : m[i] = s[((start + i - 2) % l) + 1] BY <1>1 DEF Rotated
<1> HIDE DEF m
<1>3. Len(m) = l BY <1>2, MapIs
<1>4. ASSUME NEW i \in 1..l PROVE ((start + i - 2) % l) + 1 \in 1..l
  <2> HIDE DEF l
  <2>1. start + i - 2 \in Nat /\ l > 0 BY <1>1
  <2> QED BY <1>1, <2>1
<1> HIDE DEF l
<1>5. \A i \in 1..l : RdOK(m[i]) BY <1>2, <1>4 DEF l
<1> QED BY <1>3, <1>5 DEF m

Rds(r) == \A j \in 1..Len(r.rdata) : RdOK(r.rdata[j])

LEMMA NsWire ==
  ASSUME NEW x, Wire(x), NEW r, IsSeq(r.rdata), Rds(r), NEW answer, NEW start \in Nat \ {0},
         NEW dr, Answered(dr)
  PROVE  Wire(encode_rrs_ns(x, r, answer, start, dr))
<1> DEFINE rds == Rotated(r.rdata, start)
           y == EncTargets(x, "NS", IF answer THEN "an" ELSE "ns", x.acomp, x.aname, rds, dr)
           u == [y EXCEPT !.an = @ + Len(r.rdata)]
           v == [y EXCEPT !.ns = @ + Len(r.rdata)]
<1>1. encode_rrs_ns(x, r, answer, start, dr) = IF answer THEN u ELSE v BY Zenon DEF encode_rrs_ns, Counted
<1>2. Len(rds) \in Nat BY RotatedIs
<1>3. \A i \in 1..Len(rds) : RdOK(rds[i]) BY RotatedOK DEF Rds
<1> HIDE DEF rds
<1>4. Wire(y) BY <1>2, <1>3, TargetsWire
<1> HIDE DEF y
<1>5. Wire(u) /\ Wire(v) BY <1>4, CountsWire
<1> HIDE DEF u, v
<1> QED BY <1>1, <1>5

LEMMA MxWire ==
  ASSUME NEW x, Wire(x), NEW r, IsSeq(r.rdata), Rds(r), NEW start \in Nat \ {0}, NEW dr, Answered(dr)
  PROVE  Wire(encode_rrs_mx(x, r, start, dr))
<1> DEFINE from == IF r.type = "SRV" THEN 1 ELSE start
           rds == Rotated(r.rdata, from)
           y == EncTargets(x, r.type, "an", x.qcomp, x.qname, rds, dr)
           u == [y EXCEPT !.an = @ + Len(r.rdata)]
<1>1. encode_rrs_mx(x, r, start, dr) = u BY Zenon DEF encode_rrs_mx, Counted
<1>1a. from \in Nat \ {0} OBVIOUS
<1> HIDE DEF from
<1>2. Len(rds) \in Nat BY RotatedIs
<1>3. \A i \in 1..Len(rds) : RdOK(rds[i]) BY <1>1a, RotatedOK DEF Rds
<1> HIDE DEF rds
<1>4. Wire(y) BY <1>2, <1>3, TargetsWire
<1> HIDE DEF y
<1>5. Wire(u) BY <1>4, CountsWire
<1> HIDE DEF u
<1> QED BY <1>1, <1>5

LEMMA TxtWire ==
  ASSUME NEW x, Wire(x), NEW r, IsSeq(r.rdata)
  PROVE  Wire(encode_rrs_txt(x, r))
<1> DEFINE n == Len(r.rdata)
           a == [kind |-> "txt", orig |-> x.qcomp, owner |-> x.qname]
           P(v) == [Owner(v, x.qcomp, "TXT") EXCEPT !.pkt = Append(@, Data)]
           M(v) == Mean(P(v), "an", x.qname, "TXT", <<>>)
           F(f) == f = [i \in 0..n |-> IF i = 0 THEN x ELSE M(f[i-1])]
           g == CHOOSE f : F(f)
           u == [g[n] EXCEPT !.an = @ + n]
<1>0. n \in Nat BY DEF IsSeq
<1>1. \A v, i : Step(a, v, i) = M(v) BY DEF Step
<1>2. encode_rrs_txt(x, r) = u BY Zenon DEF encode_rrs_txt
<1>3. ASSUME NEW v, Wire(v) PROVE Wire(M(v))
  <2> DEFINE o == Owner(v, x.qcomp, "TXT")
             p == P(v)
  <2>1. Wire(o) BY <1>3, OwnerWire
  <2>2. p = [o EXCEPT !.pkt = Append(@, Data)] OBVIOUS
  <2> HIDE DEF o, p, P
  <2>3. Wire(p) BY <2>1, <2>2, DataWire
  <2>4. M(v) = Mean(p, "an", x.qname, "TXT", <<>>) BY DEF p
  <2> QED BY <2>3, <2>4, MeanWire
<1> HIDE DEF a, M, n
<1>4. \A f : F(f) <=> IsLoop(f, x, a, n) BY <1>1 DEF IsLoop
<1> HIDE DEF F
<1>5. \E f : F(f) BY <1>0, <1>4, LoopDefined
<1>6. IsLoop(g, x, a, n) BY <1>4, <1>5
<1> HIDE DEF g
<1>7. \A v : \A i \in 1..n : Wire(v) => Wire(Step(a, v, i)) BY <1>1, <1>3
<1>8. Wire(g[n]) BY <1>0, <1>6, <1>7, LoopWire
<1>9. Wire(u) BY <1>8, CountsWire
<1> HIDE DEF u
<1> QED BY <1>2, <1>9

LEMMA CnameRRWire ==
  ASSUME NEW x, Wire(x), NEW d, IsSeq(d)
  PROVE  Wire(Mean(StoreName(Owner(x, x.qcomp, "CNAME"), d), "an", x.qname, "CNAME", <<d>>))
<1> DEFINE o == Owner(x, x.qcomp, "CNAME")
           s == StoreName(o, d)
           z == Mean(s, "an", x.qname, "CNAME", <<d>>)
<1>1. Wire(o) BY OwnerWire
<1> HIDE DEF o
<1>2. Wire(s) BY <1>1, StoreNameWire
<1> HIDE DEF s
<1>3. Wire(z) BY <1>2, MeanWire
<1> QED BY <1>3 DEF z, s, o

LEMMA CnameWire ==
  ASSUME NEW x, Wire(x), NEW d, IsSeq(d)
  PROVE  Wire(encode_rr_cname(x, d, TRUE)) /\ Wire(encode_rr_cname(x, d, FALSE))
<1> DEFINE o == Owner(x, x.qcomp, "CNAME")
           z == Mean(StoreName(o, d), "an", x.qname, "CNAME", <<d>>)
           v == [z EXCEPT !.an = @ + 1]
           w == [z EXCEPT !.qcomp = Len(o.pkt) + 1, !.qname = d, !.cn = @ + 1]
<1>1. encode_rr_cname(x, d, TRUE) = v BY Zenon DEF encode_rr_cname
<1>2. encode_rr_cname(x, d, FALSE) = w BY Zenon DEF encode_rr_cname
<1>3. Wire(z) BY CnameRRWire
<1> HIDE DEF z, o
<1>4. Wire(v) BY <1>3, CountsWire
<1>5. SameWire(z, w) BY DEF SameWire
<1>6. Wire(w) BY <1>3, <1>5, WireSame
<1> HIDE DEF v, w
<1> QED BY <1>1, <1>2, <1>4, <1>6

LEMMA SoaWire ==
  ASSUME NEW x, Wire(x), NEW r, IsRR(r), r.type = "SOA", NEW answer
  PROVE  Wire(encode_rr_soa(x, r, answer))
<1> DEFINE o == Owner(x, x.acomp, "SOA")
           s == StoreName(o, r.rdata[1].dname)
           y == StoreName(s, r.rdata[2].dname)
           p == [y EXCEPT !.pkt = Append(@, Data)]
           z == Mean(p, IF answer THEN "an" ELSE "ns", x.aname, "SOA", <<r.rdata[1].dname, r.rdata[2].dname>>)
           u == [z EXCEPT !.an = @ + 1]
           v == [z EXCEPT !.ns = @ + 1]
<1>1. encode_rr_soa(x, r, answer) = IF answer THEN u ELSE v BY Zenon DEF encode_rr_soa
<1>2. IsSeq(r.rdata[1].dname) /\ IsSeq(r.rdata[2].dname)
  <2>1. Len(r.rdata) = 2 /\ RdataOK(r) BY DEF IsRR
  <2> QED BY <2>1 DEF RdataOK
<1>3. Wire(o) BY OwnerWire
<1> HIDE DEF o
<1>4. Wire(s) BY <1>2, <1>3, StoreNameWire
<1> HIDE DEF s
<1>5. Wire(y) BY <1>2, <1>4, StoreNameWire
<1> HIDE DEF y
<1>6. Wire(p) BY <1>5, DataWire
<1> HIDE DEF p
<1>7. Wire(z) BY <1>6, MeanWire
<1> HIDE DEF z
<1>8. Wire(u) /\ Wire(v) BY <1>7, CountsWire
<1> HIDE DEF u, v
<1> QED BY <1>1, <1>8

LEMMA CheckedWire ==
  ASSUME NEW x, Wire(x), NEW n, NEW ty
  PROVE  Wire(Checked(x, n, ty))
<1>1. SameWire(x, Checked(x, n, ty)) BY DEF SameWire, Checked
<1> QED BY <1>1, WireSame

\* A rrset of an authoritative node has what the encoder needs of it.
Ready(n, r) == /\ IsRR(r) /\ AdsOK(tree, ooz, r)
               /\ r.type = "A" => Numbers(AddrRRset(<<"tree", n>>))

LEMMA ReadyRds == ASSUME NEW n, NEW r, Ready(n, r), r.type \in {"NS", "MX", "SRV"} PROVE Rds(r) /\ IsSeq(r.rdata)
<1>1. \A ad : AddrIn(tree, ooz, ad) = AddrRRset(ad) BY DEF AddrIn, AddrRRset
<1>2. IsRR(r) /\ AdsOK(tree, ooz, r) BY DEF Ready
<1>3. \A j \in 1..Len(r.rdata) : \A ad \in r.rdata[j].ad : Numbers(AddrRRset(ad)) BY <1>1, <1>2 DEF AdsOK
<1>4. \A j \in 1..Len(r.rdata) : IsSeq(r.rdata[j].dname) BY <1>2 DEF IsRR, RdataOK
<1> QED BY <1>2, <1>3, <1>4 DEF Rds, RdOK, IsRR

\* What a node needs to be answered from.
Good(n) == n \in DOMAIN tree /\ "AUTH" \in tree[n].flags

LEMMA GoodReady ==
  ASSUME Shape(tree), Links(tree, ooz), NEW n, Good(n)
  PROVE  /\ IsNode(tree[n]) /\ \A i \in 1..Len(tree[n].rrsets) : Ready(n, tree[n].rrsets[i])
         /\ \A ty : Has(tree[n], ty) => Ready(n, TheRRset(tree[n], ty)) /\ TheRRset(tree[n], ty).type = ty
<1>1. n \in DOMAIN tree /\ "AUTH" \in tree[n].flags BY DEF Good
<1>2. IsNode(tree[n]) BY <1>1 DEF Shape
<1> DEFINE rs == tree[n].rrsets
<1>3. \A i \in 1..Len(rs) : IsRR(rs[i]) /\ AdsOK(tree, ooz, rs[i]) BY <1>1, <1>2 DEF IsNode, Links
<1>4. Has(tree[n], "A") => Numbers(AddrRRset(<<"tree", n>>))
  <2>1. AddrRRset(<<"tree", n>>) = TheRRset(tree[n], "A") BY DEF AddrRRset
  <2> QED BY <1>2, <2>1, RRsetFound DEF IsRR
<1>5. ASSUME NEW i \in 1..Len(rs) PROVE Ready(n, rs[i])
  <2>1. rs[i].type = "A" => Has(tree[n], "A") BY <1>2, HasIs
  <2> QED BY <1>3, <1>4, <2>1 DEF Ready
<1>6. ASSUME NEW ty, Has(tree[n], ty) PROVE Ready(n, TheRRset(tree[n], ty)) /\ TheRRset(tree[n], ty).type = ty
  <2>1. TheRRset(tree[n], ty) \in RRsetsOf(tree[n], ty) /\ TheRRset(tree[n], ty).type = ty BY <1>2, <1>6, RRsetFound
  <2>2. DOMAIN rs = 1..Len(rs) BY <1>2 DEF IsNode, IsSeq
  <2>3. \E i \in 1..Len(rs) : TheRRset(tree[n], ty) = rs[i] BY <2>1, <2>2 DEF RRsetsOf
  <2> QED BY <1>5, <2>1, <2>3
<1> QED BY <1>2, <1>5, <1>6

LEMMA EncodeWire ==
  ASSUME NEW x, Wire(x), NEW n, NEW r, Ready(n, r), NEW start \in Nat \ {0}, NEW dr, Answered(dr), NEW d, IsSeq(d)
  PROVE  Wire(Encode(x, n, r, start, dr, d))
<1>0. r.type \in {"A", "SOA", "NS", "CNAME", "MX", "SRV", "TXT"} /\ IsSeq(r.rdata) /\ IsRR(r) BY DEF Ready, IsRR
<1>1. CASE r.type = "A"
  <2>1. Encode(x, n, r, start, dr, d) \in {x, encode_rrs_a(x, n, dr)} BY <1>1 DEF Encode
  <2>2. Wire(encode_rrs_a(x, n, dr)) BY <1>1, AddrWire DEF Ready
  <2> QED BY <2>1, <2>2
<1>2. CASE r.type = "SOA"
  <2>1. Encode(x, n, r, start, dr, d) = encode_rr_soa(x, r, TRUE) BY <1>2 DEF Encode
  <2> QED BY <1>0, <1>2, <2>1, SoaWire
<1>3. CASE r.type = "NS"
  <2>1. Encode(x, n, r, start, dr, d) = encode_rrs_ns(x, r, TRUE, start, dr) BY <1>3 DEF Encode
  <2>2. Rds(r) BY <1>3, ReadyRds
  <2> QED BY <1>0, <2>1, <2>2, NsWire
<1>4. CASE r.type \in {"MX", "SRV"}
  <2>1. Encode(x, n, r, start, dr, d) = encode_rrs_mx(x, r, start, dr) BY <1>4 DEF Encode
  <2>2. Rds(r) BY <1>4, ReadyRds
  <2> QED BY <1>0, <2>1, <2>2, MxWire
<1>5. CASE r.type = "TXT"
  <2>1. Encode(x, n, r, start, dr, d) = encode_rrs_txt(x, r) BY <1>5 DEF Encode
  <2> QED BY <1>0, <2>1, TxtWire
<1>6. CASE r.type = "CNAME"
  <2> DEFINE y == [x EXCEPT !.dyncs = @ + IF r.static THEN 0 ELSE 1]
  <2>1. Encode(x, n, r, start, dr, d) = encode_rr_cname(y, d, TRUE) BY <1>6 DEF Encode
  <2>2. Wire(y) BY CountsWire
  <2> HIDE DEF y
  <2> QED BY <2>1, <2>2, CnameWire
<1> QED BY <1>0, <1>1, <1>2, <1>3, <1>4, <1>5, <1>6

LEMMA AnyWire ==
  ASSUME Shape(tree), Links(tree, ooz), NEW x, Wire(x), NEW n, Good(n), NEW start \in Nat \ {0}, NEW dr, Answered(dr)
  PROVE  Wire(encode_rrs_any(x, n, start, dr))
<1> DEFINE rs == tree[n].rrsets
           b == IF Has(tree[n], "A") THEN encode_rrs_anyaddr(x, <<"tree", n>>, x.qcomp, x.qname, FALSE, dr) ELSE x
           a == [kind |-> "any", n |-> n, rds |-> rs, start |-> start, dr |-> dr]
           F(f) == f = [i \in 0..Len(rs) |-> IF i # 0 THEN Encode(f[i-1], n, rs[i], start, dr, <<>>) ELSE b]
           g == CHOOSE f : F(f)
<1>0. Len(rs) \in Nat /\ \A i \in 1..Len(rs) : Ready(n, rs[i]) BY GoodReady DEF IsNode, IsSeq
<1>1. \A v, i : Step(a, v, i) = Encode(v, n, rs[i], start, dr, <<>>) BY DEF Step
<1>2. encode_rrs_any(x, n, start, dr) = g[Len(rs)] BY Zenon DEF encode_rrs_any
<1>3. Wire(b)
  <2>1. ASSUME Has(tree[n], "A") PROVE Numbers(AddrRRset(<<"tree", n>>)) BY <2>1, GoodReady DEF Ready
  <2>2. ASSUME Has(tree[n], "A")
        PROVE  Wire(encode_rrs_anyaddr(x, <<"tree", n>>, x.qcomp, x.qname, FALSE, dr))
    BY <2>1, <2>2, AnyaddrWire
  <2> QED BY <2>2
<1>3a. IsSeq(<<>>) BY DEF IsSeq
<1> HIDE DEF a, b, rs
<1>4. \A f : F(f) <=> IsLoop(f, b, a, Len(rs)) BY <1>1 DEF IsLoop
<1> HIDE DEF F
<1>5. \E f : F(f) BY <1>0, <1>4, LoopDefined
<1>6. F(g) BY <1>5
<1> HIDE DEF g
<1>7. IsLoop(g, b, a, Len(rs)) BY <1>4, <1>6
<1>8. \A v : \A i \in 1..Len(rs) : Wire(v) => Wire(Step(a, v, i)) BY <1>0, <1>1, <1>3a, EncodeWire
<1> QED BY <1>0, <1>2, <1>3, <1>7, <1>8, LoopWire

-----------------------------------------------------------------------------
(* Sizes                                                                   *)

\* What a response may have before the OPT RR: what this_max_response() allows, or the
\* question and the fixed answer of class CH, which are sent without a look at it.
Within(u, n) == n <= this_max_response(u) \/ n <= Len(Question(u.qname)) + 3

LEMMA RoomIs ==
  ASSUME NEW u \in Queries
  PROVE  /\ this_max_response(u) \in Int /\ SizeLimit(u) \in Nat
         /\ IsSeq(Question(u.qname)) /\ IsSeq(OptOut(u))
         /\ Len(Question(u.qname)) + 3 + Len(OptOut(u)) <= SizeLimit(u)
         /\ OptRoom(u) <= SizeLimit(u) => this_max_response(u) + Len(OptOut(u)) <= SizeLimit(u)
<1>1. plain_max \in Nat /\ max_response \in Nat /\ UINT \in Nat /\ u.size \in Nat /\ u.subs \in Nat
  BY SizesAssumption
<1>2. IsSeq(OptCells) /\ Len(OptCells) = 2 BY DEF OptCells, IsSeq
<1> DEFINE least == Smaller(plain_max, max_response)
           l == Smaller(Larger(u.size, plain_max), max_response)
<1>3. l \in Nat /\ least <= l /\ least <= plain_max /\ least <= max_response /\ least \in Nat
  BY <1>1 DEF Smaller, Larger
<1>4. SizeLimit(u) \in {max_response, plain_max, l} BY DEF SizeLimit
<1> HIDE DEF l
<1>5. SizeLimit(u) \in Nat /\ least <= SizeLimit(u) BY <1>1, <1>3, <1>4
<1>6. IsSeq(<<Data>>) /\ Len(<<Data>>) = 1 /\ IsSeq(<<>>) /\ Len(<<>>) = 0 BY DEF IsSeq
<1> DEFINE m == Options(u)
           o == IF m > 0 THEN <<Data>> ELSE <<>>
           both == OptCells \o o
<1>7. m \in Nat BY <1>1 DEF Options
<1>8. OptOut(u) = IF u.edns = "none" THEN <<>> ELSE both BY DEF OptOut
<1>9. OptRoom(u) = IF u.edns = "none" THEN 0 ELSE 2 + m BY <1>2 DEF OptRoom
<1> HIDE DEF m
<1>10. IsSeq(o) /\ Len(o) \in 0..1 /\ Len(o) <= m BY <1>6, <1>7
<1> HIDE DEF o
<1>11. IsSeq(both) /\ Len(both) = 2 + Len(o) BY <1>2, <1>10, ConcatIs
<1> HIDE DEF both
<1>12. IsSeq(OptOut(u)) /\ Len(OptOut(u)) \in 0..3 /\ Len(OptOut(u)) <= OptRoom(u) /\ OptRoom(u) \in Nat
  <2>1. CASE u.edns = "none" BY <1>6, <1>8, <1>9, <2>1
  <2>2. CASE u.edns # "none"
    <3>1. OptOut(u) = both /\ OptRoom(u) = 2 + m BY <1>8, <1>9, <2>2
    <3> DEFINE k == Len(o)
               n == Len(both)
    <3>2. k \in 0..1 /\ k <= m /\ n = 2 + k BY <1>10, <1>11
    <3> HIDE DEF k, n
    <3>3. n \in 0..3 /\ n <= 2 + m /\ 2 + m \in Nat BY <1>7, <3>2
    <3> QED BY <1>11, <3>1, <3>3 DEF n
  <2> QED BY <2>1, <2>2
<1>13. IsSeq(Question(u.qname)) /\ Len(Question(u.qname)) \in Nat
  <2>1. IsSeq(u.qname) BY NamesAssumption, NameSeq
  <2>2. IsSeq(WireName(u.qname)) BY <2>1, LabelsIs
  <2> QED BY <2>2, AppendIs DEF Question, IsSeq
<1>14. Len(Question(u.qname)) + 3 + 2 + 1 <= least BY <1>2, RoomAssumption
<1> HIDE DEF least
<1>15. Len(Question(u.qname)) + 3 + Len(OptOut(u)) <= SizeLimit(u)
  <2> DEFINE k == Len(Question(u.qname))
             n == Len(OptOut(u))
             sl == SizeLimit(u)
  <2>1. k \in Nat /\ n \in 0..3 /\ sl \in Nat /\ least \in Nat /\ least <= sl /\ k + 3 + 2 + 1 <= least
    BY <1>3, <1>5, <1>12, <1>13, <1>14
  <2> HIDE DEF k, n, sl
  <2>2. k + 3 + n <= sl BY <2>1
  <2> QED BY <2>2 DEF k, n, sl
<1>16. this_max_response(u) = IF OptRoom(u) <= SizeLimit(u) THEN SizeLimit(u) - OptRoom(u)
                              ELSE SizeLimit(u) + UINT - OptRoom(u)
  BY DEF this_max_response
<1>17. this_max_response(u) \in Int BY <1>1, <1>5, <1>12, <1>16
<1>18. OptRoom(u) <= SizeLimit(u) => this_max_response(u) + Len(OptOut(u)) <= SizeLimit(u)
  BY <1>5, <1>12, <1>16
<1> QED BY <1>5, <1>12, <1>13, <1>15, <1>17, <1>18

LEMMA AddtlIs ==
  ASSUME NEW x, Wire(x), NEW k \in 0..Len(x.addtl)
  PROVE  AddtlOff(x, k) \in Nat /\ AddtlOff(x, 0) = 0
<1>1. Len(x.addtl) \in Nat /\ Len(x.add) \in Nat BY DEF Wire, IsSeq
<1>2. ASSUME k = Len(x.addtl) PROVE AddtlOff(x, k) \in Nat BY <1>1, <1>2 DEF AddtlOff
<1>3. ASSUME k # Len(x.addtl) PROVE AddtlOff(x, k) \in Nat
  <2>1. k + 1 \in 1..Len(x.addtl) BY <1>1, <1>3
  <2> QED BY <1>3, <2>1 DEF AddtlOff, Wire
<1>4. AddtlOff(x, 0) = 0
  <2>1. CASE Len(x.addtl) = 0 BY <2>1 DEF AddtlOff, Wire
  <2>2. CASE Len(x.addtl) > 0 BY <2>2 DEF AddtlOff, Wire
  <2> QED BY <1>1, <2>1, <2>2
<1> QED BY <1>2, <1>3, <1>4

LEMMA GreatestIn ==
  ASSUME NEW n \in Nat, NEW S \in SUBSET (0..n), S # {}
  PROVE  (CHOOSE k \in S : \A j \in S : j <= k) \in S
<1> DEFINE T == {n - k : k \in S}
           m == CHOOSE i \in T : \A j \in T : i <= j
<1>1. T \in SUBSET Nat /\ T # {}
  <2>1. ASSUME NEW i \in T PROVE i \in Nat
    <3>1. PICK k \in S : i = n - k OBVIOUS
    <3>2. k \in 0..n OBVIOUS
    <3> QED BY <3>1, <3>2
  <2> QED BY <2>1
<1>2. \A k \in S : k \in Int /\ n - k \in T OBVIOUS
<1>3. \A i \in T : \E k \in S : i = n - k OBVIOUS
<1> HIDE DEF T
<1>4. m \in T /\ \A j \in T : m <= j BY <1>1, Least
<1> HIDE DEF m
<1>5. PICK k \in S : m = n - k BY <1>3, <1>4
<1>6. ASSUME NEW j \in S PROVE j <= k
  <2>1. n - k <= n - j BY <1>2, <1>4, <1>5
  <2> QED BY <1>2, <2>1
<1> QED BY <1>6

-----------------------------------------------------------------------------
(* The packet at each step of process_dns_query().                         *)

WireOK(p, t, u, x) ==
  /\ p # "idle" => u \in Queries
  /\ p \in {"search", "chain", "answer", "authority", "outer"} => Wire(x)
  /\ p = "answer" /\ x.cut => \E z : x.auth = {z} /\ Root(t, z)
  /\ p = "finish" => "pkt" \in DOMAIN x /\ IsSeq(x.pkt) /\ Within(u, Len(x.pkt))
  /\ p = "done" /\ x.rcode \notin {"IGNORE", "NOTIMP"} =>
       (OptRoom(u) <= SizeLimit(u) => Len(x.pkt) <= SizeLimit(u))

WireInv == WireOK(pc, tree, q, c)

\* A running server with a query.
Linkage == Running /\ Links(tree, ooz)

LEMMA ResetWire ==
  ASSUME NEW u \in Queries
  PROVE  LET x == reset_context(u) IN Wire(x) /\ x.pkt = Question(u.qname)
<1> DEFINE x == reset_context(u)
           s == [name |-> u.qname, at |-> QuestionAt, comp |-> Len(u.qname) + 1]
<1>1. /\ x.pkt = Question(u.qname) /\ x.stale = <<>> /\ x.add = <<>> /\ x.addtl = <<>>
      /\ x.targets = (IF u.qname = <<>> THEN <<>> ELSE <<s>>)
      /\ {"pkt", "stale", "add", "targets", "addtl"} \subseteq DOMAIN x
  BY DEF reset_context
<1> HIDE DEF x, s
<1>2. IsSeq(<<>>) /\ IsSeq(<<s>>) BY DEF IsSeq
<1>3. IsSeq(x.targets) BY <1>1, <1>2
<1>4. IsSeq(x.pkt) BY <1>1, RoomIs
<1>5. Len(<<>>) = 0 OBVIOUS
<1>6. Wire(x) BY <1>1, <1>2, <1>3, <1>4, <1>5 DEF Wire
<1> QED BY <1>1, <1>6 DEF x

LEMMA ReceiveWire ==
  ASSUME NEW u \in Queries, Receive(u)
  PROVE  WireOK(pc', tree', q', c')
<1> DEFINE w == reset_context(u)
           x(rcode) == [w EXCEPT !.rcode = rcode]
<1>1. PICK rcode \in decode_query(u) :
      \/ /\ rcode \in {"IGNORE", "NOTIMP"}
         /\ pc' = "done" /\ c' = Bump([x(rcode) EXCEPT !.pkt = <<>>])
      \/ /\ rcode \in {"FORMERR", "BADVERS"}
         /\ pc' = "finish" /\ c' = Bump(x(rcode))
      \/ /\ rcode = "OK" /\ u.chaos
         /\ pc' = "finish"
         /\ c' = Mean([x(rcode) EXCEPT !.pkt = @ \o <<Ptr(QuestionAt), RR("TXT"), Data>>, !.an = 1,
                                !.rcode = "NOERROR"], "an", u.qname, "TXT", <<>>)
      \/ /\ rcode = "OK" /\ ~u.chaos
         /\ pc' = "search" /\ c' = [x(rcode) EXCEPT !.rcode = "NOERROR"]
  BY DEF Receive
<1> DEFINE y == x(rcode)
<1>2. Wire(w) /\ w.pkt = Question(u.qname) BY ResetWire
<1>2a. "rcode" \in DOMAIN w BY DEF reset_context
<1>3. q' = u BY DEF Receive
<1>4. IsSeq(Question(u.qname)) /\ Len(Question(u.qname)) \in Nat BY RoomIs DEF IsSeq
<1> HIDE DEF w
<1>5. Wire(y) /\ y.pkt = Question(u.qname) /\ y.rcode = rcode /\ "pkt" \in DOMAIN y /\ "rcode" \in DOMAIN y
  BY <1>2, <1>2a, CountsWire DEF Wire
<1>6. \/ /\ rcode \in {"IGNORE", "NOTIMP"}
         /\ pc' = "done" /\ c' = Bump([y EXCEPT !.pkt = <<>>])
      \/ /\ rcode \in {"FORMERR", "BADVERS"}
         /\ pc' = "finish" /\ c' = Bump(y)
      \/ /\ rcode = "OK" /\ u.chaos
         /\ pc' = "finish"
         /\ c' = Mean([y EXCEPT !.pkt = @ \o <<Ptr(QuestionAt), RR("TXT"), Data>>, !.an = 1,
                                !.rcode = "NOERROR"], "an", u.qname, "TXT", <<>>)
      \/ /\ rcode = "OK" /\ ~u.chaos
         /\ pc' = "search" /\ c' = [y EXCEPT !.rcode = "NOERROR"]
  BY <1>1
<1> HIDE DEF y, x
<1>7. CASE rcode \in {"IGNORE", "NOTIMP"} /\ pc' = "done" /\ c' = Bump([y EXCEPT !.pkt = <<>>])
  <2>1. c'.rcode = rcode BY <1>5, <1>7 DEF Bump
  <2> QED BY <1>3, <1>7, <2>1 DEF WireOK
<1>8. CASE rcode \in {"FORMERR", "BADVERS"} /\ pc' = "finish" /\ c' = Bump(y)
  <2>1. "pkt" \in DOMAIN c' /\ c'.pkt = Question(u.qname) BY <1>5, <1>8 DEF Bump
  <2>2. Within(u, Len(c'.pkt)) BY <1>4, <2>1 DEF Within
  <2> QED BY <1>3, <1>4, <1>8, <2>1, <2>2 DEF WireOK
<1>9. CASE /\ rcode = "OK" /\ u.chaos /\ pc' = "finish"
           /\ c' = Mean([y EXCEPT !.pkt = @ \o <<Ptr(QuestionAt), RR("TXT"), Data>>, !.an = 1,
                                  !.rcode = "NOERROR"], "an", u.qname, "TXT", <<>>)
  <2> DEFINE cells == <<Ptr(QuestionAt), RR("TXT"), Data>>
             v == y.pkt \o cells
             z == [y EXCEPT !.pkt = v, !.an = 1, !.rcode = "NOERROR"]
  <2>1. IsSeq(cells) /\ Len(cells) = 3 BY DEF IsSeq
  <2>2. c' = Mean(z, "an", u.qname, "TXT", <<>>) BY <1>9
  <2> HIDE DEF cells
  <2>3. IsSeq(v) /\ Len(v) = Len(Question(u.qname)) + 3 BY <1>4, <1>5, <2>1, ConcatIs
  <2> HIDE DEF v
  <2>4. z.pkt = v /\ "pkt" \in DOMAIN z BY <1>5
  <2> HIDE DEF z
  <2>5. c'.pkt = v /\ "pkt" \in DOMAIN c' BY <2>2, <2>4 DEF Mean
  <2>6. Within(u, Len(c'.pkt)) BY <1>4, <2>3, <2>5 DEF Within
  <2> QED BY <1>3, <1>9, <2>3, <2>5, <2>6 DEF WireOK
<1>10. CASE rcode = "OK" /\ ~u.chaos /\ pc' = "search" /\ c' = [y EXCEPT !.rcode = "NOERROR"]
  <2>1. Wire(c') BY <1>5, <1>10, CountsWire
  <2> QED BY <1>3, <1>10, <2>1 DEF WireOK
<1> QED BY <1>6, <1>7, <1>8, <1>9, <1>10

LEMMA SearchWire ==
  ASSUME WireOK(pc, tree, q, c), Search
  PROVE  WireOK(pc', tree', q', c')
<1>0. pc = "search" /\ pc' = "chain" /\ q' = q /\ tree' = tree BY DEF Search
<1>1. PICK s : c' = [c EXCEPT !.status = s.status, !.res = s.node, !.auth = s.auth,
                              !.acomp = c.qcomp + s.depth, !.aname = s.mark]
  BY DEF Search
<1>2. Wire(c) /\ q \in Queries BY <1>0 DEF WireOK
<1>3. SameWire(c, c') BY <1>1 DEF SameWire
<1>4. Wire(c') BY <1>2, <1>3, WireSame
<1> QED BY <1>0, <1>2, <1>4 DEF WireOK

LEMMA TooLongWire ==
  ASSUME Running, ServeOK(pc, tree, q, c), WireOK(pc, tree, q, c), ChainTooLongNow
  PROVE  WireOK(pc', tree', q', c')
<1>0. pc = "chain" /\ pc' = "answer" /\ q' = q /\ tree' = tree BY DEF ChainTooLongNow
<1> DEFINE all == \A n \in c.res : tree[n].rrsets[1].static
           v == Question(q.qname)
<1>1. c' = [c EXCEPT !.via = TRUE, !.depth = @ + 1, !.res = {}, !.cut = TRUE, !.static = @ /\ all,
                     !.pkt = v, !.stale = c.pkt, !.an = 0, !.cn = 0, !.meant.an = <<>>]
  BY DEF ChainTooLongNow
<1>2. Wire(c) /\ q \in Queries BY <1>0 DEF WireOK
<1>3. IsContext(c) /\ Matched(tree, c) BY <1>0 DEF ServeOK, RcodeOK
<1>4. PICK n \in c.res : tree[n].rrsets # <<>> /\ tree[n].rrsets[1].type = "CNAME"
  BY DEF ChainTooLongNow, AtCname
<1>5. c.status = "AUTH" BY <1>3, <1>4, AtCnameIs
<1>6. PICK z : c.auth = {z} /\ Root(tree, z)
  <2>1. c.qname \in Name /\ c.auth = AuthIn(tree, c.qname) /\ StatusIn(tree, c.qname) # "NOAUTH"
    BY <1>3, <1>5 DEF Matched
  <2> QED BY <2>1, AuthIs DEF Running
<1>7. IsSeq(v) BY <1>2, RoomIs
<1> HIDE DEF all, v
<1>8. /\ DOMAIN c' = DOMAIN c /\ c'.pkt = v /\ c'.stale = c.pkt /\ c'.add = c.add
      /\ c'.targets = c.targets /\ c'.addtl = c.addtl
  BY <1>1, <1>2 DEF Wire
<1>9. Wire(c') BY <1>2, <1>7, <1>8 DEF Wire
<1>10. c'.auth = c.auth BY <1>1, <1>3 DEF IsContext, Kept
<1> QED BY <1>0, <1>2, <1>6, <1>9, <1>10 DEF WireOK

LEMMA TargetSeq == ASSUME NEW r, IsRR(r), r.type = "CNAME", NEW d \in Targets(r) PROVE IsSeq(d)
<1>1. d \in Name BY NamesAssumption DEF Targets, IsRR
<1> QED BY <1>1, NameSeq

LEMMA FollowWire ==
  ASSUME Running, ServeOK(pc, tree, q, c), WireOK(pc, tree, q, c), FollowCname
  PROVE  WireOK(pc', tree', q', c')
<1>0. pc = "chain" /\ q' = q /\ tree' = tree /\ AtCname /\ q.qtype # "CNAME" BY DEF FollowCname, AtCname
<1>1. PICK n \in c.res : LET r == tree[n].rrsets[1] IN \E d \in Targets(r) :
         LET x == encode_rr_cname([c EXCEPT !.dyncs = @ + IF r.static THEN 0 ELSE 1], d, FALSE)
             s == search_ltree(d, c.auth)
         IN  /\ c' = [x EXCEPT !.via = TRUE, !.depth = @ + 1, !.static = @ /\ r.static,
                               !.bad = @ \/ c.status # "AUTH" \/ c.auth = {},
                               !.res = s.node, !.auth = s.auth,
                               !.status = IF s.crossed THEN s.status ELSE "NOAUTH",
                               !.acomp = IF s.crossed THEN chase_auth_ptr(x.pkt, x.qcomp, s.depth) ELSE @,
                               !.aname = IF s.crossed THEN s.mark ELSE @]
             /\ pc' = IF s.crossed THEN "chain" ELSE "answer"
  BY DEF FollowCname
<1> DEFINE r == tree[n].rrsets[1]
           y == [c EXCEPT !.dyncs = @ + IF r.static THEN 0 ELSE 1]
<1>1a. PICK d \in Targets(r) :
         LET x == encode_rr_cname(y, d, FALSE)
             s == search_ltree(d, c.auth)
         IN  /\ c' = [x EXCEPT !.via = TRUE, !.depth = @ + 1, !.static = @ /\ r.static,
                               !.bad = @ \/ c.status # "AUTH" \/ c.auth = {},
                               !.res = s.node, !.auth = s.auth,
                               !.status = IF s.crossed THEN s.status ELSE "NOAUTH",
                               !.acomp = IF s.crossed THEN chase_auth_ptr(x.pkt, x.qcomp, s.depth) ELSE @,
                               !.aname = IF s.crossed THEN s.mark ELSE @]
             /\ pc' = IF s.crossed THEN "chain" ELSE "answer"
  BY <1>1
<1> DEFINE x == encode_rr_cname(y, d, FALSE)
           s == search_ltree(d, c.auth)
           ch == chase_auth_ptr(x.pkt, x.qcomp, s.depth)
<1>2. c' = [x EXCEPT !.via = TRUE, !.depth = @ + 1, !.static = @ /\ r.static,
                     !.bad = @ \/ c.status # "AUTH" \/ c.auth = {},
                     !.res = s.node, !.auth = s.auth,
                     !.status = IF s.crossed THEN s.status ELSE "NOAUTH",
                     !.acomp = IF s.crossed THEN ch ELSE @,
                     !.aname = IF s.crossed THEN s.mark ELSE @]
      /\ pc' = IF s.crossed THEN "chain" ELSE "answer"
  BY <1>1a
<1>3. Wire(c) /\ q \in Queries /\ IsContext(c) /\ Matched(tree, c) BY <1>0 DEF WireOK, ServeOK, RcodeOK
<1>4. Wire(y) BY <1>3, CountsWire
<1>5. IsSeq(d)
  <2>1. PICK m \in c.res : tree[m].rrsets # <<>> /\ tree[m].rrsets[1].type = "CNAME" BY <1>0 DEF AtCname
  <2>2. c.res = {m} /\ IsRR(tree[m].rrsets[1]) BY <1>3, <2>1, AtCnameIs
  <2>3. n = m BY <2>2
  <2> QED BY <1>1, <2>1, <2>2, <2>3, TargetSeq
<1>6. ~c.cut BY <1>0 DEF ServeOK, RcodeOK
<1>7. c'.cut = c.cut
  <2>1. IsContext(y) /\ y.cut = c.cut BY <1>3 DEF IsContext, Kept
  <2> HIDE DEF y
  <2>2. KeepsAllBut(y, x) BY <2>1, CnameFollowed
  <2> HIDE DEF x, s, ch, r
  <2>3. x.cut = y.cut /\ DOMAIN x = DOMAIN y BY <2>2 DEF KeepsAllBut
  <2>4. c'.cut = x.cut BY <1>2
  <2> QED BY <2>1, <2>3, <2>4
<1> HIDE DEF y
<1>8. Wire(x) BY <1>4, <1>5, CnameWire
<1> HIDE DEF x, s, ch, r
<1>9. SameWire(x, c')
  <2>1. c'.pkt = x.pkt /\ c'.stale = x.stale BY <1>2
  <2>2. c'.add = x.add /\ c'.addtl = x.addtl BY <1>2
  <2>3. c'.targets = x.targets BY <1>2
  <2>4. DOMAIN c' = DOMAIN x BY <1>2
  <2> QED BY <2>1, <2>2, <2>3, <2>4 DEF SameWire
<1>10. Wire(c') BY <1>8, <1>9, WireSame
<1>11. ~c'.cut BY <1>6, <1>7
<1>12. pc' \in {"chain", "answer"} BY <1>2
<1> QED BY <1>0, <1>3, <1>10, <1>11, <1>12 DEF WireOK

LEMMA ChainDoneWire ==
  ASSUME ServeOK(pc, tree, q, c), WireOK(pc, tree, q, c), ChainDone
  PROVE  WireOK(pc', tree', q', c')
<1>0. pc = "chain" /\ pc' = "answer" /\ q' = q /\ tree' = tree /\ c' = c BY DEF ChainDone
<1>1. ~c.cut BY <1>0 DEF ServeOK, RcodeOK
<1> QED BY <1>0, <1>1 DEF WireOK

LEMMA NxdomainWire ==
  ASSUME Linkage, ServeOK(pc, tree, q, c), WireOK(pc, tree, q, c), AnswerNxdomain
  PROVE  WireOK(pc', tree', q', c')
<1>0. pc = "answer" /\ pc' = "outer" /\ q' = q /\ tree' = tree /\ c.status = "AUTH" BY DEF AnswerNxdomain
<1> DEFINE x == Checked(c, AuthNode, "SOA")
           r == TheRRset(tree[AuthNode], "SOA")
           e == encode_rr_soa(x, r, FALSE)
           y == IF x.bad THEN x ELSE e
           w == [y EXCEPT !.rcode = "NXDOMAIN"]
<1>1. c' = Bump(w) BY Zenon DEF AnswerNxdomain
<1>2. IsContext(c) /\ (c.cut \/ Beyond(c) \/ Matched(tree, c)) /\ Wire(c) /\ q \in Queries
  BY <1>0 DEF ServeOK, RcodeOK, WireOK
<1>3. PICK z : c.auth = {z} /\ Root(tree, z)
  <2>1. CASE c.cut BY <1>0, <2>1 DEF WireOK
  <2>2. CASE Matched(tree, c)
    <3>1. c.qname \in Name /\ c.auth = AuthIn(tree, c.qname) /\ StatusIn(tree, c.qname) # "NOAUTH"
      BY <1>0, <2>2 DEF Matched
    <3> QED BY <3>1, AuthIs DEF Linkage, Running
  <2> QED BY <1>0, <1>2, <2>1, <2>2 DEF Beyond
<1>4. IsNode(tree[AuthNode])
  <2>1. AuthNode = z BY <1>3 DEF AuthNode
  <2> QED BY <1>3, <2>1 DEF Root, Linkage, Running, TreeOK, Shape
<1>5. Wire(x) BY <1>2, CheckedWire
<1>6. ~x.bad => IsRR(r) /\ r.type = "SOA"
  <2>1. "bad" \in DOMAIN c BY <1>2 DEF IsContext, Kept
  <2>2. ~x.bad => Has(tree[AuthNode], "SOA") BY <2>1 DEF Checked
  <2> QED BY <1>4, <2>2, RRsetFound
<1> HIDE DEF x, r
<1>7. ~x.bad => Wire(e) BY <1>5, <1>6, SoaWire
<1> HIDE DEF e
<1>8. Wire(y) BY <1>5, <1>7
<1> HIDE DEF y
<1>9. Wire(w) BY <1>8, CountsWire
<1> HIDE DEF w
<1>10. Wire(c') BY <1>1, <1>9, CountsWire DEF Bump
<1> QED BY <1>0, <1>2, <1>10 DEF WireOK

LEMMA DrIs == ASSUME NEW dr \in DynAddrs PROVE Answered(dr)
BY SizesAssumption DEF Answered

LEMMA StartIs == ASSUME NEW n, NEW start \in Starts(n) PROVE start \in Nat \ {0}
<1> DEFINE k == CHOOSE k \in {Len(tree[n].rrsets[i].rdata) : i \in DOMAIN tree[n].rrsets} \cup {0} :
                  \A i \in DOMAIN tree[n].rrsets : Len(tree[n].rrsets[i].rdata) <= k
           m == Larger(1, k)
<1>1. start \in 1..m BY DEF Starts
<1> HIDE DEF m
<1> QED BY <1>1

LEMMA FoundGood ==
  ASSUME Running, Matched(tree, c), NEW n \in c.res
  PROVE  Good(n) /\ Shape(tree)
<1>1. n \in NodeFound(tree, c.qname) /\ c.qname \in Name BY DEF Matched
<1> QED BY <1>1, NodeFoundIs DEF Running, TreeOK, Good

LEMMA NodeWire ==
  ASSUME Linkage, ServeOK(pc, tree, q, c), WireOK(pc, tree, q, c), AnswerNode
  PROVE  WireOK(pc', tree', q', c')
<1>0. pc = "answer" /\ pc' = "authority" /\ q' = q /\ tree' = tree /\ c.status = "AUTH" BY DEF AnswerNode
<1> DEFINE ety == IF q.qtype = "AAAA" THEN "A" ELSE q.qtype
<1>1. PICK n \in c.res, dr \in DynAddrs : \E start \in Starts(n) :
         IF q.qtype = "ANY" THEN c' = encode_rrs_any(c, n, start, dr)
         ELSE IF Has(tree[n], ety)
         THEN \E d \in IF ety = "CNAME" THEN Targets(TheRRset(tree[n], ety)) ELSE {<<>>} :
                c' = Encode(c, n, TheRRset(tree[n], ety), start, dr, d)
         ELSE c' = c
  BY DEF AnswerNode
<1>2. PICK start \in Starts(n) :
         IF q.qtype = "ANY" THEN c' = encode_rrs_any(c, n, start, dr)
         ELSE IF Has(tree[n], ety)
         THEN \E d \in IF ety = "CNAME" THEN Targets(TheRRset(tree[n], ety)) ELSE {<<>>} :
                c' = Encode(c, n, TheRRset(tree[n], ety), start, dr, d)
         ELSE c' = c
  BY <1>1
<1> HIDE DEF ety
<1>3. Wire(c) /\ q \in Queries /\ Matched(tree, c)
  <2>1. ~c.cut BY <1>0, <1>1 DEF ServeOK, RcodeOK
  <2>2. ~Beyond(c) BY <1>0 DEF Beyond
  <2> QED BY <1>0, <2>1, <2>2 DEF ServeOK, RcodeOK, WireOK
<1>4. Good(n) /\ Shape(tree) /\ Links(tree, ooz) BY <1>3, FoundGood DEF Linkage
<1>5. start \in Nat \ {0} /\ Answered(dr) BY StartIs, DrIs
<1>6. Wire(c')
  <2>1. CASE q.qtype = "ANY"
    <3>1. Wire(encode_rrs_any(c, n, start, dr)) BY <1>3, <1>4, <1>5, AnyWire
    <3> QED BY <1>2, <2>1, <3>1
  <2>2. CASE q.qtype # "ANY" /\ ~Has(tree[n], ety) BY <1>2, <1>3, <2>2
  <2>3. CASE q.qtype # "ANY" /\ Has(tree[n], ety)
    <3> DEFINE r == TheRRset(tree[n], ety)
    <3>1. PICK d \in IF ety = "CNAME" THEN Targets(r) ELSE {<<>>} : c' = Encode(c, n, r, start, dr, d)
      BY <1>2, <2>3
    <3>2. Ready(n, r) /\ r.type = ety BY <1>4, <2>3, GoodReady
    <3> HIDE DEF r
    <3>3. IsSeq(<<>>) BY DEF IsSeq
    <3>4. IsSeq(d)
      <4>1. CASE ety = "CNAME" BY <3>1, <3>2, <4>1, TargetSeq DEF Ready
      <4>2. CASE ety # "CNAME" BY <3>1, <3>3, <4>2
      <4> QED BY <4>1, <4>2
    <3>5. Wire(Encode(c, n, r, start, dr, d)) BY <1>3, <1>5, <3>2, <3>4, EncodeWire
    <3> QED BY <3>1, <3>5
  <2> QED BY <2>1, <2>2, <2>3
<1> QED BY <1>0, <1>3, <1>6 DEF WireOK

LEMMA ReferralWire ==
  ASSUME Linkage, ServeOK(pc, tree, q, c), WireOK(pc, tree, q, c), AnswerReferral
  PROVE  WireOK(pc', tree', q', c')
<1>0. pc = "answer" /\ pc' = "outer" /\ q' = q /\ tree' = tree /\ c.status = "DELEG" BY DEF AnswerReferral
<1>1. PICK n \in c.res, dr \in DynAddrs : \E start \in Starts(n) :
        LET x == Checked(c, n, "NS")
        IN  c' = IF x.bad THEN x ELSE encode_rrs_ns(x, TheRRset(tree[n], "NS"), FALSE, start, dr)
  BY DEF AnswerReferral
<1> DEFINE x == Checked(c, n, "NS")
           r == TheRRset(tree[n], "NS")
<1>2. PICK start \in Starts(n) : c' = IF x.bad THEN x ELSE encode_rrs_ns(x, r, FALSE, start, dr) BY <1>1
<1>3. IsContext(c) /\ Matched(tree, c) /\ Wire(c) /\ q \in Queries
  <2>1. ~c.cut BY <1>0, <1>1 DEF ServeOK, RcodeOK
  <2>2. ~Beyond(c) BY <1>0 DEF Beyond
  <2> QED BY <1>0, <2>1, <2>2 DEF ServeOK, RcodeOK, WireOK
<1>4. Good(n) /\ Shape(tree) /\ Links(tree, ooz) BY <1>3, FoundGood DEF Linkage
<1>5. start \in Nat \ {0} /\ Answered(dr) BY StartIs, DrIs
<1>6. ~x.bad => Has(tree[n], "NS")
  <2>1. "bad" \in DOMAIN c BY <1>3 DEF IsContext, Kept
  <2> QED BY <2>1 DEF Checked
<1>7. Wire(x) BY <1>3, CheckedWire
<1> HIDE DEF x
<1>8. ~x.bad => Rds(r) /\ IsSeq(r.rdata) BY <1>4, <1>6, GoodReady, ReadyRds
<1> HIDE DEF r
<1>9. ~x.bad => Wire(encode_rrs_ns(x, r, FALSE, start, dr)) BY <1>5, <1>7, <1>8, NsWire
<1>10. Wire(c') BY <1>2, <1>7, <1>9
<1> QED BY <1>0, <1>3, <1>10 DEF WireOK

LEMMA AuthorityWire ==
  ASSUME Linkage, ServeOK(pc, tree, q, c), WireOK(pc, tree, q, c), Authority
  PROVE  WireOK(pc', tree', q', c')
<1>0. pc = "authority" /\ pc' = "outer" /\ q' = q /\ tree' = tree BY DEF Authority
<1> DEFINE w == Checked(c, AuthNode, "SOA")
           x == Checked(w, AuthNode, "NS")
           optns == /\ include_optional_ns /\ q.qtype # "NS"
                    /\ q.qtype # "ANY" \/ c.res # c.auth
           soa == TheRRset(tree[AuthNode], "SOA")
           ns == TheRRset(tree[AuthNode], "NS")
<1>1. PICK dr \in DynAddrs, start \in Starts(AuthNode) :
        c' = IF x.bad THEN x
             ELSE IF c.an = 0 THEN encode_rr_soa(x, soa, FALSE)
             ELSE IF optns THEN encode_rrs_ns(x, ns, FALSE, start, dr) ELSE x
  BY Zenon DEF Authority
<1>2. IsContext(c) /\ Matched(tree, c) /\ c.status = "AUTH" /\ Wire(c) /\ q \in Queries
  <2>1. c.status = "AUTH" /\ ~c.cut BY <1>0 DEF ServeOK, RcodeOK
  <2>2. ~Beyond(c) BY <2>1 DEF Beyond
  <2> QED BY <1>0, <2>1, <2>2 DEF ServeOK, RcodeOK, WireOK
<1>3. Shape(tree) /\ Links(tree, ooz) /\ Good(AuthNode)
  <2>1. c.qname \in Name /\ c.auth = AuthIn(tree, c.qname) /\ StatusIn(tree, c.qname) # "NOAUTH"
    BY <1>2 DEF Matched
  <2>2. PICK z : c.auth = {z} /\ Root(tree, z) BY <2>1, AuthIs DEF Linkage, Running
  <2>3. AuthNode = z BY <2>2 DEF AuthNode
  <2>4. Shape(tree) BY DEF Linkage, Running, TreeOK
  <2>5. z \in DOMAIN tree /\ z \in Name BY <2>2, <2>4 DEF Root, Shape
  <2>6. z \in Path(z) BY <2>5, PathSelf
  <2>7. "AUTH" \in tree[z].flags BY <2>2, <2>4, <2>5, <2>6 DEF Shape
  <2> QED BY <2>3, <2>4, <2>5, <2>7 DEF Good, Linkage
<1>4. start \in Nat \ {0} /\ Answered(dr) BY StartIs, DrIs
<1>5. Wire(w) /\ IsContext(w) BY <1>2, CheckedWire, CheckedKeeps, KeepsContext
<1>6. w.bad \/ Has(tree[AuthNode], "SOA")
  <2>1. "bad" \in DOMAIN c BY <1>2 DEF IsContext, Kept
  <2> QED BY <2>1 DEF Checked
<1> HIDE DEF w, optns
<1>7. ~x.bad => ~w.bad /\ Has(tree[AuthNode], "NS")
  <2>1. "bad" \in DOMAIN w BY <1>5 DEF IsContext, Kept
  <2> QED BY <2>1 DEF Checked
<1>8. Wire(x) BY <1>5, CheckedWire
<1> HIDE DEF x
<1>9. ~x.bad => IsRR(soa) /\ soa.type = "SOA" /\ Rds(ns) /\ IsSeq(ns.rdata)
  <2> SUFFICES ASSUME ~x.bad PROVE IsRR(soa) /\ soa.type = "SOA" /\ Rds(ns) /\ IsSeq(ns.rdata) OBVIOUS
  <2>1. Ready(AuthNode, soa) /\ soa.type = "SOA" /\ Ready(AuthNode, ns) /\ ns.type = "NS"
    BY <1>3, <1>6, <1>7, GoodReady
  <2> HIDE DEF soa, ns
  <2> QED BY <2>1, ReadyRds DEF Ready
<1> HIDE DEF soa, ns
<1>10. ~x.bad => Wire(encode_rr_soa(x, soa, FALSE)) BY <1>8, <1>9, SoaWire
<1>11. ~x.bad => Wire(encode_rrs_ns(x, ns, FALSE, start, dr)) BY <1>4, <1>8, <1>9, NsWire
<1>12. Wire(c') BY <1>1, <1>8, <1>10, <1>11
<1> QED BY <1>0, <1>2, <1>12 DEF WireOK

LEMMA NoauthWire ==
  ASSUME WireOK(pc, tree, q, c), AnswerNoauth
  PROVE  WireOK(pc', tree', q', c')
<1>0. pc = "answer" /\ pc' = "outer" /\ q' = q /\ tree' = tree BY DEF AnswerNoauth
<1>1. Wire(c) /\ q \in Queries BY <1>0 DEF WireOK
<1> DEFINE x == [c EXCEPT !.rcode = "REFUSED"]
<1>2. c' \in {c, Bump(x)} BY DEF AnswerNoauth
<1>3. Wire(x) BY <1>1, CountsWire
<1> HIDE DEF x
<1>4. Wire(Bump(x)) BY <1>3, CountsWire DEF Bump
<1>5. Wire(c') BY <1>1, <1>2, <1>4
<1> QED BY <1>0, <1>1, <1>5 DEF WireOK

LEMMA TruncateWire ==
  ASSUME WireOK(pc, tree, q, c), Truncate
  PROVE  WireOK(pc', tree', q', c')
<1>0. pc = "outer" /\ pc' = "finish" /\ q' = q /\ tree' = tree BY DEF Truncate
<1>1. c' = [c EXCEPT !.an = 0, !.ns = 0, !.ar = 0, !.tc = TRUE, !.pkt = Question(q.qname)] BY DEF Truncate
<1>2. Wire(c) /\ q \in Queries BY <1>0 DEF WireOK
<1>3. "pkt" \in DOMAIN c' /\ c'.pkt = Question(q.qname) BY <1>1, <1>2 DEF Wire
<1>4. IsSeq(Question(q.qname)) /\ Len(Question(q.qname)) \in Nat BY <1>2, RoomIs DEF IsSeq
<1>5. Within(q, Len(c'.pkt)) BY <1>3, <1>4 DEF Within
<1> QED BY <1>0, <1>2, <1>3, <1>4, <1>5 DEF WireOK

LEMMA TrimWire ==
  ASSUME WireOK(pc, tree, q, c), Trim
  PROVE  WireOK(pc', tree', q', c')
<1>0. pc = "outer" /\ pc' = "finish" /\ q' = q /\ tree' = tree /\ ~TooLarge BY DEF Trim
<1> DEFINE room == this_max_response(q) - Len(c.pkt)
           fits == {k \in 0 .. Len(c.addtl) : AddtlOff(c, k) <= room}
           keep == CHOOSE k \in fits : \A j \in fits : j <= k
           off == AddtlOff(c, keep)
           more == SubSeq(c.add, 1, off)
           v == c.pkt \o more
<1>1. c' = [c EXCEPT !.pkt = v, !.ar = AddtlAr(c, keep), !.addtl = SubSeq(@, 1, keep)] BY DEF Trim
<1>2. Wire(c) /\ q \in Queries BY <1>0 DEF WireOK
<1>3. /\ IsSeq(c.pkt) /\ IsSeq(c.add) /\ "pkt" \in DOMAIN c
      /\ Len(c.pkt) \in Nat /\ Len(c.add) \in Nat /\ Len(c.addtl) \in Nat
  BY <1>2 DEF Wire, IsSeq
<1>4. this_max_response(q) \in Int BY <1>2, RoomIs
<1>5. 0 <= room
  <2> DEFINE more0 == IF c.glue THEN Len(c.add) ELSE 0
             m == this_max_response(q)
  <2>1. ~(Len(c.pkt) + more0 > m) BY <1>0 DEF TooLarge
  <2>2. more0 \in Nat /\ m \in Int BY <1>3, <1>4
  <2>3. room = m - Len(c.pkt) OBVIOUS
  <2> HIDE DEF more0, m, room
  <2> QED BY <1>3, <2>1, <2>2, <2>3
<1>6. 0 \in fits
  <2>1. 0 \in 0..Len(c.addtl) BY <1>3
  <2>2. AddtlOff(c, 0) = 0 BY <1>2, <2>1, AddtlIs
  <2> HIDE DEF room
  <2> QED BY <1>5, <2>1, <2>2
<1>7. keep \in fits
  <2>1. fits \in SUBSET (0..Len(c.addtl)) /\ fits # {} BY <1>6
  <2> HIDE DEF fits
  <2> QED BY <1>3, <2>1, GreatestIn
<1> HIDE DEF keep
<1>8. off \in Nat /\ off <= room BY <1>2, <1>7, AddtlIs
<1> HIDE DEF off, fits
<1>9. IsSeq(more) /\ Len(more) = off BY <1>3, <1>8, SubIs
<1> HIDE DEF more
<1>10. IsSeq(v) /\ Len(v) = Len(c.pkt) + off BY <1>3, <1>9, ConcatIs
<1> HIDE DEF v
<1>11. "pkt" \in DOMAIN c' /\ c'.pkt = v BY <1>1, <1>3
<1>12. Within(q, Len(c'.pkt))
  <2>1. off <= this_max_response(q) - Len(c.pkt) BY <1>8
  <2>2. Len(v) <= this_max_response(q) BY <1>3, <1>4, <1>8, <1>10, <2>1
  <2> QED BY <1>11, <2>2 DEF Within
<1> QED BY <1>0, <1>2, <1>10, <1>11, <1>12 DEF WireOK

LEMMA FinishWire ==
  ASSUME WireOK(pc, tree, q, c), Finish
  PROVE  WireOK(pc', tree', q', c')
<1>0. pc = "finish" /\ pc' = "done" /\ q' = q /\ tree' = tree BY DEF Finish
<1> DEFINE y == IF c.rcode = "NOERROR" THEN Bump(c) ELSE c
           v == y.pkt \o OptOut(q)
           z == [y EXCEPT !.pkt = v, !.ar = @ + 1]
           x == IF q.edns = "none" THEN y ELSE z
<1>1. c' = [x EXCEPT !.hdr = <<x.cn + x.an, x.ns, x.ar>>] BY DEF Finish
<1>2. "pkt" \in DOMAIN c /\ IsSeq(c.pkt) /\ Within(q, Len(c.pkt)) /\ q \in Queries
  BY <1>0 DEF WireOK
<1>3. "pkt" \in DOMAIN y /\ y.pkt = c.pkt BY <1>2 DEF Bump
<1> HIDE DEF y
<1>4. Len(c.pkt) \in Nat /\ Len(OptOut(q)) \in Nat BY <1>2, RoomIs DEF IsSeq
<1>5. Len(v) = Len(c.pkt) + Len(OptOut(q)) BY <1>2, <1>3, RoomIs, ConcatIs
<1> HIDE DEF v
<1>6. q.edns # "none" => x.pkt = v BY <1>3
<1>7. q.edns = "none" => x.pkt = c.pkt BY <1>3
<1> HIDE DEF x
<1>8. c'.pkt = x.pkt BY <1>1
<1>9. Len(c'.pkt) <= Len(c.pkt) + Len(OptOut(q)) BY <1>4, <1>5, <1>6, <1>7, <1>8
<1>10. Len(c'.pkt) \in Nat BY <1>4, <1>5, <1>6, <1>7, <1>8
<1>11. ASSUME OptRoom(q) <= SizeLimit(q) PROVE Len(c'.pkt) <= SizeLimit(q)
  <2>1. /\ this_max_response(q) \in Int /\ SizeLimit(q) \in Nat /\ Len(Question(q.qname)) \in Nat
        /\ Len(Question(q.qname)) + 3 + Len(OptOut(q)) <= SizeLimit(q)
        /\ this_max_response(q) + Len(OptOut(q)) <= SizeLimit(q)
    BY <1>2, <1>11, RoomIs DEF IsSeq
  <2>2. Len(c.pkt) <= this_max_response(q) \/ Len(c.pkt) <= Len(Question(q.qname)) + 3 BY <1>2 DEF Within
  <2> QED BY <1>4, <1>9, <1>10, <2>1, <2>2
<1> QED BY <1>0, <1>2, <1>11 DEF WireOK

LEMMA IdleWire == ASSUME NEW t, NEW u, NEW x PROVE WireOK("idle", t, u, x)
BY DEF WireOK

LEMMA QueryWire ==
  ASSUME LoadInv, ServeInv, LinkInv, WireInv, Query
  PROVE  WireInv'
<1>1. phase = "run"
  <2>1. pc # "idle" \/ phase = "run"
    BY DEF Query, Receive, Search, ChainTooLongNow, FollowCname, ChainDone, AnswerNxdomain, AnswerNode,
           Authority, AnswerReferral, AnswerNoauth, Truncate, Trim, Finish, Sent
  <2> QED BY <2>1 DEF ServeInv
<1>2. Linkage /\ Running BY <1>1 DEF LoadInv, TreeInv, Running, LinkInv, Linkage
<1>3. ServeOK(pc, tree, q, c) /\ WireOK(pc, tree, q, c) BY DEF ServeInv, WireInv
<1>4. WireOK(pc', tree', q', c')
  <2>1. CASE \E u \in Queries : Receive(u) BY <2>1, ReceiveWire
  <2>2. CASE Search BY <1>3, <2>2, SearchWire
  <2>3. CASE ChainTooLongNow BY <1>2, <1>3, <2>3, TooLongWire
  <2>4. CASE FollowCname BY <1>2, <1>3, <2>4, FollowWire
  <2>5. CASE ChainDone BY <1>3, <2>5, ChainDoneWire
  <2>6. CASE AnswerNxdomain BY <1>2, <1>3, <2>6, NxdomainWire
  <2>7. CASE AnswerNode BY <1>2, <1>3, <2>7, NodeWire
  <2>8. CASE Authority BY <1>2, <1>3, <2>8, AuthorityWire
  <2>9. CASE AnswerReferral BY <1>2, <1>3, <2>9, ReferralWire
  <2>10. CASE AnswerNoauth BY <1>3, <2>10, NoauthWire
  <2>11. CASE Truncate BY <1>3, <2>11, TruncateWire
  <2>12. CASE Trim BY <1>3, <2>12, TrimWire
  <2>13. CASE Finish BY <1>3, <2>13, FinishWire
  <2>14. CASE Sent BY <2>14, IdleWire DEF Sent
  <2> QED BY <2>1, <2>2, <2>3, <2>4, <2>5, <2>6, <2>7, <2>8, <2>9, <2>10, <2>11, <2>12, <2>13, <2>14 DEF Query
<1> QED BY <1>4 DEF WireInv

LEMMA WireStep ==
  ASSUME LoadInv, ServeInv, LinkInv, WireInv, [Next]_vars
  PROVE  LinkInv' /\ WireInv'
<1>0. LoadInv' BY ServeStep
<1>1. CASE Load /\ UNCHANGED <<pc, q, c>>
  <2>1. LinkInv' BY <1>0, <1>1, LinkStep
  <2>2. phase # "run"
    BY <1>1 DEF Load, AddZone, ScanRecord, NoRecord, Phase1, Phase2
  <2>3. pc = "idle" BY <2>2 DEF ServeInv
  <2> QED BY <1>1, <2>1, <2>3, IdleWire DEF WireInv
<1>2. CASE Query
  <2>1. UNCHANGED ltree
    BY <1>2 DEF Query, Receive, Search, ChainTooLongNow, FollowCname, ChainDone, AnswerNxdomain, AnswerNode,
           Authority, AnswerReferral, AnswerNoauth, Truncate, Trim, Finish, Sent, ltree
  <2> QED BY <1>0, <1>2, <2>1, LinkStep, QueryWire
<1>3. CASE UNCHANGED vars
  <2>1. UNCHANGED ltree BY <1>3 DEF vars, ltree
  <2>2. tree' = tree /\ pc' = pc /\ q' = q /\ c' = c BY <1>3 DEF vars
  <2> QED BY <1>0, <2>1, <2>2, LinkStep DEF WireInv
<1> QED BY <1>1, <1>2, <1>3 DEF Next

\* Every response fits: 512 bytes for plain UDP, what the client announced and the
\* server allows with EDNS, the buffer with TCP, whatever zones were loaded, whatever
\* the plugins answer and however the additional section was filled and trimmed.  The
\* query may have any number of client-subnet options as long as the room set aside for
\* them is not larger than the limit, also if it leaves less than the question needs.
THEOREM ResponseFitsAlways == Spec => []ResponseFits
<1> DEFINE I == LoadInv /\ ServeInv /\ LinkInv /\ WireInv
<1>1. DnsInit => I
  <2>1. DnsInit => WireInv BY IdleWire DEF DnsInit, WireInv
  <2> QED BY <2>1, LoadInit, ServeInit, LinkInit DEF DnsInit
<1>2. I /\ [Next]_vars => I' BY ServeStep, WireStep
<1>3. I => ResponseFits
  <2> SUFFICES ASSUME WireInv, Responded, OptRoom(q) <= SizeLimit(q) PROVE Len(c.pkt) <= SizeLimit(q)
    BY DEF ResponseFits, AlwaysFits
  <2> QED BY DEF WireInv, WireOK, Responded
<1> QED BY <1>1, <1>2, <1>3, PTL DEF Spec

=============================================================================
