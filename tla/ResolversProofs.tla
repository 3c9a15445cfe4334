-------------------------- MODULE ResolversProofs --------------------------
(***************************************************************************)
(* What an answer of the resolver plugins says, for any resources that the *)
(* plugins accept, any number of datacenters, addresses, services, clients *)
(* and stores, any weights and any random numbers. Formed(N) gives a       *)
(* resource's fields their types. Distincts says that no address is given  *)
(* twice in an address set, and NamedDyncs that no list of datacenters for *)
(* a DYNC is empty; a theorem assumes them where it needs them, and        *)
(* MCResolvers evaluates all three for its resources.                      *)
(*                                                                         *)
(* The properties speak of the end of a query and of the states that words *)
(* have had since its beginning, and the main thread stores new states     *)
(* between any two reads. Two invariants follow the reads between. IInv is *)
(* for the TTL: what a thread has seen other than UP, some word of this    *)
(* datacenter has been (no store takes that back), and if none of its      *)
(* words has ever been UP, then an address that decides on the TTL has     *)
(* been seen not UP, or is the next one to be read. A plugin has such a    *)
(* read because its configuration asks for at least one service of every   *)
(* address.                                                                *)
(*                                                                         *)
(* JInv, which needs IInv to be inductive, is for the addresses: whose     *)
(* turn it is (Turn: the datacenters before it have failed, so a word of   *)
(* each has been DOWN), what has been noticed (Sees: what is seen DOWN has *)
(* been DOWN, and what was DOWN all the time has been seen so or is still  *)
(* to be read), and what each family has been given (Gives). Between the   *)
(* two stands what a plugin makes of the states it sees (Answer), which is *)
(* a matter of sums, random numbers and thresholds and not of time.        *)
(*                                                                         *)
(* The words read, the sums and the choices are results of functions that  *)
(* are defined by recursion. The lemmas on them show that the function     *)
(* exists and what it gives, by induction in the form of a statement on    *)
(* sets of numbers.                                                        *)
(***************************************************************************)
EXTENDS Resolvers, SequenceTheorems, FiniteSetTheorems, WellFoundedInduction, TLAPS

-----------------------------------------------------------------------------
(* Sequences of sequences.                                                 *)

LEMMA Least ==
  ASSUME NEW T \in SUBSET Nat, T # {}
  PROVE  \E x \in T : \A y \in T : x <= y
<1> DEFINE R == OpToRel(<, Nat)
<1>1. IsWellFoundedOn(OpToRel(<, Nat), Nat) BY NatLessThanWellFounded
<1>2. IsWellFoundedOn(R, Nat) BY <1>1
<1>3. \A x, y \in Nat : y < x => <<y, x>> \in R BY DEF OpToRel
<1> HIDE DEF R
<1>4. PICK x \in T : \A y \in T : ~(<<y, x>> \in R) BY <1>2, WFMin
<1>5. ASSUME NEW y \in T PROVE x <= y
  <2>1. x \in Nat /\ y \in Nat OBVIOUS
  <2>2. ~(y < x) BY <1>3, <1>4, <2>1
  <2> QED BY <2>1, <2>2
<1> QED BY <1>5

LEMMA Induction ==
  ASSUME NEW S \in SUBSET Nat, 0 \in S, \A n \in Nat : n \in S => n + 1 \in S
  PROVE  Nat \subseteq S
<1> SUFFICES ASSUME Nat \ S # {} PROVE FALSE OBVIOUS
<1>1. PICK x \in Nat \ S : \A y \in Nat \ S : x <= y BY Least
<1>2. x # 0 OBVIOUS
<1>3. x - 1 \in Nat /\ (x - 1) + 1 = x /\ ~(x <= x - 1) BY <1>2
<1>4. x - 1 \in S BY <1>1, <1>3
<1> QED BY <1>3, <1>4

\* The function that FlattenSeq defines exists.
LEMMA FlattenDefined ==
  ASSUME NEW s, Len(s) \in Nat
  PROVE  \E f : f = [i \in 1..Len(s) |-> IF i = 1 THEN s[i] ELSE f[i-1] \o s[i]]
<1> DEFINE E(n) == \E f : f = [i \in 1..n |-> IF i = 1 THEN s[i] ELSE f[i-1] \o s[i]]
           T == {n \in Nat : E(n)}
<1>1. E(0)
  <2> DEFINE f == [i \in 1..0 |-> s[i]]
  <2>1. f = [i \in 1..0 |-> IF i = 1 THEN s[i] ELSE f[i-1] \o s[i]] OBVIOUS
  <2> QED BY <2>1
<1>2. ASSUME NEW n \in Nat, E(n) PROVE E(n + 1)
  <2>1. PICK f : f = [i \in 1..n |-> IF i = 1 THEN s[i] ELSE f[i-1] \o s[i]] BY <1>2
  <2> DEFINE v == IF n = 0 THEN s[1] ELSE f[n] \o s[n + 1]
             g == [i \in 1..(n + 1) |-> IF i = n + 1 THEN v ELSE f[i]]
             h == [i \in 1..(n + 1) |-> IF i = 1 THEN s[i] ELSE g[i-1] \o s[i]]
  <2>2. ASSUME NEW i \in 1..(n + 1) PROVE g[i] = h[i]
    <3>1. CASE i = n + 1
      <4>1. CASE n = 0 BY <3>1, <4>1
      <4>2. CASE n # 0
        <5>1. n \in 1..(n + 1) /\ i - 1 = n /\ i # 1 /\ n # n + 1 BY <3>1, <4>2
        <5>2. g[n] = f[n] BY <5>1
        <5>3. h[i] = g[n] \o s[i] BY <5>1
        <5>4. g[i] = f[n] \o s[n + 1] BY <3>1, <4>2
        <5> QED BY <3>1, <5>2, <5>3, <5>4
      <4> QED BY <4>1, <4>2
    <3>2. CASE i # n + 1
      <4>1. i \in 1..n BY <3>2
      <4>2. g[i] = f[i] BY <3>2
      <4>3. f[i] = IF i = 1 THEN s[i] ELSE f[i-1] \o s[i] BY <2>1, <4>1
      <4>4. i # 1 => i - 1 \in 1..(n + 1) /\ i - 1 # n + 1 BY <4>1
      <4>5. i # 1 => g[i-1] = f[i-1] BY <4>4
      <4>6. h[i] = IF i = 1 THEN s[i] ELSE g[i-1] \o s[i] OBVIOUS
      <4> HIDE DEF g, h
      <4> QED BY <4>2, <4>3, <4>5, <4>6
    <3> QED BY <3>1, <3>2
  <2>3. g = h
    <3>1. DOMAIN g = 1..(n + 1) /\ DOMAIN h = 1..(n + 1) OBVIOUS
    <3> QED BY <2>2
  <2> HIDE DEF v
  <2> QED BY <2>3
<1> HIDE DEF E
<1>3. T \in SUBSET Nat /\ 0 \in T /\ \A n \in Nat : n \in T => n + 1 \in T BY <1>1, <1>2
<1>4. Nat \subseteq T BY <1>3, Induction
<1>5. E(Len(s)) BY <1>4
<1> QED BY <1>5 DEF E

LEMMA SequenceOf ==
  ASSUME NEW S, NEW n \in Nat, NEW f \in [1..n -> S]
  PROVE  f \in Seq(S) /\ Len(f) = n
OBVIOUS

LEMMA Concatenation ==
  ASSUME NEW S, NEW a \in Seq(S), NEW b \in Seq(S)
  PROVE  /\ a \o b \in Seq(S) /\ Len(a) \in Nat /\ Len(b) \in Nat
         /\ Len(a \o b) = Len(a) + Len(b)
         /\ \A m \in 1..Len(a) : m \in 1..Len(a \o b) /\ (a \o b)[m] = a[m]
         /\ \A m \in 1..Len(b) : Len(a) + m \in 1..Len(a \o b) /\ (a \o b)[Len(a) + m] = b[m]
<1>1. a \o b \in Seq(S) /\ Len(a) \in Nat /\ Len(b) \in Nat /\ Len(a \o b) = Len(a) + Len(b)
  BY ConcatProperties
<1>2. \A m \in 1..Len(a) : m \in 1..Len(a \o b) /\ (a \o b)[m] = a[m]
  BY <1>1, ConcatProperties
<1>3. ASSUME NEW m \in 1..Len(b)
      PROVE  Len(a) + m \in 1..Len(a \o b) /\ (a \o b)[Len(a) + m] = b[m]
  <2>1. Len(a) + m \in 1..(Len(a) + Len(b)) /\ ~(Len(a) + m <= Len(a)) /\ Len(a) + m - Len(a) = m
    BY <1>1
  <2> QED BY <1>1, <2>1, ConcatProperties
<1> QED BY <1>1, <1>2, <1>3

\* FlattenSeq() gives a sequence of the elements, and leaves none out.
LEMMA FlattenSeqOf ==
  ASSUME NEW S, NEW s \in Seq(Seq(S))
  PROVE  /\ FlattenSeq(s) \in Seq(S)
         /\ \A i \in 1..Len(s) : \A j \in 1..Len(s[i]) :
               \E m \in 1..Len(FlattenSeq(s)) : FlattenSeq(s)[m] = s[i][j]
<1> DEFINE D(f) == f = [i \in 1..Len(s) |-> IF i = 1 THEN s[i] ELSE f[i-1] \o s[i]]
           f == CHOOSE f : D(f)
           Holds(n) == /\ f[n] \in Seq(S)
                       /\ \A i \in 1..n : \A j \in 1..Len(s[i]) : \E m \in 1..Len(f[n]) : f[n][m] = s[i][j]
           T == {n \in Nat : n \in 1..Len(s) => Holds(n)}
<1>1. Len(s) \in Nat /\ \A i \in 1..Len(s) : s[i] \in Seq(S) OBVIOUS
<1>2. D(f)
  <2>1. \E g : D(g) BY <1>1, FlattenDefined
  <2> QED BY <2>1
<1> HIDE DEF f
<1>3. \A i \in 1..Len(s) : f[i] = IF i = 1 THEN s[i] ELSE f[i-1] \o s[i] BY <1>2
<1>4. ASSUME NEW n \in Nat, n \in 1..Len(s) => Holds(n), n + 1 \in 1..Len(s) PROVE Holds(n + 1)
  <2>1. CASE n = 0 BY <1>1, <1>3, <1>4, <2>1
  <2>2. CASE n # 0
    <3>1. n \in 1..Len(s) /\ Holds(n) BY <1>4, <2>2
    <3>2. f[n + 1] = f[n] \o s[n + 1]
      <4>1. (n + 1) - 1 = n /\ n + 1 # 1 BY <2>2
      <4> QED BY <1>3, <1>4, <4>1
    <3> DEFINE a == f[n]
               b == s[n + 1]
    <3>3. a \in Seq(S) /\ b \in Seq(S) BY <1>1, <1>4, <3>1
    <3> HIDE DEF a, b
    <3>4. /\ a \o b \in Seq(S)
          /\ \A m \in 1..Len(a) : m \in 1..Len(a \o b) /\ (a \o b)[m] = a[m]
          /\ \A m \in 1..Len(b) : Len(a) + m \in 1..Len(a \o b) /\ (a \o b)[Len(a) + m] = b[m]
      BY <3>3, Concatenation
    <3>5. ASSUME NEW i \in 1..(n + 1), NEW j \in 1..Len(s[i])
          PROVE  \E m \in 1..Len(a \o b) : (a \o b)[m] = s[i][j]
      <4>1. CASE i = n + 1 BY <3>4, <4>1 DEF b
      <4>2. CASE i # n + 1
        <5>1. i \in 1..n BY <4>2
        <5>2. PICK m \in 1..Len(a) : a[m] = s[i][j] BY <3>1, <5>1 DEF a
        <5> QED BY <3>4, <5>2
      <4> QED BY <4>1, <4>2
    <3>6. f[n + 1] = a \o b BY <3>2 DEF a, b
    <3> QED BY <3>4, <3>5, <3>6
  <2> QED BY <2>1, <2>2
<1> HIDE DEF Holds
<1>5. T \in SUBSET Nat /\ 0 \in T /\ \A n \in Nat : n \in T => n + 1 \in T BY <1>4
<1>6. Nat \subseteq T BY <1>5, Induction
<1>7. CASE Len(s) = 0
  <2>1. FlattenSeq(s) = s BY <1>7 DEF FlattenSeq
  <2>2. s \in Seq(S) BY <1>7
  <2>3. \A i \in 1..Len(s) : FALSE BY <1>7
  <2> QED BY <2>1, <2>2, <2>3, Zenon
<1>8. CASE Len(s) # 0
  <2>1. FlattenSeq(s) = f[Len(s)] BY <1>1, <1>8 DEF FlattenSeq, f
  <2>2. Holds(Len(s)) BY <1>1, <1>6, <1>8
  <2> DEFINE F == FlattenSeq(s)
  <2>3. F = f[Len(s)] BY <2>1
  <2> HIDE DEF F
  <2>4. F \in Seq(S) BY <2>2, <2>3 DEF Holds
  <2>5. \A i \in 1..Len(s) : \A j \in 1..Len(s[i]) : \E m \in 1..Len(F) : F[m] = s[i][j]
    BY <2>2, <2>3 DEF Holds
  <2> QED BY <2>4, <2>5 DEF F
<1> QED BY <1>7, <1>8

\* Nor does it add any.
LEMMA FlattenSeqFrom ==
  ASSUME NEW S, NEW s \in Seq(Seq(S)), NEW m \in 1..Len(FlattenSeq(s))
  PROVE  \E i \in 1..Len(s) : \E j \in 1..Len(s[i]) : FlattenSeq(s)[m] = s[i][j]
<1> DEFINE Q == {x \in S : \E i \in 1..Len(s) : \E j \in 1..Len(s[i]) : x = s[i][j]}
           SQ == Seq(Q)
           n == Len(s)
<1>1. n \in Nat /\ DOMAIN s = 1..n /\ \A i \in 1..n : s[i] \in Seq(S) OBVIOUS
<1>2. ASSUME NEW i \in 1..n PROVE s[i] \in SQ
  <2> DEFINE t == s[i]
             k == Len(t)
  <2>1. t \in Seq(S) BY <1>1
  <2>2. k \in Nat /\ t \in [1..k -> S] BY <2>1
  <2>3. \A j \in 1..k : t[j] \in Q BY <2>2
  <2> HIDE DEF t, k, Q
  <2>4. t \in [1..k -> Q] BY <2>2, <2>3
  <2>5. t \in Seq(Q) BY <2>2, <2>4, SequenceOf
  <2> QED BY <2>5 DEF t
<1> HIDE DEF Q, SQ, n
<1>3. s \in [1..n -> SQ] BY <1>1, <1>2
<1>4. s \in Seq(SQ) BY <1>1, <1>3, SequenceOf
<1>5. FlattenSeq(s) \in Seq(Q) BY <1>4, FlattenSeqOf DEF SQ
<1>6. FlattenSeq(s)[m] \in Q BY <1>5
<1> QED BY <1>6 DEF Q

-----------------------------------------------------------------------------
(* What configuration makes sure of.                                       *)

Formed(N) == \A x \in Resources : WellFormed(x, N)

\* The addresses whose states decide on the TTL of a plugin's answer.
Keys(plugin, set) == IF plugin = "simplefo" THEN {set.items[1][1].addr} ELSE NamesOf(set)

Pairs(set) == [addr : NamesOf(set), word : WordsOf(set)]

\* Every address of a set is among its names, and its words among its words.
LEMMA SetOf ==
  ASSUME NEW N, NEW set, set.items \in Seq(Seq(Address(N)))
  PROVE  /\ WordsOf(set) \subseteq Word
         /\ \A i \in 1..Len(set.items) : \A a \in 1..Len(set.items[i]) :
               /\ set.items[i][a] \in Address(N) /\ set.items[i][a].addr \in NamesOf(set)
               /\ \A k \in 1..Len(set.items[i][a].words) : set.items[i][a].words[k] \in WordsOf(set)
<1> DEFINE F == FlattenSeq(set.items)
<1>1. /\ F \in Seq(Address(N))
      /\ \A i \in 1..Len(set.items) : \A a \in 1..Len(set.items[i]) :
            \E m \in 1..Len(F) : F[m] = set.items[i][a]
  BY FlattenSeqOf
<1>2. Addrs(set) = F BY DEF Addrs
<1> HIDE DEF F
<1>3. DOMAIN F = 1..Len(F) /\ \A m \in 1..Len(F) : F[m] \in Address(N) BY <1>1
<1>4. \A x \in Address(N) : x.words \in Seq(Word) /\ DOMAIN x.words = 1..Len(x.words)
  BY DEF Address
<1>5. WordsOf(set) \subseteq Word
  <2>1. \A m \in 1..Len(F) : Range(F[m].words) \subseteq Word BY <1>3, <1>4 DEF Range
  <2> QED BY <1>2, <1>3, <2>1 DEF WordsOf
<1>6. ASSUME NEW i \in 1..Len(set.items), NEW a \in 1..Len(set.items[i])
      PROVE  /\ set.items[i][a] \in Address(N) /\ set.items[i][a].addr \in NamesOf(set)
             /\ \A k \in 1..Len(set.items[i][a].words) : set.items[i][a].words[k] \in WordsOf(set)
  <2>1. PICK m \in 1..Len(F) : F[m] = set.items[i][a] BY <1>1
  <2> DEFINE x == set.items[i][a]
  <2>2. x \in Address(N) /\ F[m] = x BY <1>3, <2>1
  <2> HIDE DEF x
  <2>3. x.addr \in NamesOf(set) BY <1>2, <1>3, <2>2 DEF NamesOf
  <2>4. \A k \in 1..Len(x.words) : x.words[k] \in Range(F[m].words) BY <1>4, <2>2 DEF Range
  <2>5. Range(F[m].words) \subseteq WordsOf(set) BY <1>2, <1>3 DEF WordsOf
  <2> QED BY <2>2, <2>3, <2>4, <2>5 DEF x
<1> QED BY <1>5, <1>6

\* gdnsd_monio_min_state() reads the words of an item, at least one if its
\* first address has one.
LEMMA ReadsOf ==
  ASSUME NEW N, NEW set, set.items \in Seq(Seq(Address(N))), NEW i \in 1..Len(set.items)
  PROVE  /\ Reads(set.items[i]) \in Seq(Pairs(set))
         /\ Len(set.items[i]) > 0 /\ Len(set.items[i][1].words) > 0 =>
              /\ Len(Reads(set.items[i])) > 0
              /\ Len(set.items[i]) = 1 => Head(Reads(set.items[i])).addr = set.items[i][1].addr
<1> DEFINE item == set.items[i]
           P == Pairs(set)
           g == [a \in DOMAIN item |->
                   [k \in DOMAIN item[a].words |-> [addr |-> item[a].addr, word |-> item[a].words[k]]]]
           Q == {p \in P : p.addr = item[1].addr}
<1>1. item \in Seq(Address(N)) /\ DOMAIN item = 1..Len(item) /\ Len(item) \in Nat OBVIOUS
<1>2. ASSUME NEW a \in 1..Len(item)
      PROVE  /\ g[a] \in Seq(P) /\ Len(g[a]) = Len(item[a].words)
             /\ a = 1 => g[a] \in Seq(Q)
  <2>1. /\ item[a] \in Address(N) /\ item[a].addr \in NamesOf(set)
        /\ \A k \in 1..Len(item[a].words) : item[a].words[k] \in WordsOf(set)
    BY SetOf
  <2>2. item[a].words \in Seq(Word) BY <2>1 DEF Address
  <2> DEFINE w == item[a].words
             h == [k \in 1..Len(w) |-> [addr |-> item[a].addr, word |-> w[k]]]
  <2>3. Len(w) \in Nat /\ DOMAIN w = 1..Len(w) BY <2>2
  <2>4. g[a] = h BY <1>1, <2>3
  <2>5. \A k \in 1..Len(w) : h[k] \in P BY <2>1 DEF Pairs
  <2>6. \A k \in 1..Len(w) : a = 1 => h[k] \in Q BY <2>5
  <2>7. \A S : (\A k \in 1..Len(w) : h[k] \in S) => h \in Seq(S) /\ Len(h) = Len(w)
    <3> SUFFICES ASSUME NEW S, \A k \in 1..Len(w) : h[k] \in S PROVE h \in Seq(S) /\ Len(h) = Len(w)
      OBVIOUS
    <3>1. h \in [1..Len(w) -> S] OBVIOUS
    <3> HIDE DEF h, w
    <3> QED BY <2>3, <3>1
  <2> HIDE DEF h, w, g, P, Q
  <2> QED BY <2>4, <2>5, <2>6, <2>7 DEF w
<1>3. DOMAIN g = 1..Len(item) BY <1>1
<1>4. Reads(item) = FlattenSeq(g) BY DEF Reads
<1>5. ASSUME NEW S, \A a \in 1..Len(item) : g[a] \in Seq(S) PROVE g \in Seq(Seq(S)) /\ Len(g) = Len(item)
  <2>1. g \in [1..Len(item) -> Seq(S)] BY <1>1, <1>5
  <2> DEFINE SS == Seq(S)
             n == Len(item)
  <2> HIDE DEF g, item, SS, n
  <2>2. n \in Nat /\ g \in [1..n -> SS] BY <1>1, <2>1 DEF SS, n
  <2>3. g \in Seq(SS) /\ Len(g) = n BY <2>2, SequenceOf
  <2> QED BY <2>3 DEF SS, n
<1> HIDE DEF g
<1>6. g \in Seq(Seq(P)) /\ Len(g) = Len(item) BY <1>2, <1>5
<1>7. Reads(item) \in Seq(P) BY <1>4, <1>6, FlattenSeqOf
<1>8. ASSUME Len(item) > 0, Len(item[1].words) > 0
      PROVE  /\ Len(Reads(item)) > 0
             /\ Len(item) = 1 => Head(Reads(item)).addr = item[1].addr
  <2>1. 1 \in 1..Len(g) /\ 1 \in 1..Len(g[1])
    <3>1. 1 \in 1..Len(item) BY <1>1, <1>8
    <3>2. Len(g[1]) = Len(item[1].words) /\ g[1] \in Seq(P) BY <1>2, <3>1
    <3> QED BY <1>6, <1>8, <3>1, <3>2
  <2>2. \E m \in 1..Len(Reads(item)) : TRUE BY <1>4, <1>6, <2>1, FlattenSeqOf
  <2>3. Len(Reads(item)) > 0 BY <1>7, <2>2
  <2>4. ASSUME Len(item) = 1 PROVE Head(Reads(item)).addr = item[1].addr
    <3>1. \A a \in 1..Len(item) : g[a] \in Seq(Q) BY <1>2, <2>4
    <3> HIDE DEF Q
    <3>2. g \in Seq(Seq(Q)) BY <1>5, <3>1
    <3>3. Reads(item) \in Seq(Q) BY <1>4, <3>2, FlattenSeqOf
    <3>4. Head(Reads(item)) \in Q BY <2>3, <3>3
    <3> QED BY <3>4 DEF Q
  <2> QED BY <2>3, <2>4
<1> QED BY <1>7, <1>8

LEMMA AllReadsOf ==
  ASSUME NEW N, NEW set, set.items \in Seq(Seq(Address(N)))
  PROVE  /\ AllReads(set) \in Seq(Pairs(set))
         /\ Len(set.items) > 0 /\ Len(set.items[1]) > 0 /\ Len(set.items[1][1].words) > 0 =>
              Len(AllReads(set)) > 0
<1> DEFINE items == set.items
           n == Len(items)
           P == Pairs(set)
           SP == Seq(P)
           g == [i \in DOMAIN items |-> Reads(items[i])]
<1>1. n \in Nat /\ DOMAIN items = 1..n OBVIOUS
<1>2. \A i \in 1..n : Reads(items[i]) \in SP BY ReadsOf
<1>3. AllReads(set) = FlattenSeq(g) BY DEF AllReads
<1>4. \A i \in 1..n : g[i] = Reads(items[i]) BY <1>1
<1>5. g \in [1..n -> SP] BY <1>1, <1>2
<1> HIDE DEF g, n, SP, P
<1>6. g \in Seq(SP) /\ Len(g) = n BY <1>1, <1>5, SequenceOf
<1>7. g \in Seq(Seq(P)) BY <1>6 DEF SP
<1>8. AllReads(set) \in Seq(P) BY <1>3, <1>7, FlattenSeqOf
<1>9. ASSUME n > 0, Len(items[1]) > 0, Len(items[1][1].words) > 0 PROVE Len(AllReads(set)) > 0
  <2>1. 1 \in 1..n BY <1>1, <1>9
  <2>2. Len(Reads(items[1])) > 0 BY <1>9, <2>1, ReadsOf DEF n
  <2>3. Reads(items[1]) \in Seq(P) BY <1>2, <2>1 DEF SP
  <2>4. 1 \in 1..Len(g) /\ 1 \in 1..Len(g[1]) BY <1>4, <1>6, <2>1, <2>2, <2>3
  <2>5. \E m \in 1..Len(AllReads(set)) : TRUE BY <1>3, <1>7, <2>4, FlattenSeqOf
  <2> QED BY <1>8, <2>5
<1> QED BY <1>8, <1>9 DEF P, n

\* A plugin that is not monitored has no words.
LEMMA NoWords ==
  ASSUME NEW N, NEW set, set.items \in Seq(Seq(Address(N))),
         \A i \in DOMAIN set.items : \A a \in DOMAIN set.items[i] : set.items[i][a].words = <<>>
  PROVE  WordsOf(set) = {}
<1> DEFINE S == {x \in Address(N) : x.words = <<>>}
           SS == Seq(S)
           items == set.items
           n == Len(items)
           F == FlattenSeq(items)
<1>1. n \in Nat /\ DOMAIN items = 1..n /\ \A i \in 1..n : items[i] \in Seq(Address(N)) OBVIOUS
<1>2. ASSUME NEW i \in 1..n PROVE items[i] \in SS
  <2> DEFINE it == items[i]
             m == Len(it)
  <2>1. it \in Seq(Address(N)) BY <1>1
  <2>2. m \in Nat /\ it \in [1..m -> Address(N)] /\ DOMAIN it = 1..m BY <2>1
  <2>3. \A a \in 1..m : it[a].words = <<>> BY <1>1, <2>2
  <2> HIDE DEF it, m
  <2>4. it \in [1..m -> S] BY <2>2, <2>3
  <2> HIDE DEF S
  <2>5. it \in Seq(S) BY <2>2, <2>4, SequenceOf
  <2> QED BY <2>5 DEF it
<1> HIDE DEF S, SS
<1>3. items \in [1..n -> SS] BY <1>1, <1>2
<1>4. items \in Seq(SS)
  <2> HIDE DEF n, items
  <2> QED BY <1>1, <1>3, SequenceOf
<1>5. F \in Seq(S) BY <1>4, FlattenSeqOf DEF SS
<1>6. Addrs(set) = F BY DEF Addrs
<1> HIDE DEF F
<1>7. \A m \in DOMAIN F : F[m].words = <<>> BY <1>5 DEF S
<1>8. \A m \in DOMAIN F : Range(F[m].words) = {} BY <1>7 DEF Range
<1> QED BY <1>6, <1>8 DEF WordsOf

\* What the configuration of the three monitored plugins has in common.
LEMMA ConfiguredSet ==
  ASSUME NEW N, Formed(N), NEW x \in Resources, make_resource(x), NEW d \in DOMAIN x.dcs,
         NEW fam \in {"v4", "v6"}
  PROVE  LET set == x.dcs[d][fam]  plugin == x.dcs[d].plugin
         IN  /\ set.items \in Seq(Seq(Address(N))) /\ plugin \in Plugins
             /\ plugin \notin Monitors => WordsOf(set) = {}
             /\ plugin \in Monitors /\ set.items # <<>> =>
                  /\ 1 \in 1..Len(set.items) /\ 1 \in 1..Len(set.items[1])
                  /\ Len(set.items[1][1].words) > 0
             /\ plugin = "simplefo" /\ set.items # <<>> => 2 \in 1..Len(set.items) /\ Len(set.items[1]) = 1
<1> DEFINE dc == x.dcs[d]
           set == dc[fam]
<1>1. /\ set.items \in Seq(Seq(Address(N))) /\ dc.plugin \in Plugins
      /\ dc.plugin \notin Monitors =>
           \A i \in DOMAIN set.items : \A a \in DOMAIN set.items[i] : set.items[i][a].words = <<>>
  BY DEF Formed, WellFormed
<1>2. dc.plugin \notin Monitors => WordsOf(set) = {} BY <1>1, NoWords
<1>3. FamilyOk(dc, fam) BY DEF make_resource, DcOk
<1> HIDE DEF dc
<1>4. ASSUME set.items # <<>>, dc.plugin = "simplefo"
      PROVE  /\ 1 \in 1..Len(set.items) /\ 1 \in 1..Len(set.items[1])
             /\ Len(set.items[1][1].words) > 0
             /\ 2 \in 1..Len(set.items) /\ Len(set.items[1]) = 1
  <2>1. simplefo_config(set, fam) BY <1>3, <1>4 DEF FamilyOk
  <2> QED BY <2>1 DEF simplefo_config, addr_setup
<1>5. ASSUME set.items # <<>>, dc.plugin = "multifo"
      PROVE  /\ 1 \in 1..Len(set.items) /\ 1 \in 1..Len(set.items[1])
             /\ Len(set.items[1][1].words) > 0
  <2>1. multifo_config(set, fam) BY <1>3, <1>5 DEF FamilyOk
  <2>2. Len(set.items) \in Nat /\ DOMAIN set.items = 1..Len(set.items) BY <1>1
  <2>3. 1 \in 1..Len(set.items) BY <2>1, <2>2, ResolversAssumption DEF multifo_config
  <2> QED BY <2>1, <2>2, <2>3 DEF multifo_config, addr_setup
<1>6. ASSUME set.items # <<>>, dc.plugin = "weighted"
      PROVE  /\ 1 \in 1..Len(set.items) /\ 1 \in 1..Len(set.items[1])
             /\ Len(set.items[1][1].words) > 0
  <2>1. config_addrset(set, fam) BY <1>3, <1>6 DEF FamilyOk
  <2>2. Len(set.items) \in Nat /\ DOMAIN set.items = 1..Len(set.items) BY <1>1
  <2>3. 1 \in 1..Len(set.items) BY <2>1, <2>2, ResolversAssumption DEF config_addrset
  <2>4. config_item_addr_groups(set.items[1], fam, Len(set.items[1][1].words))
    BY <2>1, <2>2, <2>3 DEF config_addrset
  <2>5. set.items[1] \in Seq(Address(N)) BY <1>1, <2>3
  <2>6. Len(set.items[1]) \in Nat /\ DOMAIN set.items[1] = 1..Len(set.items[1]) BY <2>5
  <2>7. 1 \in 1..Len(set.items[1])
    BY <2>4, <2>6, ResolversAssumption DEF config_item_addr_groups
  <2> QED BY <2>3, <2>4, <2>6, <2>7 DEF config_item_addr_groups, config_item_addrs, addr_setup
<1> QED BY <1>1, <1>2, <1>4, <1>5, <1>6 DEF Monitors, dc

\* The first reads of a plugin for a family.
LEMMA FirstReadsOf ==
  ASSUME NEW N, Formed(N), NEW x \in Resources, make_resource(x), NEW d \in DOMAIN x.dcs,
         NEW fam \in {"v4", "v6"}, x.dcs[d][fam].items # <<>> \/ x.dcs[d].plugin # "simplefo"
  PROVE  LET set == x.dcs[d][fam]  plugin == x.dcs[d].plugin
         IN  /\ FirstReads(plugin, set) \in Seq(Pairs(set))
             /\ plugin \in Monitors /\ set.items # <<>> =>
                  /\ FirstReads(plugin, set) # <<>>
                  /\ Head(FirstReads(plugin, set)).addr \in Keys(plugin, set)
                  /\ Keys(plugin, set) \subseteq NamesOf(set)
             /\ plugin = "simplefo" => Reads(set.items[2]) \in Seq(Pairs(set))
<1> DEFINE plugin == x.dcs[d].plugin
           set == x.dcs[d][fam]
<1>1. /\ set.items \in Seq(Seq(Address(N))) /\ plugin \in Plugins
      /\ plugin \in Monitors /\ set.items # <<>> =>
           /\ 1 \in 1..Len(set.items) /\ 1 \in 1..Len(set.items[1])
           /\ Len(set.items[1][1].words) > 0
      /\ plugin = "simplefo" => 2 \in 1..Len(set.items) /\ Len(set.items[1]) = 1
      /\ plugin = "simplefo" => set.items # <<>>
  BY ConfiguredSet
<1> HIDE DEF plugin, set
<1>2. CASE plugin = "simplefo"
  <2>1. /\ 1 \in 1..Len(set.items) /\ 1 \in 1..Len(set.items[1]) /\ Len(set.items[1]) > 0
        /\ Len(set.items[1][1].words) > 0 /\ 2 \in 1..Len(set.items) /\ Len(set.items[1]) = 1
    BY <1>1, <1>2 DEF Monitors
  <2>2. /\ FirstReads(plugin, set) = Reads(set.items[1])
        /\ Keys(plugin, set) = {set.items[1][1].addr}
    BY <1>2 DEF FirstReads, Keys
  <2>3. Reads(set.items[1]) \in Seq(Pairs(set)) /\ Reads(set.items[2]) \in Seq(Pairs(set))
    BY <1>1, <2>1, ReadsOf
  <2>4. /\ Len(Reads(set.items[1])) > 0 /\ Head(Reads(set.items[1])).addr = set.items[1][1].addr
    BY <1>1, <2>1, ReadsOf
  <2>5. set.items[1][1].addr \in NamesOf(set) BY <1>1, <2>1, SetOf
  <2>6. Reads(set.items[1]) # <<>> BY <2>3, <2>4
  <2> QED BY <2>2, <2>3, <2>4, <2>5, <2>6 DEF plugin, set
<1>3. CASE plugin # "simplefo"
  <2>1. FirstReads(plugin, set) = AllReads(set) /\ Keys(plugin, set) = NamesOf(set)
    BY <1>3 DEF FirstReads, Keys
  <2>2. AllReads(set) \in Seq(Pairs(set)) BY <1>1, AllReadsOf
  <2>3. ASSUME plugin \in Monitors, set.items # <<>>
        PROVE  AllReads(set) # <<>> /\ Head(AllReads(set)).addr \in NamesOf(set)
    <3>1. Len(set.items) > 0 /\ Len(set.items[1]) > 0 /\ Len(set.items[1][1].words) > 0
      BY <1>1, <2>3
    <3>2. Len(AllReads(set)) > 0 BY <1>1, <3>1, AllReadsOf
    <3>3. AllReads(set) # <<>> BY <2>2, <3>2
    <3>4. Head(AllReads(set)) \in Pairs(set) BY <2>2, <3>3
    <3> QED BY <3>3, <3>4 DEF Pairs
  <2> QED BY <1>3, <2>1, <2>2, <2>3 DEF plugin, set
<1> QED BY <1>2, <1>3

LEMMA NamesFrom ==
  ASSUME NEW N, NEW set, set.items \in Seq(Seq(Address(N))), NEW m \in NamesOf(set)
  PROVE  \E i \in 1..Len(set.items) : \E a \in 1..Len(set.items[i]) : m = set.items[i][a].addr
<1> DEFINE F == FlattenSeq(set.items)
<1>1. F \in Seq(Address(N)) BY FlattenSeqOf
<1>2. Addrs(set) = F BY DEF Addrs
<1>3. \A k \in 1..Len(F) : \E i \in 1..Len(set.items) : \E a \in 1..Len(set.items[i]) : F[k] = set.items[i][a]
  BY FlattenSeqFrom
<1> HIDE DEF F
<1>4. PICK k \in 1..Len(F) : m = F[k].addr BY <1>1, <1>2 DEF NamesOf
<1> QED BY <1>3, <1>4

-----------------------------------------------------------------------------
(* What a plugin's resolve function sees, and the TTL it gives.            *)

SetWords(x, d) == WordsOf(x.dcs[d].v4) \cup WordsOf(x.dcs[d].v6)
Answering(x) == {d \in DOMAIN x.dcs : AnswersDyna(x.dcs[d])}

\* h gives the states that words have had: one of them was not UP, or none ever was.
SomeNotUp(x, h, d) == \E w \in SetWords(x, d) : h[w] # {UP}
NeverUp(x, h, d) == \A w \in SetWords(x, d) : UP \notin h[w]

\* While states are read, y being the local state of the resolution.
Reading(x, h, y) ==
    LET set == x.dcs[y.dc][y.fam]  plugin == x.dcs[y.dc].plugin
    IN  /\ y.dc \in Answering(x) /\ y.fam \in {"v4", "v6"}
        /\ plugin # "reflect" => set.items # <<>>
        /\ y.ttl = TTL
        /\ y.seen \in [NamesOf(set) -> States] /\ y.todo \in Seq(Pairs(set))
        /\ y.cut \/ (\E a \in NamesOf(set) : y.seen[a] # UP) => SomeNotUp(x, h, y.dc)
        /\ plugin \in Monitors /\ NeverUp(x, h, y.dc) =>
             \/ \E a \in Keys(plugin, set) : y.seen[a] # UP
             \/ y.todo # <<>> /\ Head(y.todo).addr \in Keys(plugin, set)

\* After the plugin has returned.
Ended(x, h, y) ==
    /\ y.dc \in Answering(x) /\ y.ttl \in {TTL, TTL \div 2}
    /\ ~SomeNotUp(x, h, y.dc) => y.ttl = TTL
    /\ SetWords(x, y.dc) # {} /\ NeverUp(x, h, y.dc) => y.ttl = TTL \div 2

Fields == {"list", "all", "retry", "dc", "fam", "sec", "todo", "seen", "v4", "v6", "cut", "ttl",
           "rv", "out", "cname", "client", "bad"}

Words ==
    /\ word \in [Word -> States] /\ was \in [Word -> SUBSET States]
    /\ \A w \in Word : word[w] \in was[w]

Lists(x, y) ==
    /\ y.list \in Seq(Answering(x)) /\ y.all \in Seq(Answering(x)) /\ y.all # <<>>
    /\ y.cname = {}

IInv ==
    /\ res \in Resources /\ make_resource(res) /\ map_res(res)
    /\ DOMAIN r = Fields /\ Words
    /\ pc \in {"read", "return"} => Lists(res, r)
    /\ pc = "read" => Reading(res, was, r)
    /\ pc = "return" => Ended(res, was, r)
    /\ pc = "done" /\ r.dc # 0 /\ r.cname = {} => Ended(res, was, r)

LEMMA WordsTyped ==
  ASSUME NEW N, Formed(N), NEW x \in Resources, make_resource(x), NEW d \in DOMAIN x.dcs
  PROVE  /\ SetWords(x, d) \subseteq Word
         /\ x.dcs[d].plugin \notin Monitors => SetWords(x, d) = {}
         /\ \A fam \in {"v4", "v6"} : WordsOf(x.dcs[d][fam]) \subseteq SetWords(x, d)
<1>1. \A fam \in {"v4", "v6"} : WordsOf(x.dcs[d][fam]) \subseteq Word BY ConfiguredSet, SetOf
<1>2. x.dcs[d].plugin \notin Monitors => \A fam \in {"v4", "v6"} : WordsOf(x.dcs[d][fam]) = {}
  BY ConfiguredSet
<1>3. x.dcs[d]["v4"] = x.dcs[d].v4 /\ x.dcs[d]["v6"] = x.dcs[d].v6 OBVIOUS
<1> QED BY <1>1, <1>2, <1>3 DEF SetWords

LEMMA StartReading ==
  ASSUME NEW N, Formed(N), res \in Resources, make_resource(res), NEW x, DOMAIN x = Fields,
         x.dc \in Answering(res), x.ttl = TTL, x.cut => SomeNotUp(res, was, x.dc),
         NEW fam \in {"v4", "v6"},
         res.dcs[x.dc].plugin # "reflect" => res.dcs[x.dc][fam].items # <<>>
  PROVE  /\ Reading(res, was, Start(x, fam)) /\ DOMAIN Start(x, fam) = Fields
         /\ Lists(res, x) => Lists(res, Start(x, fam))
<1> DEFINE y == Start(x, fam)
           set == res.dcs[x.dc][fam]
           plugin == res.dcs[x.dc].plugin
<1>1. /\ DOMAIN y = Fields /\ y.fam = fam /\ y.todo = FirstReads(plugin, set)
      /\ y.seen = [a \in NamesOf(set) |-> UP]
      /\ y.dc = x.dc /\ y.cut = x.cut /\ y.ttl = x.ttl /\ y.cname = x.cname
      /\ y.list = x.list /\ y.all = x.all
  BY DEF Start, Fields
<1> HIDE DEF y
<1>2. x.dc \in DOMAIN res.dcs BY DEF Answering
<1>3. plugin = "simplefo" => set.items # <<>> OBVIOUS
<1>4. /\ FirstReads(plugin, set) \in Seq(Pairs(set))
      /\ plugin \in Monitors /\ set.items # <<>> =>
           /\ FirstReads(plugin, set) # <<>>
           /\ Head(FirstReads(plugin, set)).addr \in Keys(plugin, set)
  BY <1>2, <1>3, FirstReadsOf
<1>5. plugin \in Monitors => plugin # "reflect" BY DEF Monitors
<1>6. y.seen \in [NamesOf(set) -> States] /\ \A a \in NamesOf(set) : y.seen[a] = UP
  BY <1>1 DEF States
<1>7. Lists(res, x) => Lists(res, y) BY <1>1 DEF Lists
<1> HIDE DEF set, plugin
<1>8. /\ res.dcs[y.dc][y.fam] = set /\ res.dcs[y.dc].plugin = plugin BY <1>1 DEF set, plugin
<1>9. Reading(res, was, y)
  BY <1>1, <1>4, <1>5, <1>6, <1>8 DEF Reading, set, plugin
<1> QED BY <1>1, <1>7, <1>9 DEF y

LEMMA CallReading ==
  ASSUME NEW N, Formed(N), res \in Resources, make_resource(res), NEW x, DOMAIN x = Fields,
         NEW d \in Answering(res)
  PROVE  /\ Reading(res, was, Call(x, d)) /\ DOMAIN Call(x, d) = Fields
         /\ Lists(res, x) => Lists(res, Call(x, d))
<1> DEFINE y == [x EXCEPT !.dc = d, !.v4 = <<>>, !.v6 = <<>>, !.cut = FALSE, !.ttl = TTL, !.rv = TRUE]
           fam == IF res.dcs[d].v4.items # <<>> THEN "v4" ELSE "v6"
<1>1. /\ DOMAIN y = Fields /\ y.dc = d /\ y.cut = FALSE /\ y.ttl = TTL
      /\ y.list = x.list /\ y.all = x.all /\ y.cname = x.cname
  BY DEF Fields
<1>2. Call(x, d) = Start(y, fam) BY DEF Call
<1> HIDE DEF y
<1>3. fam \in {"v4", "v6"} OBVIOUS
<1>4. res.dcs[d].plugin # "reflect" => res.dcs[d][fam].items # <<>>
  BY DEF Answering, AnswersDyna
<1>5. Lists(res, x) => Lists(res, y) BY <1>1 DEF Lists
<1> HIDE DEF fam
<1> QED BY <1>1, <1>2, <1>3, <1>4, <1>5, StartReading

\* The result of a plugin is cut if and only if one of the addresses it looks
\* at first is not UP.
LEMMA CutOf ==
  ASSUME NEW N, Formed(N), NEW x \in Resources, make_resource(x), NEW d \in Answering(x),
         NEW fam \in {"v4", "v6"}, x.dcs[d].plugin # "reflect", x.dcs[d][fam].items # <<>>,
         NEW seen, NEW o \in Results(x.dcs[d].plugin, x.dcs[d][fam], seen)
  PROVE  /\ o.cut => \E a \in NamesOf(x.dcs[d][fam]) : seen[a] # UP
         /\ x.dcs[d].plugin \in Monitors =>
              (o.cut <=> \E a \in Keys(x.dcs[d].plugin, x.dcs[d][fam]) : seen[a] # UP)
<1> DEFINE plugin == x.dcs[d].plugin
           set == x.dcs[d][fam]
<1>1. d \in DOMAIN x.dcs /\ plugin # "cname" BY DEF Answering, AnswersDyna
<1>2. FamilyOk(x.dcs[d], fam) BY <1>1 DEF make_resource, DcOk
<1>3. /\ set.items \in Seq(Seq(Address(N))) /\ plugin \in Plugins
      /\ plugin \in Monitors => 1 \in 1..Len(set.items) /\ 1 \in 1..Len(set.items[1])
  BY <1>1, ConfiguredSet
<1>4. plugin = "multifo" => multifo_config(set, fam) BY <1>2 DEF FamilyOk
<1> HIDE DEF plugin, set
<1>5. o \in Results(plugin, set, seen) BY DEF plugin, set
<1>6. \A m \in NamesOf(set) :
        \E i \in 1..Len(set.items) : \E a \in 1..Len(set.items[i]) : m = set.items[i][a].addr
  <2>1. set.items \in Seq(Seq(Address(N))) BY <1>3
  <2> QED BY <2>1, NamesFrom
<1>7. CASE plugin = "simplefo"
  <2>1. o \in simplefo(set, seen) BY <1>5, <1>7 DEF Results
  <2> DEFINE C == seen[set.items[1][1].addr] # UP
  <2>2. \E A, B : o = [addrs |-> A, rv |-> B, cut |-> C] BY <2>1, Zenon DEF simplefo
  <2> HIDE DEF C
  <2>3. o.cut <=> C BY <2>2
  <2>4. o.cut <=> seen[set.items[1][1].addr] # UP BY <2>3 DEF C
  <2>5. set.items[1][1].addr \in NamesOf(set) BY <1>3, <1>7, SetOf DEF Monitors
  <2>6. Keys(plugin, set) = {set.items[1][1].addr} BY <1>7 DEF Keys
  <2> QED BY <2>4, <2>5, <2>6 DEF plugin, set
<1>8. CASE plugin = "multifo"
  <2> DEFINE all == [i \in DOMAIN set.items |-> set.items[i][1].addr]
  <2>1. o \in multifo(set, seen) BY <1>5, <1>8 DEF Results
  <2> DEFINE C == \E a \in Range(all) : seen[a] # UP
  <2>2. \E A, B : o = [addrs |-> A, rv |-> B, cut |-> C] BY <2>1, Zenon DEF multifo
  <2> HIDE DEF C
  <2>3. o.cut <=> C BY <2>2
  <2>4. o.cut <=> \E a \in Range(all) : seen[a] # UP BY <2>3 DEF C
  <2>5. DOMAIN set.items = 1..Len(set.items) BY <1>3
  <2>6. \A i \in 1..Len(set.items) : Len(set.items[i]) = 1 BY <1>4, <1>8, <2>5 DEF multifo_config
  <2>7. Range(all) = {set.items[i][1].addr : i \in 1..Len(set.items)} BY <2>5 DEF Range
  <2>8. Range(all) \subseteq NamesOf(set)
    <3>1. ASSUME NEW i \in 1..Len(set.items) PROVE set.items[i][1].addr \in NamesOf(set)
      <4>1. 1 \in 1..Len(set.items[i]) BY <2>6
      <4> QED BY <1>3, <4>1, SetOf
    <3> QED BY <2>7, <3>1
  <2>9. NamesOf(set) \subseteq Range(all)
    <3>1. ASSUME NEW m \in NamesOf(set) PROVE m \in Range(all)
      <4>1. PICK i \in 1..Len(set.items) : \E a \in 1..Len(set.items[i]) : m = set.items[i][a].addr
        BY <1>6
      <4>2. m = set.items[i][1].addr BY <2>6, <4>1
      <4> QED BY <2>7, <4>2
    <3> QED BY <3>1
  <2>10. Keys(plugin, set) = NamesOf(set) BY <1>8 DEF Keys
  <2> HIDE DEF all
  <2>11. Range(all) = NamesOf(set) BY <2>8, <2>9
  <2> QED BY <2>4, <2>10, <2>11 DEF plugin, set
<1>9. CASE plugin = "weighted"
  <2>1. o \in weighted(set, seen) BY <1>5, <1>9 DEF Results
  <2> DEFINE C == \E a \in NamesOf(set) : seen[a] # UP
  <2>2. \E A, B : o = [addrs |-> A, rv |-> B, cut |-> C] BY <2>1, Zenon DEF weighted
  <2> HIDE DEF C
  <2>3. o.cut <=> C BY <2>2
  <2>4. o.cut <=> \E a \in NamesOf(set) : seen[a] # UP BY <2>3 DEF C
  <2>5. Keys(plugin, set) = NamesOf(set) BY <1>9 DEF Keys
  <2> QED BY <2>4, <2>5 DEF plugin, set
<1>10. CASE plugin \in {"static", "null"}
  <2>1. o \in fixed(set) BY <1>5, <1>10 DEF Results
  <2>2. o.cut = FALSE BY <2>1 DEF fixed
  <2>3. plugin \notin Monitors BY <1>10 DEF Monitors
  <2> QED BY <2>2, <2>3 DEF plugin, set
<1> QED BY <1>1, <1>3, <1>7, <1>8, <1>9, <1>10 DEF Plugins, Monitors, plugin

\* Adding addresses changes only the addresses.
LEMMA Added ==
  ASSUME NEW x, DOMAIN x = Fields, NEW addrs
  PROVE  /\ DOMAIN add_result_anysin(x, addrs) = Fields
         /\ \A k \in Fields \ {"v4", "v6"} : add_result_anysin(x, addrs)[k] = x[k]
<1> DEFINE a == Kept(addrs, Range(addrs) \ V6)
           b == Kept(addrs, V6)
           y == [x EXCEPT !.v4 = @ \o a, !.v6 = @ \o b]
<1>1. add_result_anysin(x, addrs) = y BY DEF add_result_anysin
<1> HIDE DEF a, b
<1>2. DOMAIN y = Fields /\ \A k \in Fields \ {"v4", "v6"} : y[k] = x[k] BY DEF Fields
<1> QED BY <1>1, <1>2

-----------------------------------------------------------------------------
(* The steps of a resolution.                                              *)

LEMMA NothingIs ==
  /\ DOMAIN Nothing = Fields /\ Nothing.dc = 0 /\ Nothing.cname = {} /\ Nothing.ttl = TTL
BY DEF Nothing, Fields

\* A list of datacenters to try has only such that answer.
LEMMA ListsAnswer ==
  ASSUME NEW N, Formed(N), NEW x \in Resources, map_res(x), NEW l \in x.lists
  PROVE  l \in Seq(Answering(x))
<1>1. l \in Seq(DOMAIN x.dcs) BY DEF Formed, WellFormed
<1>2. \A d \in DOMAIN x.dcs : AnswersDyna(x.dcs[d]) BY DEF map_res
<1>3. DOMAIN x.dcs = Answering(x) BY <1>2 DEF Answering
<1> QED BY <1>1, <1>3

LEMMA CB_RES_AStep ==
  ASSUME NEW CONSTANT N, Formed(N), IInv, CB_RES_A
  PROVE  IInv'
<1>1. PICK l \in res.lists \cup Synthetic("DYNA") : Begin(l) BY DEF CB_RES_A
<1>2. l \in Seq(Answering(res))
  <2>1. CASE l \in res.lists BY <2>1, ListsAnswer DEF IInv
  <2>2. CASE l \in Synthetic("DYNA")
    <3>1. PICK d \in Answering(res) : l = <<d>> BY <2>2 DEF Synthetic, Answering
    <3> QED BY <3>1
  <2> QED BY <1>1, <2>1, <2>2
<1>3. UNCHANGED <<res, word, was, stores>> BY DEF CB_RES_A
<1>4. Words' BY <1>3 DEF IInv, Words
<1>5. CASE l = <<>>
  <2>1. pc' = "done" /\ r' = Nothing BY <1>1, <1>5 DEF Begin
  <2> QED BY <1>3, <1>4, <2>1, NothingIs DEF IInv
<1>6. CASE l # <<>>
  <2> DEFINE x == [Nothing EXCEPT !.list = Tail(l), !.all = l]
  <2>1. pc' = "read" /\ r' = Call(x, l[1]) BY <1>1, <1>6 DEF Begin
  <2>2. DOMAIN x = Fields /\ x.list = Tail(l) /\ x.all = l /\ x.cname = {}
    BY DEF Nothing, Fields
  <2> HIDE DEF x
  <2>3. l[1] \in Answering(res) /\ Tail(l) \in Seq(Answering(res)) BY <1>2, <1>6
  <2>4. Lists(res, x) BY <1>2, <1>6, <2>2, <2>3 DEF Lists
  <2>5. Reading(res, was, r') /\ DOMAIN r' = Fields /\ Lists(res, r')
    BY <2>1, <2>2, <2>3, <2>4, CallReading DEF IInv
  <2> QED BY <1>3, <1>4, <2>1, <2>5 DEF IInv
<1> QED BY <1>5, <1>6

LEMMA ReadStateStep ==
  ASSUME NEW CONSTANT N, Formed(N), IInv, ReadState
  PROVE  IInv'
<1> DEFINE set == res.dcs[r.dc][r.fam]
           plugin == res.dcs[r.dc].plugin
           t == Head(r.todo)
           v == IF word[t.word] < r.seen[t.addr] THEN word[t.word] ELSE r.seen[t.addr]
<1>1. /\ pc = "read" /\ r.todo # <<>> /\ UNCHANGED <<res, word, pc, was, stores>>
      /\ r' = [r EXCEPT !.todo = Tail(@), !.seen[t.addr] = v]
  BY DEF ReadState
<1>2. /\ r.dc \in Answering(res) /\ r.fam \in {"v4", "v6"}
      /\ plugin # "reflect" => set.items # <<>>
      /\ r.ttl = TTL
      /\ r.seen \in [NamesOf(set) -> States] /\ r.todo \in Seq(Pairs(set))
      /\ r.cut \/ (\E a \in NamesOf(set) : r.seen[a] # UP) => SomeNotUp(res, was, r.dc)
      /\ plugin \in Monitors /\ NeverUp(res, was, r.dc) =>
           \/ \E a \in Keys(plugin, set) : r.seen[a] # UP
           \/ r.todo # <<>> /\ Head(r.todo).addr \in Keys(plugin, set)
  BY <1>1 DEF IInv, Reading
<1>3. DOMAIN r = Fields /\ Lists(res, r) /\ Words BY <1>1 DEF IInv
<1>4. t \in Pairs(set) /\ Tail(r.todo) \in Seq(Pairs(set))
  <2> DEFINE P == Pairs(set)
             q == r.todo
  <2>1. q \in Seq(P) /\ q # <<>> BY <1>1, <1>2
  <2> HIDE DEF P, q
  <2>2. Head(q) \in P /\ Tail(q) \in Seq(P) BY <2>1
  <2> QED BY <2>2 DEF P, q
<1>5. t.addr \in NamesOf(set) /\ t.word \in WordsOf(set) BY <1>4 DEF Pairs
<1>6. t.word \in SetWords(res, r.dc) /\ t.word \in Word
  BY <1>2, <1>5, WordsTyped DEF IInv, Answering
<1>7. word[t.word] \in States /\ word[t.word] \in was[t.word] BY <1>3, <1>6 DEF Words
<1> HIDE DEF t
<1>8. r.seen[t.addr] \in States BY <1>2, <1>5
<1>9. /\ v \in States /\ (v # UP => word[t.word] # UP \/ r.seen[t.addr] # UP)
      /\ (word[t.word] # UP \/ r.seen[t.addr] # UP => v # UP)
  BY <1>7, <1>8 DEF States, UP, DOWN, DANGER
<1> HIDE DEF v
<1>10. /\ DOMAIN r' = Fields /\ r'.todo = Tail(r.todo) /\ r'.seen = [r.seen EXCEPT ![t.addr] = v]
       /\ r'.dc = r.dc /\ r'.fam = r.fam /\ r'.ttl = r.ttl /\ r'.cut = r.cut
       /\ r'.list = r.list /\ r'.all = r.all /\ r'.cname = r.cname
  BY <1>1, <1>3 DEF Fields
<1>11. r'.seen \in [NamesOf(set) -> States]
  BY <1>2, <1>5, <1>9, <1>10
<1>12. \A a \in NamesOf(set) : r'.seen[a] = IF a = t.addr THEN v ELSE r.seen[a]
  BY <1>2, <1>5, <1>10
<1>13. ASSUME r'.cut \/ (\E a \in NamesOf(set) : r'.seen[a] # UP) PROVE SomeNotUp(res, was, r.dc)
  <2>1. CASE r'.cut BY <1>2, <1>10, <2>1
  <2>2. ASSUME NEW a \in NamesOf(set), r'.seen[a] # UP PROVE SomeNotUp(res, was, r.dc)
    <3>1. CASE r.seen[a] # UP BY <1>2, <3>1
    <3>2. CASE r.seen[a] = UP
      <4>1. word[t.word] # UP BY <1>9, <1>12, <2>2, <3>2
      <4>2. was[t.word] # {UP} BY <1>7, <4>1
      <4> QED BY <1>6, <4>2 DEF SomeNotUp
    <3> QED BY <3>1, <3>2
  <2> QED BY <1>13, <2>1, <2>2
<1>14. ASSUME plugin \in Monitors, NeverUp(res, was, r.dc)
       PROVE  \E a \in Keys(plugin, set) : r'.seen[a] # UP
  <2>1. Keys(plugin, set) \subseteq NamesOf(set)
    BY <1>2, <1>14, FirstReadsOf DEF IInv, Answering, Monitors
  <2>2. word[t.word] # UP BY <1>6, <1>7, <1>14 DEF NeverUp
  <2>3. v # UP BY <1>9, <2>2
  <2>4. CASE \E a \in Keys(plugin, set) : r.seen[a] # UP
    BY <1>12, <2>1, <2>3, <2>4
  <2>5. CASE t.addr \in Keys(plugin, set) BY <1>12, <2>1, <2>3, <2>5
  <2> QED BY <1>2, <1>14, <2>4, <2>5 DEF t
<1> HIDE DEF set, plugin
<1>15. res.dcs[r'.dc][r'.fam] = set /\ res.dcs[r'.dc].plugin = plugin BY <1>10 DEF set, plugin
<1>16. Reading(res, was, r')
  BY <1>2, <1>4, <1>10, <1>11, <1>13, <1>14, <1>15 DEF Reading
<1>17. Lists(res, r') BY <1>3, <1>10 DEF Lists
<1>18. Words' BY <1>1, <1>3 DEF Words
<1> QED BY <1>1, <1>10, <1>16, <1>17, <1>18 DEF IInv

LEMMA ReadSecondaryStep ==
  ASSUME NEW CONSTANT N, Formed(N), IInv, ReadSecondary
  PROVE  IInv'
<1> DEFINE set == res.dcs[r.dc][r.fam]
           plugin == res.dcs[r.dc].plugin
           todo == Reads(set.items[2])
<1>1. /\ pc = "read" /\ UNCHANGED <<res, word, pc, was, stores>>
      /\ r' = [r EXCEPT !.sec = TRUE, !.todo = todo]
      /\ plugin = "simplefo" /\ r.seen[set.items[1][1].addr] = DOWN
  BY DEF ReadSecondary, NeedsSecondary, Dc
<1>2. /\ r.dc \in Answering(res) /\ r.fam \in {"v4", "v6"}
      /\ plugin # "reflect" => set.items # <<>>
      /\ r.ttl = TTL
      /\ r.seen \in [NamesOf(set) -> States]
      /\ r.cut \/ (\E a \in NamesOf(set) : r.seen[a] # UP) => SomeNotUp(res, was, r.dc)
  BY <1>1 DEF IInv, Reading
<1>3. DOMAIN r = Fields /\ Lists(res, r) /\ Words BY <1>1 DEF IInv
<1>4. todo \in Seq(Pairs(set))
  BY <1>1, <1>2, FirstReadsOf DEF IInv, Answering
<1> HIDE DEF todo
<1>5. /\ DOMAIN r' = Fields /\ r'.todo = todo /\ r'.seen = r.seen
      /\ r'.dc = r.dc /\ r'.fam = r.fam /\ r'.ttl = r.ttl /\ r'.cut = r.cut
      /\ r'.list = r.list /\ r'.all = r.all /\ r'.cname = r.cname
  BY <1>1, <1>3 DEF Fields
<1>6. \E a \in Keys(plugin, set) : r'.seen[a] # UP
  <2> DEFINE p == set.items[1][1].addr
  <2>1. p \in Keys(plugin, set) BY <1>1 DEF Keys
  <2>2. r'.seen[p] = DOWN BY <1>1, <1>5
  <2>3. DOWN # UP BY DEF DOWN, UP
  <2> HIDE DEF p, set, plugin
  <2> QED BY <2>1, <2>2, <2>3
<1> HIDE DEF set, plugin
<1>7. res.dcs[r'.dc][r'.fam] = set /\ res.dcs[r'.dc].plugin = plugin BY <1>5 DEF set, plugin
<1>8. Reading(res, was, r') BY <1>2, <1>4, <1>5, <1>6, <1>7 DEF Reading
<1>9. Lists(res, r') BY <1>3, <1>5 DEF Lists
<1>10. Words' BY <1>1, <1>3 DEF Words
<1> QED BY <1>1, <1>5, <1>8, <1>9, <1>10 DEF IInv

LEMMA EndFamilyStep ==
  ASSUME NEW CONSTANT N, Formed(N), IInv, EndFamily
  PROVE  IInv'
<1> DEFINE set == res.dcs[r.dc][r.fam]
           plugin == res.dcs[r.dc].plugin
           X(o) == add_result_anysin([r EXCEPT !.rv = @ /\ o.rv, !.cut = @ \/ o.cut], o.addrs)
           Y(o) == [X(o) EXCEPT !.bad = @ \/ X(o)[r.fam] = <<>> \/ Len(X(o)[r.fam]) > MaxAddrs]
           more == r.fam = "v4" /\ res.dcs[r.dc].v6.items # <<>>
           Final(y) == [y EXCEPT !.ttl = IF y.cut THEN @ \div 2 ELSE @, !.todo = <<>>, !.seen = <<>>]
<1>1. /\ pc = "read" /\ r.todo = <<>> /\ plugin # "reflect" /\ UNCHANGED <<res, word, was, stores>>
  BY DEF EndFamily, Dc
<1>2. PICK o \in Results(plugin, set, r.seen) :
        IF more THEN r' = Start(Y(o), "v6") /\ UNCHANGED pc ELSE r' = Final(Y(o)) /\ pc' = "return"
  BY Zenon DEF EndFamily, Dc
<1>3. /\ r.dc \in Answering(res) /\ r.fam \in {"v4", "v6"} /\ set.items # <<>> /\ r.ttl = TTL
      /\ r.cut \/ (\E a \in NamesOf(set) : r.seen[a] # UP) => SomeNotUp(res, was, r.dc)
      /\ plugin \in Monitors /\ NeverUp(res, was, r.dc) => \E a \in Keys(plugin, set) : r.seen[a] # UP
  BY <1>1 DEF IInv, Reading
<1>4. DOMAIN r = Fields /\ Lists(res, r) /\ Words /\ res \in Resources /\ make_resource(res)
  BY <1>1 DEF IInv
<1>5. /\ o.cut => \E a \in NamesOf(set) : r.seen[a] # UP
      /\ plugin \in Monitors => (o.cut <=> \E a \in Keys(plugin, set) : r.seen[a] # UP)
  BY <1>1, <1>2, <1>3, <1>4, CutOf
<1>6. PICK y : /\ y = Y(o) /\ DOMAIN y = Fields /\ (y.cut <=> r.cut \/ o.cut)
               /\ y.dc = r.dc /\ y.ttl = r.ttl /\ y.list = r.list /\ y.all = r.all /\ y.cname = r.cname
  <2> DEFINE z == [r EXCEPT !.rv = @ /\ o.rv, !.cut = @ \/ o.cut]
             x == add_result_anysin(z, o.addrs)
             b == x.bad \/ x[r.fam] = <<>> \/ Len(x[r.fam]) > MaxAddrs
             y == [x EXCEPT !.bad = b]
  <2>1. /\ DOMAIN z = Fields /\ (z.cut <=> r.cut \/ o.cut)
        /\ z.dc = r.dc /\ z.ttl = r.ttl /\ z.list = r.list /\ z.all = r.all /\ z.cname = r.cname
    BY <1>4 DEF Fields
  <2> HIDE DEF z
  <2>2. DOMAIN x = Fields /\ \A k \in Fields \ {"v4", "v6"} : x[k] = z[k] BY <2>1, Added
  <2>3. y = Y(o) BY Zenon DEF z
  <2> HIDE DEF x, b, Y
  <2>4. DOMAIN y = Fields /\ \A k \in Fields \ {"v4", "v6", "bad"} : y[k] = z[k] BY <2>2 DEF Fields
  <2> HIDE DEF y
  <2>5. /\ y.cut = z.cut /\ y.dc = z.dc /\ y.ttl = z.ttl /\ y.list = z.list
        /\ y.all = z.all /\ y.cname = z.cname
    BY <2>4 DEF Fields
  <2> QED BY <2>1, <2>3, <2>4, <2>5
<1> HIDE DEF X, Y
<1>7. Lists(res, y) BY <1>4, <1>6 DEF Lists
<1>8. y.cut => SomeNotUp(res, was, r.dc) BY <1>3, <1>5, <1>6
<1>9. Words' BY <1>1, <1>4 DEF Words
<1>10. CASE more
  <2>1. r' = Start(y, "v6") /\ pc' = pc BY <1>2, <1>6, <1>10
  <2>2. res.dcs[y.dc]["v6"].items # <<>> BY <1>6, <1>10
  <2>3. Reading(res, was, r') /\ DOMAIN r' = Fields /\ Lists(res, r')
    BY <1>3, <1>4, <1>6, <1>7, <1>8, <2>1, <2>2, StartReading
  <2> QED BY <1>1, <1>9, <2>1, <2>3 DEF IInv
<1>11. CASE ~more
  <2> DEFINE ttl == IF y.cut THEN y.ttl \div 2 ELSE y.ttl
  <2>1. pc' = "return" /\ r' = [y EXCEPT !.ttl = ttl, !.todo = <<>>, !.seen = <<>>]
    BY <1>2, <1>6, <1>11
  <2>2. /\ (y.cut => ttl = TTL \div 2) /\ (~y.cut => ttl = TTL)
    BY <1>3, <1>6
  <2> HIDE DEF ttl
  <2>3. /\ DOMAIN r' = Fields /\ r'.ttl = ttl /\ r'.dc = r.dc
        /\ r'.list = y.list /\ r'.all = y.all /\ r'.cname = y.cname
    BY <1>6, <2>1 DEF Fields
  <2>4. Lists(res, r') BY <1>7, <2>3 DEF Lists
  <2>5. SetWords(res, r.dc) # {} => plugin \in Monitors
    BY <1>3, <1>4, WordsTyped DEF Answering
  <2>6. SetWords(res, r.dc) # {} /\ NeverUp(res, was, r.dc) => y.cut
    BY <1>3, <1>5, <1>6, <2>5
  <2>7. Ended(res, was, r') BY <1>3, <1>8, <2>2, <2>3, <2>6 DEF Ended
  <2> QED BY <1>1, <1>9, <2>1, <2>3, <2>4, <2>7 DEF IInv
<1> QED BY <1>10, <1>11

LEMMA ReflectStep ==
  ASSUME NEW CONSTANT N, Formed(N), IInv, Reflect
  PROVE  IInv'
<1> DEFINE z(c) == [r EXCEPT !.client = {c.src, c.edns}]
           x(c) == add_result_anysin(z(c), reflect(response(Dc.resname), c))
           b(c) == x(c).bad \/ r.v4 \o r.v6 # <<>> \/ x(c).v4 \o x(c).v6 = <<>>
<1>1. /\ pc = "read" /\ pc' = "return" /\ UNCHANGED <<res, word, was, stores>>
      /\ res.dcs[r.dc].plugin = "reflect"
  BY DEF Reflect, Dc
<1>2. PICK c \in Clients : r' = [x(c) EXCEPT !.bad = b(c)] BY Zenon DEF Reflect
<1>3. r.dc \in Answering(res) /\ r.ttl = TTL BY <1>1 DEF IInv, Reading
<1>4. DOMAIN r = Fields /\ Lists(res, r) /\ Words /\ res \in Resources /\ make_resource(res)
  BY <1>1 DEF IInv
<1>5. /\ DOMAIN z(c) = Fields
      /\ \A k \in Fields \ {"client"} : z(c)[k] = r[k]
  BY <1>4 DEF Fields
<1> HIDE DEF z
<1>6. DOMAIN x(c) = Fields /\ \A k \in Fields \ {"v4", "v6"} : x(c)[k] = z(c)[k] BY <1>5, Added
<1> HIDE DEF x, b
<1>7. /\ DOMAIN r' = Fields
      /\ \A k \in Fields \ {"client", "v4", "v6", "bad"} : r'[k] = r[k]
  BY <1>2, <1>5, <1>6 DEF Fields
<1>8. /\ r'.dc = r.dc /\ r'.ttl = r.ttl /\ r'.list = r.list /\ r'.all = r.all /\ r'.cname = r.cname
  BY <1>7 DEF Fields
<1>9. SetWords(res, r.dc) = {} BY <1>1, <1>3, <1>4, WordsTyped DEF Answering, Monitors
<1>10. Ended(res, was, r') BY <1>3, <1>8, <1>9 DEF Ended
<1>11. Lists(res, r') BY <1>4, <1>8 DEF Lists
<1>12. Words' BY <1>1, <1>4 DEF Words
<1> QED BY <1>1, <1>7, <1>10, <1>11, <1>12 DEF IInv

\* The next datacenter of the list, or the first one once more.
LEMMA TryStep ==
  ASSUME NEW CONSTANT N, Formed(N), IInv, NextDatacenter \/ FirstAgain
  PROVE  IInv'
<1>1. /\ pc = "return" /\ pc' = "read" /\ UNCHANGED <<res, word, was, stores>>
  BY DEF NextDatacenter, FirstAgain
<1>2. /\ DOMAIN r = Fields /\ Words /\ res \in Resources /\ make_resource(res)
      /\ r.list \in Seq(Answering(res)) /\ r.all \in Seq(Answering(res)) /\ r.all # <<>>
      /\ r.cname = {}
  BY <1>1 DEF IInv, Lists
<1>3. PICK x, d : r' = Call(x, d) /\ DOMAIN x = Fields /\ d \in Answering(res) /\ Lists(res, x)
  <2>1. CASE NextDatacenter
    <3> DEFINE x == [r EXCEPT !.list = Tail(@)]
               l == r.list
               S == Answering(res)
    <3>1. r' = Call(x, Head(l)) /\ l # <<>> /\ l \in Seq(S) BY <1>2, <2>1 DEF NextDatacenter
    <3>2. DOMAIN x = Fields /\ x.list = Tail(l) /\ x.all = r.all /\ x.cname = r.cname
      BY <1>2 DEF Fields
    <3> HIDE DEF x, l, S
    <3>3. Head(l) \in S /\ Tail(l) \in Seq(S) BY <3>1
    <3>4. Lists(res, x) BY <1>2, <3>2, <3>3 DEF Lists, S
    <3> QED BY <3>1, <3>2, <3>3, <3>4 DEF S
  <2>2. CASE FirstAgain
    <3> DEFINE x == [r EXCEPT !.retry = TRUE]
    <3>1. r' = Call(x, r.all[1]) BY <2>2 DEF FirstAgain
    <3>2. DOMAIN x = Fields /\ x.list = r.list /\ x.all = r.all /\ x.cname = r.cname
      BY <1>2 DEF Fields
    <3> HIDE DEF x
    <3>3. r.all[1] \in Answering(res) BY <1>2
    <3>4. Lists(res, x) BY <1>2, <3>2 DEF Lists
    <3> QED BY <3>1, <3>2, <3>3, <3>4
  <2> QED BY <2>1, <2>2
<1>4. Reading(res, was, r') /\ DOMAIN r' = Fields /\ Lists(res, r')
  BY <1>2, <1>3, CallReading
<1>5. Words' BY <1>1, <1>2 DEF Words
<1> QED BY <1>1, <1>4, <1>5 DEF IInv

LEMMA DoneStep ==
  ASSUME NEW CONSTANT N, Formed(N), IInv, Succeeded \/ AllFailed
  PROVE  IInv'
<1>1. /\ pc = "return" /\ pc' = "done" /\ UNCHANGED <<res, word, was, stores>>
      /\ r' = r \/ r' = [r EXCEPT !.out = FALSE]
  BY DEF Succeeded, AllFailed
<1>2. DOMAIN r = Fields /\ Words /\ Ended(res, was, r) BY <1>1 DEF IInv
<1>3. DOMAIN r' = Fields /\ r'.dc = r.dc /\ r'.ttl = r.ttl BY <1>1, <1>2 DEF Fields
<1>4. Ended(res, was, r') BY <1>2, <1>3 DEF Ended
<1>5. Words' BY <1>1, <1>2 DEF Words
<1> QED BY <1>1, <1>3, <1>4, <1>5 DEF IInv

LEMMA CB_RES_CStep ==
  ASSUME NEW CONSTANT N, Formed(N), IInv, CB_RES_C
  PROVE  IInv'
<1>1. pc' = "done" /\ UNCHANGED <<res, word, was, stores>> BY DEF CB_RES_C
<1>2. DOMAIN r' = Fields /\ (r'.dc = 0 \/ r'.cname # {})
  <2> DEFINE P(l) == \E name, ttl :
                       r' = [Nothing EXCEPT !.all = l, !.dc = l[1], !.cname = {name}, !.ttl = ttl]
             cn(l) == res.dcs[l[1]].cnames
             ws(l) == [k \in DOMAIN cn(l) |-> cn(l)[k].weight]
             ttl(l) == IF res.dcs[l[1]].plugin = "static" THEN 600 ELSE Nothing.ttl
             T(l, n) == [Nothing EXCEPT !.all = l, !.dc = l[1], !.cname = {n}, !.ttl = ttl(l)]
  <2>1. PICK l \in res.dyncs \cup Synthetic("DYNC") :
          IF l = <<>> THEN r' = [Nothing EXCEPT !.bad = TRUE]
          ELSE \E rand \in get_rand(Total(ws(l))) : r' = T(l, cn(l)[Pick(ws(l), rand)].name)
    BY DEF CB_RES_C
  <2>2. r' = [Nothing EXCEPT !.bad = TRUE] \/ P(l)
    <3> HIDE DEF ttl, cn, ws
    <3> QED BY <2>1
  <2>3. CASE r' = [Nothing EXCEPT !.bad = TRUE] BY <2>3 DEF Nothing, Fields
  <2>4. CASE P(l)
    BY <2>4 DEF Nothing, Fields
  <2> QED BY <2>2, <2>3, <2>4
<1>3. Words' BY <1>1 DEF IInv, Words
<1> QED BY <1>1, <1>2, <1>3 DEF IInv

LEMMA AnsweredStep ==
  ASSUME NEW CONSTANT N, Formed(N), IInv, Answered
  PROVE  IInv'
<1>1. /\ pc' = "idle" /\ r' = Nothing /\ was' = [w \in Word |-> {word[w]}] /\ UNCHANGED <<res, word>>
  BY DEF Answered
<1>2. Words' BY <1>1 DEF IInv, Words
<1> QED BY <1>1, <1>2, NothingIs DEF IInv

\* The states words have had only grow while a query is resolved.
LEMMA StoreStep ==
  ASSUME NEW CONSTANT N, Formed(N), IInv, NEW w \in Word, NEW s \in States, Store(w, s)
  PROVE  IInv'
<1>1. /\ pc \in {"read", "return"} => Lists(res, r)
      /\ pc # "done" /\ UNCHANGED <<res, pc, r>>
      /\ word' = [word EXCEPT ![w] = s] /\ was' = [was EXCEPT ![w] = @ \cup {s}]
  BY DEF Store, IInv
<1>2. Words BY DEF IInv
<1>3. was' \in [Word -> SUBSET States] /\ \A u \in Word : was[u] \subseteq was'[u] /\ was[u] # {}
  BY <1>1, <1>2 DEF Words
<1>4. Words' BY <1>1, <1>2, <1>3 DEF Words
<1>5. ASSUME NEW d \in DOMAIN res.dcs
      PROVE  /\ SomeNotUp(res, was, d) => SomeNotUp(res, was', d)
             /\ NeverUp(res, was', d) => NeverUp(res, was, d)
  <2>1. SetWords(res, d) \subseteq Word BY WordsTyped DEF IInv
  <2>2. \A u \in Word : was[u] # {UP} => was'[u] # {UP} BY <1>3
  <2>3. \A u \in Word : UP \notin was'[u] => UP \notin was[u] BY <1>3
  <2> QED BY <2>1, <2>2, <2>3 DEF SomeNotUp, NeverUp
<1>6. ASSUME pc = "read" PROVE Reading(res, was', r)
  <2>1. Reading(res, was, r) BY <1>6 DEF IInv
  <2>2. r.dc \in DOMAIN res.dcs BY <2>1 DEF Reading, Answering
  <2>3. /\ SomeNotUp(res, was, r.dc) => SomeNotUp(res, was', r.dc)
        /\ NeverUp(res, was', r.dc) => NeverUp(res, was, r.dc)
    BY <1>5, <2>2
  <2> QED BY <2>1, <2>3 DEF Reading
<1>7. ASSUME pc = "return" PROVE Ended(res, was', r)
  <2>1. Ended(res, was, r) BY <1>7 DEF IInv
  <2>2. r.dc \in DOMAIN res.dcs BY <2>1 DEF Ended, Answering
  <2>3. /\ SomeNotUp(res, was, r.dc) => SomeNotUp(res, was', r.dc)
        /\ NeverUp(res, was', r.dc) => NeverUp(res, was, r.dc)
    BY <1>5, <2>2
  <2> QED BY <2>1, <2>3 DEF Ended
<1> QED BY <1>1, <1>4, <1>6, <1>7 DEF IInv

\* Every step keeps the invariant for the TTL.
LEMMA InitHolds ==
  ASSUME Init
  PROVE  IInv
<1>1. Words BY DEF Init, Words
<1> QED BY <1>1, NothingIs DEF Init, IInv

LEMMA NextIInv ==
  ASSUME NEW CONSTANT N, Formed(N), IInv, [Next]_vars
  PROVE  IInv'
<1>1. CASE CB_RES_A BY <1>1, CB_RES_AStep
<1>2. CASE ReadState BY <1>2, ReadStateStep
<1>3. CASE ReadSecondary BY <1>3, ReadSecondaryStep
<1>4. CASE EndFamily BY <1>4, EndFamilyStep
<1>5. CASE Reflect BY <1>5, ReflectStep
<1>6. CASE Succeeded \/ AllFailed BY <1>6, DoneStep
<1>7. CASE NextDatacenter \/ FirstAgain BY <1>7, TryStep
<1>8. CASE CB_RES_C BY <1>8, CB_RES_CStep
<1>9. CASE Answered BY <1>9, AnsweredStep
<1>10. ASSUME NEW w \in Word, NEW s \in States, Store(w, s) PROVE IInv'
  BY <1>10, StoreStep
<1>11. CASE UNCHANGED vars
  <2>1. UNCHANGED <<res, word, pc, r, was>> BY <1>11 DEF vars
  <2>2. Words' BY <2>1 DEF IInv, Words
  <2> QED BY <2>1, <2>2 DEF IInv
<1> QED BY <1>1, <1>2, <1>3, <1>4, <1>5, <1>6, <1>7, <1>8, <1>9, <1>10, <1>11 DEF Next

-----------------------------------------------------------------------------
\* While a meta plugin goes from one datacenter to the next and the main thread
\* stores new states between any two reads, the TTL of the answer is that of the
\* record or half of it, and which of the two depends on the states of the words
\* of the datacenter that answers alone: for every configuration the plugins
\* accept, every number of datacenters, addresses, services and clients.
THEOREM TtlHalvedOnceAlways ==
  ASSUME NEW CONSTANT N, Formed(N)
  PROVE  Spec => []TtlHalvedOnce
<1>1. Init => IInv BY InitHolds
<1>2. IInv /\ [Next]_vars => IInv' BY NextIInv
<1>3. IInv => TtlHalvedOnce
  <2> SUFFICES ASSUME IInv, pc = "done", r.dc # 0, r.cname = {}
               PROVE  /\ r.ttl \in {TTL, TTL \div 2}
                      /\ (\A w \in DcWords(r.dc) : was[w] = {UP}) => r.ttl = TTL
                      /\ DcWords(r.dc) # {} /\ (\A w \in DcWords(r.dc) : UP \notin was[w]) =>
                           r.ttl = TTL \div 2
    BY DEF TtlHalvedOnce
  <2>1. Ended(res, was, r) BY DEF IInv
  <2>2. DcWords(r.dc) = SetWords(res, r.dc) BY DEF DcWords, SetWords
  <2> QED BY <2>1, <2>2 DEF Ended, SomeNotUp, NeverUp
<1> QED BY <1>1, <1>2, <1>3, PTL DEF Spec

-----------------------------------------------------------------------------
(* More on sequences of sequences.                                         *)

\* FlattenSeq() appends the sequences one after the other.
LEMMA FlattenSteps ==
  ASSUME NEW S, NEW s \in Seq(Seq(S)), Len(s) # 0
  PROVE  \E f : /\ FlattenSeq(s) = f[Len(s)] /\ f[1] = s[1]
                /\ \A n \in 1..Len(s) : n + 1 \in 1..Len(s) => f[n + 1] = f[n] \o s[n + 1]
<1> DEFINE D(f) == f = [i \in 1..Len(s) |-> IF i = 1 THEN s[i] ELSE f[i-1] \o s[i]]
           f == CHOOSE f : D(f)
<1>1. Len(s) \in Nat OBVIOUS
<1>2. D(f)
  <2>1. \E g : D(g) BY <1>1, FlattenDefined
  <2> QED BY <2>1
<1>3. FlattenSeq(s) = f[Len(s)] BY <1>1 DEF FlattenSeq
<1> HIDE DEF f
<1>4. \A i \in 1..Len(s) : f[i] = IF i = 1 THEN s[i] ELSE f[i-1] \o s[i] BY <1>2
<1>5. f[1] = s[1] BY <1>1, <1>4
<1>6. ASSUME NEW n \in 1..Len(s), n + 1 \in 1..Len(s) PROVE f[n + 1] = f[n] \o s[n + 1]
  <2>1. n + 1 # 1 /\ (n + 1) - 1 = n OBVIOUS
  <2> QED BY <1>4, <1>6, <2>1
<1> QED BY <1>3, <1>5, <1>6

\* The elements of disjoint sequences without repetition do not repeat.
LEMMA FlattenInjective ==
  ASSUME NEW S, NEW s \in Seq(Seq(S)),
         \A i, j \in 1..Len(s) : \A a \in 1..Len(s[i]), b \in 1..Len(s[j]) :
            s[i][a] = s[j][b] => i = j /\ a = b
  PROVE  IsInjective(FlattenSeq(s))
<1>1. Len(s) \in Nat /\ \A i \in 1..Len(s) : s[i] \in Seq(S) OBVIOUS
<1>2. CASE Len(s) = 0
  <2>1. FlattenSeq(s) = s /\ DOMAIN s = {} BY <1>2 DEF FlattenSeq
  <2> QED BY <2>1 DEF IsInjective
<1>3. CASE Len(s) # 0
  <2>1. PICK f : /\ FlattenSeq(s) = f[Len(s)] /\ f[1] = s[1]
                 /\ \A n \in 1..Len(s) : n + 1 \in 1..Len(s) => f[n + 1] = f[n] \o s[n + 1]
    BY <1>3, FlattenSteps
  <2> DEFINE Holds(n) == /\ f[n] \in Seq(S)
                         /\ \A m \in 1..Len(f[n]) : \E i \in 1..n : \E a \in 1..Len(s[i]) : f[n][m] = s[i][a]
                         /\ \A k, m \in 1..Len(f[n]) : f[n][k] = f[n][m] => k = m
             T == {n \in Nat : n \in 1..Len(s) => Holds(n)}
  <2>2. ASSUME NEW n \in Nat, n \in 1..Len(s) => Holds(n), n + 1 \in 1..Len(s) PROVE Holds(n + 1)
    <3>1. CASE n = 0
      <4>1. f[n + 1] = s[1] /\ 1 \in 1..Len(s) /\ 1 \in 1..(n + 1) BY <2>1, <2>2, <3>1
      <4>2. s[1] \in Seq(S) BY <1>1, <4>1
      <4>3. \A k, m \in 1..Len(s[1]) : s[1][k] = s[1][m] => k = m BY <4>1
      <4>4. \A m \in 1..Len(s[1]) : \E i \in 1..(n + 1) : \E j \in 1..Len(s[i]) : s[1][m] = s[i][j]
        BY <4>1
      <4> QED BY <4>1, <4>2, <4>3, <4>4
    <3>2. CASE n # 0
      <4>1. n \in 1..Len(s) /\ Holds(n)
        <5>1. n \in 1..Len(s) BY <1>1, <2>2, <3>2
        <5> HIDE DEF Holds
        <5> QED BY <2>2, <5>1
      <4>2. f[n + 1] = f[n] \o s[n + 1] BY <2>1, <2>2, <4>1
      <4> DEFINE a == f[n]
                 b == s[n + 1]
                 c == a \o b
      <4>3. a \in Seq(S) /\ b \in Seq(S) BY <1>1, <2>2, <4>1
      <4>4. \A m \in 1..Len(a) : \E i \in 1..n : \E j \in 1..Len(s[i]) : a[m] = s[i][j] BY <4>1
      <4>5. \A k, m \in 1..Len(a) : a[k] = a[m] => k = m BY <4>1
      <4>6. \A k, m \in 1..Len(b) : b[k] = b[m] => k = m BY <2>2
      <4>7. \A k \in 1..Len(a), m \in 1..Len(b) : a[k] # b[m]
        <5> SUFFICES ASSUME NEW k \in 1..Len(a), NEW m \in 1..Len(b), a[k] = b[m] PROVE FALSE OBVIOUS
        <5>1. PICK i \in 1..n : \E j \in 1..Len(s[i]) : a[k] = s[i][j] BY <4>4
        <5>2. i \in 1..Len(s) /\ i # n + 1 BY <1>1, <4>1
        <5> QED BY <2>2, <5>1, <5>2
      <4>8. f[n + 1] = c BY <4>2
      <4>9. n + 1 \in 1..(n + 1) /\ 1..n \subseteq 1..(n + 1) /\ \A m \in 1..Len(b) : b[m] = s[n + 1][m]
        OBVIOUS
      <4>10. Len(b) = Len(s[n + 1]) OBVIOUS
      <4> HIDE DEF a, b
      <4>11. /\ c \in Seq(S) /\ Len(a) \in Nat /\ Len(b) \in Nat /\ Len(c) = Len(a) + Len(b)
             /\ \A m \in 1..Len(a) : m \in 1..Len(c) /\ c[m] = a[m]
             /\ \A m \in 1..Len(b) : Len(a) + m \in 1..Len(c) /\ c[Len(a) + m] = b[m]
        BY <4>3, Concatenation
      <4> HIDE DEF c
      <4>12. ASSUME NEW m \in 1..Len(c)
             PROVE  \/ m \in 1..Len(a) /\ c[m] = a[m]
                    \/ m - Len(a) \in 1..Len(b) /\ c[m] = b[m - Len(a)]
        <5>1. CASE m <= Len(a) BY <4>11, <5>1
        <5>2. CASE ~(m <= Len(a))
          <6>1. m - Len(a) \in 1..Len(b) /\ Len(a) + (m - Len(a)) = m BY <4>11, <5>2
          <6> QED BY <4>11, <6>1
        <5> QED BY <5>1, <5>2
      <4>13. ASSUME NEW m \in 1..Len(c)
             PROVE  \E i \in 1..(n + 1) : \E j \in 1..Len(s[i]) : c[m] = s[i][j]
        <5>1. CASE m \in 1..Len(a) /\ c[m] = a[m]
          <6>1. PICK i \in 1..n : \E j \in 1..Len(s[i]) : a[m] = s[i][j] BY <4>4, <5>1
          <6>2. i \in 1..(n + 1) OBVIOUS
          <6> QED BY <5>1, <6>1, <6>2
        <5>2. CASE m - Len(a) \in 1..Len(b) /\ c[m] = b[m - Len(a)]
          <6> DEFINE j == m - Len(a)
          <6>1. j \in 1..Len(s[n + 1]) /\ c[m] = s[n + 1][j] BY <4>9, <4>10, <5>2
          <6> HIDE DEF j
          <6> QED BY <4>9, <6>1
        <5> QED BY <4>12, <5>1, <5>2
      <4>14. ASSUME NEW k \in 1..Len(c), NEW m \in 1..Len(c), c[k] = c[m] PROVE k = m
        <5>1. CASE k \in 1..Len(a) /\ c[k] = a[k]
          <6>1. m \in 1..Len(a) /\ c[m] = a[m] BY <4>7, <4>12, <4>14, <5>1
          <6> QED BY <4>5, <4>14, <5>1, <6>1
        <5>2. CASE k - Len(a) \in 1..Len(b) /\ c[k] = b[k - Len(a)]
          <6>1. m - Len(a) \in 1..Len(b) /\ c[m] = b[m - Len(a)] BY <4>7, <4>12, <4>14, <5>2
          <6>2. k - Len(a) = m - Len(a) BY <4>6, <4>14, <5>2, <6>1
          <6> QED BY <4>11, <6>2
        <5> QED BY <4>12, <5>1, <5>2
      <4> QED BY <4>8, <4>11, <4>13, <4>14
    <3> QED BY <3>1, <3>2
  <2> HIDE DEF Holds
  <2>3. T \in SUBSET Nat /\ 0 \in T /\ \A n \in Nat : n \in T => n + 1 \in T BY <2>2
  <2>4. Nat \subseteq T BY <2>3, Induction
  <2>5. Holds(Len(s)) BY <1>1, <1>3, <2>4
  <2> DEFINE F == FlattenSeq(s)
  <2>6. F = f[Len(s)] BY <2>1
  <2> HIDE DEF F
  <2>7. DOMAIN F = 1..Len(F) /\ \A k, m \in 1..Len(F) : F[k] = F[m] => k = m BY <2>5, <2>6 DEF Holds
  <2> QED BY <2>7 DEF IsInjective, F
<1> QED BY <1>2, <1>3

\* Sequences of at most one element: there are no more elements than sequences,
\* and if none is empty, as many and in their order.
LEMMA FlattenShort ==
  ASSUME NEW S, NEW s \in Seq(Seq(S)), \A i \in 1..Len(s) : Len(s[i]) <= 1
  PROVE  /\ Len(FlattenSeq(s)) <= Len(s)
         /\ (\A i \in 1..Len(s) : Len(s[i]) = 1) =>
              Len(FlattenSeq(s)) = Len(s) /\ \A i \in 1..Len(s) : FlattenSeq(s)[i] = s[i][1]
<1>1. Len(s) \in Nat /\ \A i \in 1..Len(s) : s[i] \in Seq(S) OBVIOUS
<1>2. CASE Len(s) = 0
  <2>1. FlattenSeq(s) = s BY <1>2 DEF FlattenSeq
  <2> QED BY <1>2, <2>1
<1>3. CASE Len(s) # 0
  <2>1. PICK f : /\ FlattenSeq(s) = f[Len(s)] /\ f[1] = s[1]
                 /\ \A n \in 1..Len(s) : n + 1 \in 1..Len(s) => f[n + 1] = f[n] \o s[n + 1]
    BY <1>3, FlattenSteps
  <2> DEFINE full == \A i \in 1..Len(s) : Len(s[i]) = 1
             Holds(n) == /\ f[n] \in Seq(S) /\ Len(f[n]) <= n
                         /\ full => Len(f[n]) = n /\ \A i \in 1..n : f[n][i] = s[i][1]
             T == {n \in Nat : n \in 1..Len(s) => Holds(n)}
  <2>2. ASSUME NEW n \in Nat, n \in 1..Len(s) => Holds(n), n + 1 \in 1..Len(s) PROVE Holds(n + 1)
    <3>1. CASE n = 0
      <4>1. f[n + 1] = s[1] /\ 1 \in 1..Len(s) /\ n + 1 = 1 BY <2>1, <2>2, <3>1
      <4>2. s[1] \in Seq(S) /\ Len(s[1]) <= 1 /\ (full => Len(s[1]) = 1) BY <1>1, <4>1
      <4>3. \A i \in 1..1 : i = 1 OBVIOUS
      <4> QED BY <4>1, <4>2, <4>3
    <3>2. CASE n # 0
      <4>1. n \in 1..Len(s) /\ Holds(n)
        <5>1. n \in 1..Len(s) BY <1>1, <2>2, <3>2
        <5> HIDE DEF Holds
        <5> QED BY <2>2, <5>1
      <4>2. f[n + 1] = f[n] \o s[n + 1] BY <2>1, <2>2, <4>1
      <4> DEFINE a == f[n]
                 b == s[n + 1]
                 c == a \o b
      <4>3. a \in Seq(S) /\ b \in Seq(S) /\ Len(a) <= n /\ Len(b) <= 1 BY <1>1, <2>2, <4>1
      <4>4. full => Len(b) = 1 BY <2>2
      <4>5. full => Len(a) = n /\ \A i \in 1..n : a[i] = s[i][1] BY <4>1
      <4>6. f[n + 1] = c /\ b[1] = s[n + 1][1] BY <4>2
      <4> HIDE DEF a, b, full
      <4>7. /\ c \in Seq(S) /\ Len(a) \in Nat /\ Len(b) \in Nat /\ Len(c) = Len(a) + Len(b)
            /\ \A m \in 1..Len(a) : m \in 1..Len(c) /\ c[m] = a[m]
            /\ \A m \in 1..Len(b) : Len(a) + m \in 1..Len(c) /\ c[Len(a) + m] = b[m]
        BY <4>3, Concatenation
      <4> HIDE DEF c
      <4>8. Len(c) <= n + 1 BY <4>3, <4>7
      <4>9. ASSUME full, NEW i \in 1..(n + 1) PROVE c[i] = s[i][1]
        <5>1. Len(b) = 1 /\ Len(a) = n /\ \A m \in 1..n : a[m] = s[m][1] BY <4>4, <4>5, <4>9, Zenon
        <5>2. CASE i = n + 1
          <6>1. 1 \in 1..Len(b) /\ Len(a) + 1 = i BY <5>1, <5>2
          <6>2. c[Len(a) + 1] = b[1] BY <4>7, <6>1
          <6> QED BY <4>6, <5>2, <6>1, <6>2
        <5>3. CASE i # n + 1
          <6>1. i \in 1..n /\ i \in 1..Len(a) BY <5>1, <5>3
          <6> QED BY <4>7, <5>1, <6>1
        <5> QED BY <5>2, <5>3
      <4>10. full => Len(c) = n + 1 BY <4>4, <4>5, <4>7
      <4> QED BY <4>6, <4>7, <4>8, <4>9, <4>10
    <3> QED BY <3>1, <3>2
  <2> HIDE DEF Holds
  <2>3. T \in SUBSET Nat /\ 0 \in T /\ \A n \in Nat : n \in T => n + 1 \in T BY <2>2
  <2>4. Nat \subseteq T BY <2>3, Induction
  <2>5. Holds(Len(s)) BY <1>1, <1>3, <2>4
  <2> DEFINE F == FlattenSeq(s)
  <2>6. F = f[Len(s)] BY <2>1
  <2> HIDE DEF F, full
  <2>7. Len(F) <= Len(s) /\ (full => Len(F) = Len(s) /\ \A i \in 1..Len(s) : F[i] = s[i][1])
    BY <2>5, <2>6 DEF Holds
  <2> QED BY <2>7 DEF F, full
<1> QED BY <1>2, <1>3

\* Kept() leaves out what is not in S, and nothing else.
LEMMA KeptOf ==
  ASSUME NEW E, NEW s \in Seq(E), NEW S
  PROVE  /\ Kept(s, S) \in Seq(Range(s) \cap S) /\ Len(Kept(s, S)) <= Len(s)
         /\ \A i \in 1..Len(s) : s[i] \in S => \E m \in 1..Len(Kept(s, S)) : Kept(s, S)[m] = s[i]
         /\ IsInjective(s) => IsInjective(Kept(s, S))
         /\ (\A i \in 1..Len(s) : s[i] \in S) => Kept(s, S) = s
<1> DEFINE U == Range(s) \cap S
           SU == Seq(U)
           n == Len(s)
           g == [i \in DOMAIN s |-> IF s[i] \in S THEN <<s[i]>> ELSE <<>>]
<1>1. n \in Nat /\ DOMAIN s = 1..n OBVIOUS
<1>2. Kept(s, S) = FlattenSeq(g) BY DEF Kept
<1>3. \A i \in 1..n : s[i] \in S => s[i] \in U BY <1>1 DEF Range
<1> HIDE DEF U
<1>4. \A i \in 1..n : /\ s[i] \in S => g[i] = <<s[i]>> /\ Len(g[i]) = 1 /\ g[i] \in Seq(U)
                      /\ s[i] \notin S => g[i] = <<>> /\ Len(g[i]) = 0 /\ g[i] \in Seq(U)
  BY <1>1, <1>3
<1>5. g \in [1..n -> SU] BY <1>1, <1>4
<1> HIDE DEF g, SU, n
<1>6. g \in Seq(SU) /\ Len(g) = n BY <1>1, <1>5, SequenceOf
<1>7. g \in Seq(Seq(U)) BY <1>6 DEF SU
<1>8. FlattenSeq(g) \in Seq(U) BY <1>7, FlattenSeqOf
<1>9. ASSUME NEW i \in 1..n
      PROVE  Len(g[i]) <= 1 /\ \A a \in 1..Len(g[i]) : a = 1 /\ g[i][a] = s[i]
  <2>1. CASE s[i] \in S
    <3>1. g[i] = <<s[i]>> /\ Len(g[i]) = 1 BY <1>4, <2>1
    <3> QED BY <3>1
  <2>2. CASE s[i] \notin S
    <3>1. Len(g[i]) = 0 BY <1>4, <2>2
    <3> QED BY <3>1
  <2> QED BY <2>1, <2>2
<1>10. Len(FlattenSeq(g)) <= n BY <1>6, <1>7, <1>9, FlattenShort
<1>11. ASSUME NEW i \in 1..n, s[i] \in S PROVE \E m \in 1..Len(FlattenSeq(g)) : FlattenSeq(g)[m] = s[i]
  <2>1. 1 \in 1..Len(g[i]) /\ g[i][1] = s[i] BY <1>4, <1>11
  <2>2. i \in 1..Len(g) BY <1>6
  <2>3. \E m \in 1..Len(FlattenSeq(g)) : FlattenSeq(g)[m] = g[i][1] BY <1>7, <2>1, <2>2, FlattenSeqOf
  <2> QED BY <2>1, <2>3
<1>12. ASSUME IsInjective(s) PROVE IsInjective(FlattenSeq(g))
  <2>1. ASSUME NEW i \in 1..Len(g), NEW j \in 1..Len(g), NEW a \in 1..Len(g[i]), NEW b \in 1..Len(g[j]),
               g[i][a] = g[j][b]
        PROVE  i = j /\ a = b
    <3>1. i \in 1..n /\ j \in 1..n BY <1>6
    <3>2. a = 1 /\ b = 1 /\ s[i] = s[j] BY <1>9, <2>1, <3>1
    <3>3. i = j BY <1>1, <1>12, <3>1, <3>2 DEF IsInjective
    <3> QED BY <3>2, <3>3
  <2> QED BY <1>7, <2>1, FlattenInjective
<1>13. ASSUME \A i \in 1..n : s[i] \in S PROVE FlattenSeq(g) = s
  <2>1. \A i \in 1..Len(g) : Len(g[i]) = 1 BY <1>4, <1>6, <1>13
  <2>2. Len(FlattenSeq(g)) = Len(g) /\ \A i \in 1..Len(g) : FlattenSeq(g)[i] = g[i][1]
    BY <1>7, <1>9, <1>6, <2>1, FlattenShort
  <2>3. \A i \in 1..n : g[i][1] = s[i] BY <1>4, <1>13
  <2> DEFINE F == FlattenSeq(g)
  <2>4. F \in Seq(U) /\ Len(F) = n /\ \A i \in 1..n : F[i] = s[i] BY <1>6, <1>8, <2>2, <2>3
  <2> HIDE DEF F
  <2>5. DOMAIN F = 1..n /\ F = [i \in DOMAIN F |-> F[i]] BY <2>4
  <2>6. s = [i \in DOMAIN s |-> s[i]] OBVIOUS
  <2>7. F = s BY <1>1, <2>4, <2>5, <2>6
  <2> QED BY <2>7 DEF F
<1> QED BY <1>2, <1>8, <1>10, <1>11, <1>12, <1>13 DEF U, n

\* Kept() keeps nothing of what S has nothing of.
LEMMA KeptNone ==
  ASSUME NEW E, NEW s \in Seq(E), NEW S, Range(s) \cap S = {}
  PROVE  Kept(s, S) = <<>>
<1>1. Kept(s, S) \in Seq({}) BY KeptOf
<1> QED BY <1>1

-----------------------------------------------------------------------------
(* Sums, and picking by weight.                                            *)

\* The sums of the first n elements of s.
Partial(s, f) ==
    f \in [0..Len(s) -> Nat] /\ f[0] = 0 /\ \A n \in 1..Len(s) : f[n] = f[n - 1] + s[n]

\* There are partial sums of every sequence.
LEMMA PartialExists ==
  ASSUME NEW s \in Seq(Nat)
  PROVE  \E f : Partial(s, f)
<1> DEFINE P(n, f) == f \in [0..n -> Nat] /\ f[0] = 0 /\ \A k \in 1..n : f[k] = f[k - 1] + s[k]
           E(n) == \E f : P(n, f)
           T == {n \in Nat : n <= Len(s) => E(n)}
<1>1. Len(s) \in Nat /\ \A n \in 1..Len(s) : s[n] \in Nat OBVIOUS
<1>2. E(0)
  <2> DEFINE f == [k \in 0..0 |-> 0]
  <2>1. P(0, f) OBVIOUS
  <2> QED BY <2>1
<1>3. ASSUME NEW n \in Nat, E(n), n + 1 <= Len(s) PROVE E(n + 1)
  <2>1. PICK f : P(n, f) BY <1>3
  <2> DEFINE g == [k \in 0..(n + 1) |-> IF k = n + 1 THEN f[n] + s[n + 1] ELSE f[k]]
  <2>2. s[n + 1] \in Nat BY <1>1, <1>3
  <2>3. \A k \in 0..n : f[k] \in Nat BY <2>1
  <2>4. g \in [0..(n + 1) -> Nat] BY <2>2, <2>3
  <2>5. g[0] = 0 BY <2>1
  <2>6. ASSUME NEW k \in 1..(n + 1) PROVE g[k] = g[k - 1] + s[k]
    <3>1. k - 1 \in 0..(n + 1) /\ k - 1 # n + 1 OBVIOUS
    <3>2. g[k - 1] = f[k - 1] BY <3>1
    <3>3. CASE k = n + 1 BY <3>2, <3>3
    <3>4. CASE k # n + 1
      <4>1. k \in 1..n BY <3>4
      <4>2. g[k] = f[k] BY <3>4
      <4> QED BY <2>1, <3>2, <4>1, <4>2
    <3> QED BY <3>3, <3>4
  <2> HIDE DEF g
  <2>7. P(n + 1, g) BY <2>4, <2>5, <2>6
  <2> QED BY <2>7
<1> HIDE DEF E
<1>4. T \in SUBSET Nat /\ 0 \in T /\ \A n \in Nat : n \in T => n + 1 \in T BY <1>1, <1>2, <1>3
<1>5. Nat \subseteq T BY <1>4, Induction
<1>6. E(Len(s)) BY <1>1, <1>5
<1> QED BY <1>6 DEF E, Partial

\* There is only one, and a prefix has the same.
LEMMA PartialUnique ==
  ASSUME NEW s \in Seq(Nat), NEW f, Partial(s, f), NEW t \in Seq(Nat), NEW g, Partial(t, g),
         Len(t) <= Len(s), \A n \in 1..Len(t) : t[n] = s[n]
  PROVE  \A n \in 0..Len(t) : g[n] = f[n]
<1> DEFINE T == {n \in Nat : n <= Len(t) => g[n] = f[n]}
<1>1. Len(t) \in Nat /\ Len(s) \in Nat OBVIOUS
<1>2. 0 \in T BY DEF Partial
<1>3. ASSUME NEW n \in Nat, n \in T, n + 1 <= Len(t) PROVE g[n + 1] = f[n + 1]
  <2>1. n + 1 \in 1..Len(t) /\ n + 1 \in 1..Len(s) /\ (n + 1) - 1 = n BY <1>1, <1>3
  <2>2. g[n] = f[n] BY <1>1, <1>3
  <2>3. g[n + 1] = g[n] + t[n + 1] BY <2>1 DEF Partial
  <2>4. f[n + 1] = f[n] + s[n + 1] BY <2>1 DEF Partial
  <2>5. t[n + 1] = s[n + 1] BY <2>1
  <2> QED BY <2>2, <2>3, <2>4, <2>5
<1>4. T \in SUBSET Nat /\ \A n \in Nat : n \in T => n + 1 \in T BY <1>3
<1>5. Nat \subseteq T BY <1>2, <1>4, Induction
<1> QED BY <1>1, <1>5

\* The recursive function Total is the last of the partial sums.
LEMMA TotalPartial ==
  ASSUME NEW s \in Seq(Nat)
  PROVE  \E f : Partial(s, f) /\ Total(s) = f[Len(s)]
<1> DEFINE D(f) == f = [n \in 0..Len(s) |-> IF n = 0 THEN 0 ELSE f[n - 1] + s[n]]
           f == CHOOSE f : D(f)
<1>1. Len(s) \in Nat OBVIOUS
<1>2. Total(s) = f[Len(s)] BY DEF Total
<1>3. PICK g : Partial(s, g) BY PartialExists
<1>4. D(g)
  <2> DEFINE h == [n \in 0..Len(s) |-> IF n = 0 THEN 0 ELSE g[n - 1] + s[n]]
  <2>1. g \in [0..Len(s) -> Nat] BY <1>3 DEF Partial
  <2>2. ASSUME NEW n \in 0..Len(s) PROVE g[n] = h[n]
    <3>1. CASE n = 0 BY <1>3, <3>1 DEF Partial
    <3>2. CASE n # 0
      <4>1. n \in 1..Len(s) BY <1>1, <3>2
      <4> QED BY <1>3, <3>2, <4>1 DEF Partial
    <3> QED BY <3>1, <3>2
  <2>3. g = [n \in 0..Len(s) |-> g[n]] BY <2>1
  <2>4. g = h BY <2>2, <2>3
  <2> QED BY <2>4
<1>5. D(f)
  <2> HIDE DEF D
  <2> QED BY <1>4
<1> HIDE DEF f
<1>6. \A n \in 0..Len(s) : f[n] = IF n = 0 THEN 0 ELSE f[n - 1] + s[n] BY <1>5
<1> DEFINE T == {n \in Nat : n <= Len(s) => f[n] = g[n]}
<1>7. 0 \in T
  <2>1. 0 \in 0..Len(s) BY <1>1
  <2> QED BY <1>3, <1>6, <2>1 DEF Partial
<1>8. ASSUME NEW n \in Nat, n \in T, n + 1 <= Len(s) PROVE f[n + 1] = g[n + 1]
  <2>1. n + 1 \in 0..Len(s) /\ n + 1 \in 1..Len(s) /\ n + 1 # 0 /\ (n + 1) - 1 = n BY <1>1, <1>8
  <2>2. f[n] = g[n] BY <1>1, <1>8
  <2>3. f[n + 1] = f[n] + s[n + 1] BY <1>6, <2>1
  <2>4. g[n + 1] = g[n] + s[n + 1] BY <1>3, <2>1 DEF Partial
  <2> QED BY <2>2, <2>3, <2>4
<1>9. T \in SUBSET Nat /\ \A n \in Nat : n \in T => n + 1 \in T BY <1>8
<1>10. Nat \subseteq T BY <1>7, <1>9, Induction
<1>11. f[Len(s)] = g[Len(s)] BY <1>1, <1>10
<1> QED BY <1>2, <1>3, <1>11

\* The sum of a prefix is a partial sum.
LEMMA TotalPrefix ==
  ASSUME NEW s \in Seq(Nat), NEW f, Partial(s, f), NEW a \in 0..Len(s)
  PROVE  Total(SubSeq(s, 1, a)) = f[a]
<1> DEFINE t == SubSeq(s, 1, a)
<1>1. t \in Seq(Nat) /\ Len(t) = a /\ \A n \in 1..a : t[n] = s[n]
  <2>1. Len(s) \in Nat /\ a \in Nat /\ a <= Len(s) OBVIOUS
  <2>2. t = [n \in 1..a |-> s[n]] BY <2>1
  <2>3. \A n \in 1..a : s[n] \in Nat BY <2>1
  <2>4. t \in [1..a -> Nat] BY <2>2, <2>3
  <2> HIDE DEF t
  <2>5. t \in Seq(Nat) /\ Len(t) = a BY <2>1, <2>4, SequenceOf
  <2> QED BY <2>2, <2>5
<1> HIDE DEF t
<1>2. PICK g : Partial(t, g) /\ Total(t) = g[Len(t)] BY <1>1, TotalPartial
<1>3. Len(t) <= Len(s) BY <1>1
<1>4. \A n \in 0..Len(t) : g[n] = f[n] BY <1>1, <1>2, <1>3, PartialUnique
<1>5. Total(t) = f[a] BY <1>1, <1>2, <1>4
<1> QED BY <1>5 DEF t

\* Total of a sequence of numbers is a number.
LEMMA TotalIs ==
  ASSUME NEW s \in Seq(Nat), NEW f, Partial(s, f)
  PROVE  Total(s) = f[Len(s)] /\ Total(s) \in Nat
<1>1. PICK g : Partial(s, g) /\ Total(s) = g[Len(s)] BY TotalPartial
<1>2. Len(s) \in Nat /\ Len(s) <= Len(s) OBVIOUS
<1>3. \A n \in 0..Len(s) : g[n] = f[n] BY <1>1, <1>2, PartialUnique
<1> QED BY <1>1, <1>2, <1>3 DEF Partial

\* Partial sums do not decrease.
LEMMA PartialGrows ==
  ASSUME NEW s \in Seq(Nat), NEW f, Partial(s, f), NEW i \in 0..Len(s), NEW j \in 0..Len(s), i <= j
  PROVE  f[i] <= f[j]
<1> DEFINE G(n) == i + n <= Len(s) => f[i] <= f[i + n]
           T == {n \in Nat : G(n)}
<1>1. Len(s) \in Nat /\ i \in Nat /\ \A n \in 1..Len(s) : s[n] \in Nat OBVIOUS
<1>2. \A n \in 0..Len(s) : f[n] \in Nat BY DEF Partial
<1>3. G(0) BY <1>1, <1>2
<1>4. ASSUME NEW n \in Nat, G(n), i + (n + 1) <= Len(s) PROVE f[i] <= f[i + (n + 1)]
  <2>1. i + n \in 0..Len(s) /\ i + (n + 1) \in 1..Len(s) /\ (i + (n + 1)) - 1 = i + n /\ i + n <= Len(s)
    BY <1>1, <1>4
  <2>2. f[i] <= f[i + n] BY <1>4, <2>1
  <2>3. f[i + (n + 1)] = f[i + n] + s[i + (n + 1)] BY <2>1 DEF Partial
  <2>4. f[i] \in Nat /\ f[i + n] \in Nat /\ s[i + (n + 1)] \in Nat BY <1>1, <1>2, <2>1
  <2> QED BY <2>2, <2>3, <2>4
<1>5. \A n \in Nat : G(n) => G(n + 1) BY <1>4
<1> HIDE DEF G
<1>6. T \in SUBSET Nat /\ 0 \in T /\ \A n \in Nat : n \in T => n + 1 \in T BY <1>3, <1>5
<1>7. j - i \in Nat /\ i + (j - i) = j /\ j <= Len(s) BY <1>1
<1>8. Nat \subseteq T BY <1>6, Induction
<1>9. G(j - i) BY <1>7, <1>8
<1> QED BY <1>7, <1>9 DEF G

\* An element is at most the sum, and all are 0 if the sum is.
LEMMA TotalBounds ==
  ASSUME NEW s \in Seq(Nat)
  PROVE  Total(s) \in Nat /\ \A i \in 1..Len(s) : s[i] <= Total(s)
<1>1. PICK f : Partial(s, f) BY PartialExists
<1>2. Total(s) = f[Len(s)] /\ Total(s) \in Nat BY <1>1, TotalIs
<1>3. ASSUME NEW i \in 1..Len(s) PROVE s[i] <= Total(s)
  <2>1. /\ i \in 0..Len(s) /\ Len(s) \in 0..Len(s) /\ i <= Len(s) /\ i - 1 \in 0..Len(s) /\ s[i] \in Nat
    OBVIOUS
  <2>2. f[i] <= f[Len(s)] BY <1>1, <2>1, PartialGrows
  <2>3. f[i] = f[i - 1] + s[i] /\ f[i - 1] \in Nat BY <1>1, <2>1 DEF Partial
  <2>4. f[i] \in Nat BY <2>1, <2>3
  <2> QED BY <1>2, <2>1, <2>2, <2>3, <2>4
<1> QED BY <1>2, <1>3

\* The largest element is one of them.
LEMMA BiggestOf ==
  ASSUME NEW s \in Seq(Nat), Len(s) # 0
  PROVE  /\ Biggest(s) \in Nat /\ \A i \in 1..Len(s) : s[i] <= Biggest(s)
         /\ \E i \in 1..Len(s) : s[i] = Biggest(s)
<1> DEFINE S == {0} \cup Range(s)
           B == {u \in Nat : \A y \in S : u >= y}
<1>1. Total(s) \in Nat /\ \A i \in 1..Len(s) : s[i] <= Total(s) BY TotalBounds
<1>2. S \in SUBSET Nat /\ Range(s) = {s[i] : i \in 1..Len(s)} BY DEF Range
<1>3. Total(s) \in B BY <1>1, <1>2
<1>4. PICK u \in B : \A v \in B : u <= v
  <2>1. B \in SUBSET Nat /\ B # {} BY <1>3
  <2> HIDE DEF B
  <2> QED BY <2>1, Least
<1>5. u \in S
  <2> SUFFICES ASSUME u \notin S PROVE FALSE OBVIOUS
  <2>1. u # 0 /\ u \in Nat OBVIOUS
  <2>2. u - 1 \in Nat BY <2>1
  <2>3. \A y \in S : u - 1 >= y
    <3> SUFFICES ASSUME NEW y \in S PROVE u - 1 >= y OBVIOUS
    <3>1. y \in Nat /\ u >= y /\ u # y BY <1>2
    <3> QED BY <2>1, <3>1
  <2>4. u - 1 \in B BY <2>2, <2>3
  <2>5. u <= u - 1 BY <1>4, <2>4
  <2> QED BY <2>1, <2>5
<1>6. \A y \in S : u >= y OBVIOUS
<1>7. Biggest(s) = Max(S) BY DEF Biggest
<1>8. Max(S) = CHOOSE x \in S : \A y \in S : x >= y BY DEF Max
<1> HIDE DEF S, B
<1>9. Max(S) \in S /\ \A y \in S : Max(S) >= y BY <1>5, <1>6, <1>8
<1> DEFINE b == Biggest(s)
<1>10. b \in S /\ b \in Nat /\ \A y \in S : b >= y BY <1>2, <1>7, <1>9
<1> HIDE DEF b
<1>11. \A i \in 1..Len(s) : s[i] \in S /\ s[i] \in Nat BY <1>2 DEF S
<1>12. ASSUME NEW i \in 1..Len(s) PROVE s[i] <= b
  <2>1. b >= s[i] BY <1>10, <1>11
  <2> QED BY <1>10, <1>11, <2>1
<1>13. \E i \in 1..Len(s) : s[i] = b
  <2>1. CASE b \in Range(s) BY <1>2, <2>1
  <2>2. CASE b = 0
    <3>1. 1 \in 1..Len(s) OBVIOUS
    <3>2. s[1] \in Nat /\ s[1] <= b BY <1>11, <1>12, <3>1
    <3>3. s[1] = b BY <2>2, <3>2
    <3> QED BY <3>1, <3>3
  <2> QED BY <1>10, <2>1, <2>2 DEF S
<1> QED BY <1>10, <1>12, <1>13 DEF b

\* A random number below the sum of the weights falls on an element that has some.
LEMMA PickOf ==
  ASSUME NEW ws \in Seq(Nat), NEW rand \in get_rand(Total(ws))
  PROVE  Pick(ws, rand) \in 1..Len(ws) /\ ws[Pick(ws, rand)] > 0
<1>1. PICK f : Partial(ws, f) BY PartialExists
<1>2. Total(ws) = f[Len(ws)] /\ Total(ws) \in Nat BY <1>1, TotalIs
<1>3. rand \in Nat /\ rand < f[Len(ws)] BY <1>2 DEF get_rand
<1>4. Len(ws) \in Nat /\ DOMAIN ws = 1..Len(ws) /\ \A n \in 1..Len(ws) : ws[n] \in Nat OBVIOUS
<1>5. /\ \A n \in 0..Len(ws) : f[n] \in Nat
      /\ f[0] = 0 /\ \A n \in 1..Len(ws) : f[n] = f[n - 1] + ws[n]
  BY <1>1 DEF Partial
<1>6. \A n \in 0..Len(ws) : Total(SubSeq(ws, 1, n)) = f[n] BY <1>1, TotalPrefix
<1> DEFINE H(a) == rand < Total(SubSeq(ws, 1, a)) /\ Total(SubSeq(ws, 1, a - 1)) <= rand
           T == {n \in 0..Len(ws) : rand < f[n]}
<1>7. PICK a \in T : \A n \in T : a <= n
  <2>1. T \in SUBSET Nat /\ Len(ws) \in T BY <1>3, <1>4
  <2> HIDE DEF T
  <2> QED BY <2>1, Least
<1>8. a \in 1..Len(ws) /\ a - 1 \in 0..Len(ws) /\ ~(a <= a - 1)
  <2>1. a # 0 BY <1>3, <1>5
  <2> QED BY <1>4, <2>1
<1>9. f[a - 1] <= rand
  <2>1. ~(rand < f[a - 1]) BY <1>7, <1>8
  <2> QED BY <1>3, <1>5, <1>8, <2>1
<1>10. \E n \in DOMAIN ws : H(n)
  <2>1. Total(SubSeq(ws, 1, a)) = f[a] /\ Total(SubSeq(ws, 1, a - 1)) = f[a - 1] BY <1>6, <1>8
  <2>2. H(a) BY <1>7, <1>9, <2>1
  <2> HIDE DEF H
  <2> QED BY <1>4, <1>8, <2>2
<1> DEFINE p == Pick(ws, rand)
<1>11. p = CHOOSE n \in DOMAIN ws : H(n) BY DEF Pick
<1>12. p \in DOMAIN ws /\ H(p)
  <2> HIDE DEF H, p
  <2> QED BY <1>10, <1>11
<1> HIDE DEF p
<1>13. p \in 1..Len(ws) /\ p \in 0..Len(ws) /\ p - 1 \in 0..Len(ws) BY <1>4, <1>12
<1>14. rand < f[p] /\ f[p - 1] <= rand
  <2>1. Total(SubSeq(ws, 1, p)) = f[p] /\ Total(SubSeq(ws, 1, p - 1)) = f[p - 1] BY <1>6, <1>13
  <2> QED BY <1>12, <2>1
<1>15. ws[p] > 0
  <2>1. f[p] = f[p - 1] + ws[p] /\ f[p - 1] \in Nat /\ ws[p] \in Nat BY <1>4, <1>5, <1>13
  <2> QED BY <1>3, <1>14, <2>1
<1> QED BY <1>13, <1>15 DEF p

\* up_thresh of n is at least one of them and at most all.
LEMMA CeilBounds ==
  ASSUME NEW t \in Nat \X Nat, t[1] \in 1..t[2], NEW n \in Nat
  PROVE  Ceil(t, n) <= n /\ (n > 0 => Ceil(t, n) > 0) /\ Ceil(t, n) \in Int
<1> DEFINE a == t[1]
           b == t[2]
           x == (a * n + b) - 1
           q == x \div b
<1>1. a \in Nat /\ b \in Nat /\ 1 <= a /\ a <= b /\ b > 0 OBVIOUS
<1>2. Ceil(t, n) = (a * n + b - 1) \div b BY DEF Ceil
<1> HIDE DEF a, b
<1>3. a * n \in Nat /\ b * n \in Nat BY <1>1
<1>4. a * n <= b * n BY <1>1
<1>5. n > 0 => a * n >= 1 BY <1>1
<1>6. a * n + b - 1 = x BY <1>1, <1>3
<1>7. x \in Nat BY <1>1, <1>3
<1>8. q \in Int /\ b * q <= x /\ x < b * (q + 1) BY <1>1, <1>7
<1> HIDE DEF q, x
<1>9. q <= n
  <2> SUFFICES ASSUME ~(q <= n) PROVE FALSE BY <1>8
  <2>1. q >= n + 1 BY <1>8
  <2>2. b * q >= b * (n + 1) BY <1>1, <1>8, <2>1
  <2>3. b * (n + 1) = b * n + b BY <1>1
  <2>4. x = (a * n + b) - 1 BY DEF x
  <2> QED BY <1>1, <1>3, <1>4, <1>8, <2>2, <2>3, <2>4
<1>10. n > 0 => q > 0
  <2> SUFFICES ASSUME n > 0, ~(q > 0) PROVE FALSE OBVIOUS
  <2>1. q + 1 <= 1 BY <1>8
  <2>2. b * (q + 1) <= b * 1 BY <1>1, <1>8, <2>1
  <2>3. x = (a * n + b) - 1 BY DEF x
  <2> QED BY <1>1, <1>3, <1>5, <1>8, <2>2, <2>3
<1> QED BY <1>2, <1>6, <1>8, <1>9, <1>10 DEF q

-----------------------------------------------------------------------------
(* The addresses a plugin answers with.                                    *)

\* ws has a number for each address of items.
PerAddress(ws, items) ==
    ws \in Seq(Seq(Nat)) /\ Len(ws) = Len(items) /\ \A i \in 1..Len(ws) : Len(ws[i]) = Len(items[i])

\* The sums of the items.
LEMMA SumsOf ==
  ASSUME NEW ws \in Seq(Seq(Nat))
  PROVE  Sums(ws) \in Seq(Nat) /\ Len(Sums(ws)) = Len(ws) /\ \A i \in 1..Len(ws) : Sums(ws)[i] = Total(ws[i])
<1> DEFINE n == Len(ws)
           t == Sums(ws)
<1>1. n \in Nat /\ DOMAIN ws = 1..n /\ \A i \in 1..n : ws[i] \in Seq(Nat) OBVIOUS
<1>2. \A i \in 1..n : Total(ws[i]) \in Nat BY <1>1, TotalBounds
<1>3. t = [i \in 1..n |-> Total(ws[i])] BY <1>1 DEF Sums
<1>4. t \in [1..n -> Nat] BY <1>2, <1>3
<1>5. \A i \in 1..n : t[i] = Total(ws[i]) BY <1>3
<1> HIDE DEF n, t
<1>6. t \in Seq(Nat) /\ Len(t) = n BY <1>1, <1>4, SequenceOf
<1> QED BY <1>5, <1>6 DEF n, t

\* A sum of sums is 0 only if every number is.
LEMMA SumIsZero ==
  ASSUME NEW ws \in Seq(Seq(Nat)), Total(Sums(ws)) = 0
  PROVE  \A i \in 1..Len(ws) : \A a \in 1..Len(ws[i]) : ws[i][a] = 0
<1> SUFFICES ASSUME NEW i \in 1..Len(ws), NEW a \in 1..Len(ws[i]) PROVE ws[i][a] = 0 OBVIOUS
<1>1. ws[i] \in Seq(Nat) OBVIOUS
<1>2. ws[i][a] \in Nat /\ Total(ws[i]) \in Nat /\ ws[i][a] <= Total(ws[i]) BY <1>1, TotalBounds
<1>3. Sums(ws) \in Seq(Nat) /\ Len(Sums(ws)) = Len(ws) /\ Sums(ws)[i] = Total(ws[i]) BY SumsOf
<1>4. Sums(ws)[i] <= Total(Sums(ws)) BY <1>3, TotalBounds
<1> QED BY <1>2, <1>3, <1>4

\* A function of the addresses gives a number for each.
LEMMA PerAddressOf ==
  ASSUME NEW N, NEW set, set.items \in Seq(Seq(Address(N))), NEW ws,
         DOMAIN ws = DOMAIN set.items,
         \A i \in DOMAIN set.items : ws[i] \in [DOMAIN set.items[i] -> Nat],
         ws = [i \in DOMAIN set.items |-> ws[i]]
  PROVE  PerAddress(ws, set.items)
<1> DEFINE n == Len(set.items)
           SN == Seq(Nat)
<1>1. n \in Nat /\ DOMAIN set.items = 1..n /\ \A i \in 1..n : set.items[i] \in Seq(Address(N)) OBVIOUS
<1>2. ASSUME NEW i \in 1..n PROVE ws[i] \in SN /\ Len(ws[i]) = Len(set.items[i])
  <2> DEFINE w == ws[i]
             k == Len(set.items[i])
  <2>1. k \in Nat /\ DOMAIN set.items[i] = 1..k BY <1>1
  <2>2. w \in [1..k -> Nat] BY <1>1, <2>1
  <2> HIDE DEF w, k
  <2>3. w \in Seq(Nat) /\ Len(w) = k BY <2>1, <2>2, SequenceOf
  <2> QED BY <2>3 DEF w, k
<1> HIDE DEF SN
<1>3. ws \in [1..n -> SN] BY <1>1, <1>2
<1> HIDE DEF n
<1>4. ws \in Seq(SN) /\ Len(ws) = n BY <1>1, <1>3, SequenceOf
<1> QED BY <1>2, <1>4 DEF n, SN, PerAddress

\* Weights: an address seen DOWN has none, unless all are.
LEMMA WeightsOf ==
  ASSUME NEW N, NEW set, set.items \in Seq(Seq(Address(N))), NEW fam, config_addrset(set, fam), NEW seen,
         NEW ws, ws = Weights(set, seen)
  PROVE  /\ PerAddress(ws, set.items)
         /\ (\A b \in NamesOf(set) : seen[b] # DOWN) => ws = Configured(set)
         /\ \A i \in 1..Len(ws) : \A a \in 1..Len(ws[i]) :
              ws[i][a] > 0 /\ seen[set.items[i][a].addr] = DOWN => \A b \in NamesOf(set) : seen[b] = DOWN
<1> DEFINE items == set.items
           cf == Configured(set)
           dyn == [i \in DOMAIN items |-> [a \in DOMAIN items[i] |->
                     IF seen[items[i][a].addr] # DOWN THEN items[i][a].weight ELSE 0]]
<1>1. Len(items) \in Nat /\ DOMAIN items = 1..Len(items)
  OBVIOUS
<1>2. \A i \in 1..Len(items) : items[i] \in Seq(Address(N)) /\ DOMAIN items[i] = 1..Len(items[i])
  OBVIOUS
<1>3. \A i \in 1..Len(items) : \A a \in 1..Len(items[i]) :
         items[i][a].weight \in Nat /\ items[i][a].weight > 0
  <2> SUFFICES ASSUME NEW i \in 1..Len(items), NEW a \in 1..Len(items[i])
               PROVE  items[i][a].weight \in Nat /\ items[i][a].weight > 0
    OBVIOUS
  <2>1. config_item_addr_groups(items[i], fam, Len(items[1][1].words)) BY <1>1 DEF config_addrset
  <2>2. config_item_addrs(items[i][a], fam, Len(items[1][1].words))
    BY <1>2, <2>1 DEF config_item_addr_groups
  <2>3. items[i][a].weight \in 1..MAX_WEIGHT BY <2>2 DEF config_item_addrs
  <2> QED BY <2>3, ResolversAssumption
<1>4. ws = IF Total(Sums(dyn)) = 0 THEN cf ELSE dyn BY DEF Weights
<1>5. /\ DOMAIN cf = DOMAIN items /\ cf = [i \in DOMAIN items |-> cf[i]]
      /\ \A i \in DOMAIN items : cf[i] \in [DOMAIN items[i] -> Nat]
  BY <1>1, <1>2, <1>3 DEF Configured
<1>6. /\ DOMAIN dyn = DOMAIN items /\ dyn = [i \in DOMAIN items |-> dyn[i]]
      /\ \A i \in DOMAIN items : dyn[i] \in [DOMAIN items[i] -> Nat]
  BY <1>1, <1>2, <1>3
<1>7. /\ cf \in Seq(Seq(Nat)) /\ Len(cf) = Len(items)
      /\ \A i \in 1..Len(cf) : Len(cf[i]) = Len(items[i])
  <2> HIDE DEF cf
  <2>1. PerAddress(cf, set.items) BY <1>5, PerAddressOf
  <2> QED BY <2>1 DEF PerAddress
<1>8. /\ dyn \in Seq(Seq(Nat)) /\ Len(dyn) = Len(items)
      /\ \A i \in 1..Len(dyn) : Len(dyn[i]) = Len(items[i])
  <2> HIDE DEF dyn
  <2>1. PerAddress(dyn, set.items) BY <1>6, PerAddressOf
  <2> QED BY <2>1 DEF PerAddress
<1>9. /\ ws \in Seq(Seq(Nat)) /\ Len(ws) = Len(items)
      /\ \A i \in 1..Len(ws) : Len(ws[i]) = Len(items[i])
  <2> HIDE DEF cf, dyn
  <2>1. CASE Total(Sums(dyn)) = 0
    <3>1. ws = cf BY <1>4, <2>1
    <3> QED BY <1>7, <3>1
  <2>2. CASE Total(Sums(dyn)) # 0
    <3>1. ws = dyn BY <1>4, <2>2
    <3> QED BY <1>8, <3>1
  <2> QED BY <2>1, <2>2
<1>10. \A i \in 1..Len(items) : \A a \in 1..Len(items[i]) :
          dyn[i][a] = IF seen[items[i][a].addr] # DOWN THEN items[i][a].weight ELSE 0
  BY <1>1, <1>2
<1>11. \A i \in 1..Len(items) : \A a \in 1..Len(items[i]) : items[i][a].addr \in NamesOf(set)
  BY SetOf
<1>12. ASSUME \A b \in NamesOf(set) : seen[b] # DOWN PROVE ws = cf
  <2>1. \A i \in DOMAIN items : \A a \in DOMAIN items[i] : seen[items[i][a].addr] # DOWN
    BY <1>1, <1>2, <1>11, <1>12
  <2>2. \A i \in DOMAIN items : dyn[i] = [a \in DOMAIN items[i] |-> items[i][a].weight] BY <2>1
  <2>3. dyn = cf
    <3>1. \A i \in DOMAIN items : dyn[i] = cf[i] BY <2>2 DEF Configured
    <3> HIDE DEF dyn, cf
    <3> QED BY <1>5, <1>6, <3>1
  <2> HIDE DEF cf, dyn
  <2> QED BY <1>4, <2>3
<1> HIDE DEF dyn, cf
<1>13. ASSUME NEW i \in 1..Len(ws), NEW a \in 1..Len(ws[i]), ws[i][a] > 0, seen[items[i][a].addr] = DOWN,
              NEW b \in NamesOf(set)
       PROVE  seen[b] = DOWN
  <2>1. i \in 1..Len(items) /\ a \in 1..Len(items[i]) BY <1>9
  <2>2. dyn[i][a] = 0 BY <1>10, <1>13, <2>1
  <2>3. Total(Sums(dyn)) = 0
    <3> SUFFICES ASSUME Total(Sums(dyn)) # 0 PROVE FALSE OBVIOUS
    <3>1. ws = dyn BY <1>4
    <3> QED BY <1>13, <2>2, <3>1
  <2>4. PICK j \in 1..Len(items) : \E c \in 1..Len(items[j]) : b = items[j][c].addr
    <3>1. \E j \in 1..Len(set.items) : \E c \in 1..Len(set.items[j]) : b = set.items[j][c].addr BY NamesFrom
    <3> QED BY <3>1
  <2>5. PICK c \in 1..Len(items[j]) : b = items[j][c].addr BY <2>4
  <2>6. j \in 1..Len(dyn) /\ c \in 1..Len(dyn[j]) BY <1>8
  <2>7. dyn[j][c] = 0 BY <1>8, <2>3, <2>6, SumIsZero
  <2>8. items[j][c].weight \in Nat /\ items[j][c].weight > 0 BY <1>3
  <2> QED BY <1>10, <2>5, <2>7, <2>8
<1>14. PerAddress(ws, set.items) BY <1>9 DEF PerAddress
<1> QED BY <1>12, <1>13, <1>14 DEF cf

\* What a choice of addresses by weight ws has to be.
Choice(set, ws, s) ==
    /\ s \in Seq(NamesOf(set)) /\ (Distinct(set) => IsInjective(s)) /\ Len(s) \in 1..MAX_ITEMS
    /\ \A k \in 1..Len(s) : \E i \in 1..Len(ws) : \E a \in 1..Len(ws[i]) :
         s[k] = set.items[i][a].addr /\ ws[i][a] > 0

\* Items are chosen each on its own, one address of an item.
LEMMA MultiPicksOf ==
  ASSUME NEW N, NEW set, set.items \in Seq(Seq(Address(N))), NEW fam, config_addrset(set, fam),
         NEW ws, PerAddress(ws, set.items), NEW s \in MultiPicks(set, ws)
  PROVE  Choice(set, ws, s)
<1> DEFINE items == set.items
           n == Len(ws)
           odds == ItemOdds(ws)
           Names == NamesOf(set)
           SS == Seq(Names)
<1>0. ws \in Seq(Seq(Nat)) /\ Len(ws) = Len(set.items) /\ \A i \in 1..Len(ws) : Len(ws[i]) = Len(set.items[i])
  BY DEF PerAddress
<1>1. n \in Nat /\ n = Len(items) /\ n \in 1..MAX_ITEMS /\ DOMAIN ws = 1..n /\ DOMAIN items = 1..n
  BY <1>0 DEF config_addrset
<1>2. PICK p : /\ s = FlattenSeq(p) /\ \E U : p \in [DOMAIN ws -> U]
               /\ \A i \in DOMAIN ws : p[i] \in ItemPicks(items[i], ws[i], odds)
  <2> DEFINE picks == [i \in DOMAIN ws |-> ItemPicks(items[i], ws[i], odds)]
  <2>1. PICK p \in {f \in [DOMAIN ws -> UNION Range(picks)] : \A i \in DOMAIN ws : f[i] \in picks[i]} :
          s = FlattenSeq(p)
    BY Zenon DEF MultiPicks
  <2>2. \A i \in DOMAIN ws : picks[i] = ItemPicks(items[i], ws[i], odds) OBVIOUS
  <2> HIDE DEF picks
  <2> QED BY <2>1, <2>2
<1>3. Sums(ws) \in Seq(Nat) /\ Len(Sums(ws)) = n /\ \A i \in 1..n : Sums(ws)[i] = Total(ws[i]) BY <1>0, SumsOf
<1>4. \A i \in 1..n : ws[i] \in Seq(Nat) /\ items[i] \in Seq(Address(N)) /\ DOMAIN items[i] = 1..Len(ws[i])
  BY <1>0, <1>1
<1>5. \A i \in 1..n : \A a \in 1..Len(ws[i]) : items[i][a].addr \in Names
  BY <1>0, <1>1, SetOf
<1>6. ASSUME NEW i \in 1..n
      PROVE  \/ p[i] = <<>> /\ \E k \in get_rand(odds) : k >= Total(ws[i])
             \/ \E a \in 1..Len(ws[i]) : ws[i][a] > 0 /\ p[i] = <<items[i][a].addr>>
  <2> DEFINE w == ws[i]
  <2>1. p[i] \in ItemPicks(items[i], w, odds) BY <1>1, <1>2
  <2>2. w \in Seq(Nat) BY <1>4
  <2> HIDE DEF w, odds
  <2>3. CASE p[i] \in {<<items[i][Pick(w, rand)].addr>> : rand \in get_rand(Total(w))}
    <3>1. PICK rand \in get_rand(Total(w)) : p[i] = <<items[i][Pick(w, rand)].addr>> BY <2>3
    <3>2. Pick(w, rand) \in 1..Len(w) /\ w[Pick(w, rand)] > 0 BY <2>2, PickOf
    <3> QED BY <3>1, <3>2 DEF w
  <2>4. CASE p[i] \in {<<>> : rand \in {k \in get_rand(odds) : k >= Total(w)}}
    BY <2>4 DEF w
  <2> QED BY <2>1, <2>3, <2>4 DEF ItemPicks
<1>7. ASSUME NEW i \in 1..n
      PROVE  p[i] \in SS /\ Len(p[i]) <= 1 /\ \A k \in 1..Len(p[i]) :
                k = 1 /\ \E a \in 1..Len(ws[i]) : ws[i][a] > 0 /\ p[i][k] = items[i][a].addr
  <2>1. CASE p[i] = <<>> BY <2>1
  <2>2. ASSUME NEW a \in 1..Len(ws[i]), ws[i][a] > 0, p[i] = <<items[i][a].addr>>
        PROVE  p[i] \in SS /\ Len(p[i]) <= 1 /\ \A k \in 1..Len(p[i]) :
                  k = 1 /\ \E b \in 1..Len(ws[i]) : ws[i][b] > 0 /\ p[i][k] = items[i][b].addr
    <3>1. items[i][a].addr \in Names BY <1>5
    <3> DEFINE m == items[i][a].addr
    <3>2. p[i] = <<m>> /\ m \in Names BY <2>2, <3>1
    <3> HIDE DEF m, Names
    <3>3. p[i] \in Seq(Names) /\ Len(p[i]) = 1 /\ p[i][1] = m BY <3>2
    <3>4. \A k \in 1..Len(p[i]) : k = 1 BY <3>3
    <3> QED BY <2>2, <3>3, <3>4 DEF m
  <2> QED BY <1>6, <2>1, <2>2
<1> HIDE DEF SS, Names
<1>8. p \in [1..n -> SS]
  <2>1. PICK U : p \in [1..n -> U] BY <1>1, <1>2
  <2> QED BY <1>7, <2>1
<1> HIDE DEF n
<1>9. p \in Seq(SS) /\ Len(p) = n BY <1>1, <1>8, SequenceOf
<1>10. p \in Seq(Seq(Names)) BY <1>9 DEF SS
<1>11. s \in Seq(Names) BY <1>2, <1>10, FlattenSeqOf
<1>12. Len(s) <= n
  <2>1. \A i \in 1..Len(p) : Len(p[i]) <= 1 BY <1>7, <1>9
  <2> QED BY <1>2, <1>9, <1>10, <2>1, FlattenShort
<1>13. ASSUME Distinct(set) PROVE IsInjective(s)
  <2>1. ASSUME NEW i \in 1..Len(p), NEW j \in 1..Len(p), NEW k \in 1..Len(p[i]), NEW m \in 1..Len(p[j]),
               p[i][k] = p[j][m]
        PROVE  i = j /\ k = m
    <3>1. i \in 1..n /\ j \in 1..n BY <1>9
    <3>2. k = 1 /\ m = 1 BY <1>7, <3>1
    <3>3. PICK a \in 1..Len(ws[i]) : p[i][k] = items[i][a].addr BY <1>7, <3>1
    <3>4. PICK b \in 1..Len(ws[j]) : p[j][m] = items[j][b].addr BY <1>7, <3>1
    <3>5. i \in DOMAIN items /\ j \in DOMAIN items /\ a \in DOMAIN items[i] /\ b \in DOMAIN items[j]
      BY <1>1, <1>4, <3>1
    <3>6. items[i][a].addr = items[j][b].addr BY <2>1, <3>3, <3>4
    <3>7. i = j BY <1>13, <3>5, <3>6 DEF Distinct
    <3> QED BY <3>2, <3>7
  <2> QED BY <1>2, <1>10, <2>1, FlattenInjective
<1>14. Len(s) # 0
  <2>1. Len(Sums(ws)) # 0 BY <1>1, <1>3
  <2>2. PICK i \in 1..n : Sums(ws)[i] = Biggest(Sums(ws)) /\ Biggest(Sums(ws)) \in Nat
    BY <1>3, <2>1, BiggestOf
  <2>3. odds = Total(ws[i]) /\ odds \in Nat BY <1>3, <2>2 DEF ItemOdds
  <2>4. ~\E k \in get_rand(odds) : k >= Total(ws[i])
    <3> HIDE DEF odds
    <3>1. \A k \in 0..(odds - 1) : ~(k >= odds) BY <2>3
    <3> QED BY <2>3, <3>1 DEF get_rand
  <2>5. PICK a \in 1..Len(ws[i]) : p[i] = <<items[i][a].addr>> BY <1>6, <2>4
  <2>6. 1 \in 1..Len(p[i]) /\ i \in 1..Len(p) BY <1>9, <2>5
  <2>7. \E m \in 1..Len(FlattenSeq(p)) : FlattenSeq(p)[m] = p[i][1] BY <1>10, <2>6, FlattenSeqOf
  <2> QED BY <1>2, <1>11, <2>7
<1>15. ASSUME NEW k \in 1..Len(s)
       PROVE  \E i \in 1..n : \E a \in 1..Len(ws[i]) : s[k] = items[i][a].addr /\ ws[i][a] > 0
  <2>1. PICK i \in 1..Len(p) : \E j \in 1..Len(p[i]) : s[k] = p[i][j] BY <1>2, <1>10, FlattenSeqFrom
  <2>2. i \in 1..n BY <1>9
  <2> QED BY <1>7, <2>1, <2>2
<1>16. Len(s) \in 1..MAX_ITEMS BY <1>1, <1>11, <1>12, <1>14, ResolversAssumption
<1> QED BY <1>11, <1>13, <1>15, <1>16 DEF Choice, n, Names

\* The addresses of one item are chosen each on its own, one of them at least.
LEMMA AddrPicksOf ==
  ASSUME NEW item, NEW w \in Seq(Nat), Len(w) # 0, NEW s \in AddrPicks(item, w)
  PROVE  \E c : /\ c \in Seq(1..Len(w)) /\ IsInjective(c) /\ Len(c) \in 1..Len(w)
                /\ \A k \in 1..Len(c) : w[c[k]] > 0
                /\ s = [k \in 1..Len(c) |-> item[c[k]].addr]
<1> DEFINE n == Len(w)
           id == [a \in DOMAIN w |-> a]
           Low(rand) == {a \in DOMAIN w : rand[a] < w[a]}
<1>1. n \in Nat /\ DOMAIN w = 1..n /\ \A a \in 1..n : w[a] \in Nat OBVIOUS
<1>2. PICK rand \in [DOMAIN w -> get_rand(Biggest(w))] :
        s = LET chosen == Kept(id, Low(rand)) IN [k \in DOMAIN chosen |-> item[chosen[k]].addr]
  BY Zenon DEF AddrPicks
<1> DEFINE I == 1..n
           S == Low(rand)
           c == Kept(id, S)
<1>3. id \in [1..n -> I] /\ \A a \in 1..n : id[a] = a BY <1>1
<1>4. IsInjective(id) BY DEF IsInjective
<1>5. s = [k \in DOMAIN c |-> item[c[k]].addr] BY <1>2
<1>6. S \subseteq I BY <1>1
<1>7. \A a \in S : w[a] > 0
  <2>1. \A a \in 1..n : rand[a] \in get_rand(Biggest(w)) BY <1>1
  <2>2. \A a \in get_rand(Biggest(w)) : a \in Int /\ 0 <= a
    <3>1. Biggest(w) \in Nat BY BiggestOf
    <3> QED BY <3>1 DEF get_rand
  <2> QED BY <1>1, <2>1, <2>2
<1>8. \E a \in 1..n : a \in S
  <2>1. PICK a \in 1..n : w[a] = Biggest(w) /\ Biggest(w) \in Nat BY BiggestOf
  <2>2. rand[a] \in get_rand(Biggest(w)) BY <1>1
  <2>3. rand[a] < w[a] BY <2>1, <2>2 DEF get_rand
  <2> QED BY <1>1, <2>3
<1> HIDE DEF id, S, I
<1>9. id \in Seq(I) /\ Len(id) = n
  <2> HIDE DEF n
  <2> QED BY <1>1, <1>3, SequenceOf
<1>10. /\ c \in Seq(Range(id) \cap S) /\ Len(c) <= n /\ IsInjective(c)
       /\ \A i \in 1..n : id[i] \in S => \E m \in 1..Len(c) : c[m] = id[i]
  BY <1>4, <1>9, KeptOf
<1> HIDE DEF c
<1>11. Len(c) \in Nat /\ DOMAIN c = 1..Len(c) /\ \A k \in 1..Len(c) : c[k] \in S
  <2> DEFINE Q == Range(id) \cap S
  <2>1. c \in Seq(Q) /\ \A q \in Q : q \in S BY <1>10
  <2> HIDE DEF Q
  <2> QED BY <2>1
<1>12. c \in Seq(I)
  <2>1. c \in [1..Len(c) -> I] BY <1>6, <1>10, <1>11
  <2> QED BY <1>11, <2>1, SequenceOf
<1>13. Len(c) # 0
  <2>1. PICK a \in 1..n : a \in S BY <1>8
  <2>2. \E m \in 1..Len(c) : c[m] = a BY <1>3, <1>10, <2>1
  <2> QED BY <1>11, <2>2
<1>14. Len(c) \in 1..n BY <1>1, <1>10, <1>11, <1>13
<1>15. \A k \in 1..Len(c) : w[c[k]] > 0 BY <1>7, <1>11
<1>16. s = [k \in 1..Len(c) |-> item[c[k]].addr] BY <1>5, <1>11
<1>17. c \in Seq(1..Len(w)) BY <1>12 DEF I
<1> QED BY <1>10, <1>14, <1>15, <1>16, <1>17

\* One item is chosen, and of it some addresses.
LEMMA SinglePicksOf ==
  ASSUME NEW N, NEW set, set.items \in Seq(Seq(Address(N))), NEW fam, config_addrset(set, fam),
         NEW ws, PerAddress(ws, set.items), NEW s \in SinglePicks(set, ws)
  PROVE  Choice(set, ws, s)
<1> DEFINE items == set.items
           n == Len(ws)
           Names == NamesOf(set)
<1>0. ws \in Seq(Seq(Nat)) /\ Len(ws) = Len(set.items) /\ \A i \in 1..Len(ws) : Len(ws[i]) = Len(set.items[i])
  BY DEF PerAddress
<1>1. n \in Nat /\ n = Len(items) /\ DOMAIN ws = 1..n /\ DOMAIN items = 1..n BY <1>0
<1>2. Sums(ws) \in Seq(Nat) /\ Len(Sums(ws)) = n BY <1>0, SumsOf
<1>3. PICK i \in 1..n : s \in AddrPicks(items[i], ws[i])
  <2>1. PICK rand \in get_rand(Total(Sums(ws))) :
          s \in AddrPicks(items[Pick(Sums(ws), rand)], ws[Pick(Sums(ws), rand)])
    BY DEF SinglePicks
  <2>2. Pick(Sums(ws), rand) \in 1..n BY <1>2, PickOf
  <2> QED BY <2>1, <2>2
<1>4. ws[i] \in Seq(Nat) /\ items[i] \in Seq(Address(N)) /\ DOMAIN items[i] = 1..Len(ws[i]) BY <1>0, <1>1
<1>5. Len(ws[i]) \in 1..MAX_ITEMS
  <2>1. config_item_addr_groups(items[i], fam, Len(items[1][1].words)) BY <1>1 DEF config_addrset
  <2> QED BY <1>0, <2>1 DEF config_item_addr_groups
<1>6. PICK c : /\ c \in Seq(1..Len(ws[i])) /\ IsInjective(c) /\ Len(c) \in 1..Len(ws[i])
               /\ \A k \in 1..Len(c) : ws[i][c[k]] > 0
               /\ s = [k \in 1..Len(c) |-> items[i][c[k]].addr]
  <2>1. Len(ws[i]) # 0 BY <1>5, ResolversAssumption
  <2> DEFINE w == ws[i]
             item == items[i]
  <2>2. w \in Seq(Nat) /\ Len(w) # 0 /\ s \in AddrPicks(item, w) BY <1>3, <1>4, <2>1
  <2> HIDE DEF w, item
  <2>3. \E c : /\ c \in Seq(1..Len(w)) /\ IsInjective(c) /\ Len(c) \in 1..Len(w)
               /\ \A k \in 1..Len(c) : w[c[k]] > 0
               /\ s = [k \in 1..Len(c) |-> item[c[k]].addr]
    BY <2>2, AddrPicksOf
  <2> QED BY <2>3, Zenon DEF w, item
<1>7. Len(c) \in Nat /\ DOMAIN c = 1..Len(c) /\ \A k \in 1..Len(c) : c[k] \in 1..Len(ws[i])
  <2> DEFINE I == 1..Len(ws[i])
  <2>1. c \in Seq(I) BY <1>6
  <2> HIDE DEF I
  <2>2. Len(c) \in Nat /\ DOMAIN c = 1..Len(c) /\ \A k \in 1..Len(c) : c[k] \in I BY <2>1
  <2> QED BY <2>2 DEF I
<1>8. \A a \in 1..Len(ws[i]) : items[i][a].addr \in Names BY <1>0, <1>1, SetOf
<1> HIDE DEF n, Names
<1>9. s \in [1..Len(c) -> Names] /\ \A k \in 1..Len(c) : s[k] = items[i][c[k]].addr BY <1>6, <1>7, <1>8
<1>10. s \in Seq(Names) /\ Len(s) = Len(c)
  <2> DEFINE l == Len(c)
  <2> HIDE DEF l
  <2>1. l \in Nat /\ s \in [1..l -> Names] BY <1>7, <1>9 DEF l
  <2>2. s \in Seq(Names) /\ Len(s) = l BY <2>1, SequenceOf
  <2> QED BY <2>2 DEF l
<1>11. ASSUME Distinct(set) PROVE IsInjective(s)
  <2>1. DOMAIN s = 1..Len(c) BY <1>9
  <2>2. ASSUME NEW k \in 1..Len(c), NEW m \in 1..Len(c), s[k] = s[m] PROVE k = m
    <3>1. c[k] \in DOMAIN items[i] /\ c[m] \in DOMAIN items[i] /\ i \in DOMAIN items BY <1>1, <1>4, <1>7
    <3>2. items[i][c[k]].addr = items[i][c[m]].addr BY <1>9, <2>2
    <3>3. c[k] = c[m] BY <1>11, <3>1, <3>2 DEF Distinct
    <3> QED BY <1>6, <1>7, <3>3 DEF IsInjective
  <2> QED BY <2>1, <2>2 DEF IsInjective
<1>12. Len(s) \in 1..MAX_ITEMS BY <1>5, <1>6, <1>10, ResolversAssumption
<1>13. \A k \in 1..Len(s) : \E j \in 1..n : \E a \in 1..Len(ws[j]) :
          s[k] = items[j][a].addr /\ ws[j][a] > 0
  BY <1>6, <1>7, <1>9, <1>10
<1> QED BY <1>10, <1>11, <1>12, <1>13 DEF Choice, n, Names

\* What every plugin's result is: some of the addresses of the set, none twice.
\* It fails only if an address is seen DOWN, and if it succeeds it has none that
\* is, except that weighted takes all if all are.
Answer(plugin, set, seen, o) ==
    /\ o.addrs \in Seq(NamesOf(set)) /\ Len(o.addrs) \in 1..MaxAddrs
    /\ Distinct(set) => IsInjective(o.addrs)
    /\ ~o.rv => \E a \in NamesOf(set) : seen[a] = DOWN
    /\ o.rv /\ plugin \in Monitors => \A k \in 1..Len(o.addrs) :
         seen[o.addrs[k]] = DOWN => plugin = "weighted" /\ \A b \in NamesOf(set) : seen[b] = DOWN

\* The result of weighted.
LEMMA weightedAnswer ==
  ASSUME NEW N, NEW set, set.items \in Seq(Seq(Address(N))), NEW fam, config_addrset(set, fam),
         set.thresh \in Nat \X Nat, NEW seen, NEW o \in weighted(set, seen)
  PROVE  Answer("weighted", set, seen, o)
<1> DEFINE ws == Weights(set, seen)
           ok == Total(Sums(ws)) >= Ceil(set.thresh, Total(Sums(Configured(set))))
<1>0. ws = Weights(set, seen) OBVIOUS
<1>1. /\ PerAddress(ws, set.items)
      /\ (\A b \in NamesOf(set) : seen[b] # DOWN) => ws = Configured(set)
      /\ \A i \in 1..Len(ws) : \A a \in 1..Len(ws[i]) :
           ws[i][a] > 0 /\ seen[set.items[i][a].addr] = DOWN => \A b \in NamesOf(set) : seen[b] = DOWN
  <2> HIDE DEF ws
  <2> QED BY <1>0, WeightsOf
<1>2. PICK s \in MultiPicks(set, ws) \cup SinglePicks(set, ws) :
        \E cut : o = [addrs |-> s, rv |-> ok, cut |-> cut]
  BY Zenon DEF weighted
<1> HIDE DEF ws
<1>3. Choice(set, ws, s) BY <1>1, <1>2, MultiPicksOf, SinglePicksOf
<1>4. o.addrs = s /\ (o.rv <=> ok)
  <2> HIDE DEF ok
  <2> QED BY <1>2
<1>5. Len(s) \in 1..MaxAddrs BY <1>3, ResolversAssumption DEF Choice
<1>6. ASSUME ~ok PROVE \E a \in NamesOf(set) : seen[a] = DOWN
  <2> SUFFICES ASSUME \A a \in NamesOf(set) : seen[a] # DOWN PROVE FALSE OBVIOUS
  <2>1. ws = Configured(set) BY <1>1
  <2> DEFINE T == Total(Sums(ws))
             C == Ceil(set.thresh, T)
  <2>2. T \in Nat BY <1>1, SumsOf, TotalBounds DEF PerAddress
  <2>3. set.thresh[1] \in 1..set.thresh[2] BY DEF config_addrset, ThreshOk
  <2>4. ~(T >= C) BY <1>6, <2>1
  <2> HIDE DEF T
  <2>5. C <= T /\ C \in Int BY <2>2, <2>3, CeilBounds
  <2> HIDE DEF C
  <2> QED BY <2>2, <2>4, <2>5
<1>7. ASSUME NEW k \in 1..Len(s), seen[s[k]] = DOWN PROVE \A b \in NamesOf(set) : seen[b] = DOWN
  BY <1>1, <1>3, <1>7 DEF Choice
<1> HIDE DEF ok
<1> QED BY <1>3, <1>4, <1>5, <1>6, <1>7 DEF Answer, Choice

\* The result of simplefo, which is the primary unless that is seen DOWN.
LEMMA simplefoAnswer ==
  ASSUME NEW N, NEW set, set.items \in Seq(Seq(Address(N))), NEW fam, simplefo_config(set, fam),
         NEW seen, NEW o \in simplefo(set, seen)
  PROVE  /\ Answer("simplefo", set, seen, o)
         /\ seen[set.items[1][1].addr] # DOWN => o.addrs = <<set.items[1][1].addr>>
<1> DEFINE pri == set.items[1][1].addr
           sec == set.items[2][1].addr
           A == IF seen[pri] = DOWN /\ seen[sec] # DOWN THEN sec ELSE pri
           B == seen[pri] # DOWN \/ seen[sec] # DOWN
           Names == NamesOf(set)
<1>1. \E C : o = [addrs |-> <<A>>, rv |-> B, cut |-> C] BY Zenon DEF simplefo
<1>2. pri \in Names /\ sec \in Names
  <2>1. 1 \in 1..Len(set.items) /\ 2 \in 1..Len(set.items) /\ 1 \in 1..Len(set.items[1]) /\ 1 \in 1..Len(set.items[2])
    BY DEF simplefo_config
  <2> QED BY <2>1, SetOf
<1> HIDE DEF pri, sec, Names
<1>3. A \in Names /\ (~B => seen[pri] = DOWN) /\ (B => seen[A] # DOWN) /\ (seen[pri] # DOWN => A = pri)
  BY <1>2
<1> HIDE DEF A, B
<1>4. o.addrs = <<A>> /\ (o.rv <=> B) BY <1>1
<1>5. o.addrs \in Seq(Names) /\ Len(o.addrs) = 1 /\ o.addrs[1] = A /\ DOMAIN o.addrs = 1..1 BY <1>3, <1>4
<1>6. \A k \in 1..1 : k = 1 OBVIOUS
<1>7. IsInjective(o.addrs) BY <1>5, <1>6 DEF IsInjective
<1>8. Len(o.addrs) \in 1..MaxAddrs BY <1>5, ResolversAssumption
<1>9. ~o.rv => \E a \in Names : seen[a] = DOWN BY <1>2, <1>3, <1>4
<1>10. o.rv => \A k \in 1..Len(o.addrs) : seen[o.addrs[k]] # DOWN BY <1>3, <1>4, <1>5, <1>6
<1>11. Answer("simplefo", set, seen, o) BY <1>5, <1>7, <1>8, <1>9, <1>10 DEF Answer, Names
<1> QED BY <1>3, <1>4, <1>11 DEF pri

\* A sequence of the first addresses of the items.
LEMMA Firsts ==
  ASSUME NEW N, NEW set, set.items \in Seq(Seq(Address(N))),
         \A i \in 1..Len(set.items) : Len(set.items[i]) = 1,
         NEW all, all = [i \in DOMAIN set.items |-> set.items[i][1].addr]
  PROVE  all \in Seq(NamesOf(set)) /\ Len(all) = Len(set.items) /\ (Distinct(set) => IsInjective(all))
<1> DEFINE n == Len(set.items)
           Names == NamesOf(set)
<1>1. n \in Nat /\ DOMAIN set.items = 1..n OBVIOUS
<1>2. ASSUME NEW i \in 1..n PROVE set.items[i][1].addr \in Names /\ 1 \in DOMAIN set.items[i]
  <2>1. 1 \in 1..Len(set.items[i]) OBVIOUS
  <2>2. set.items[i][1].addr \in NamesOf(set) BY <2>1, SetOf
  <2>3. set.items[i] \in Seq(Address(N)) OBVIOUS
  <2>4. DOMAIN set.items[i] = 1..Len(set.items[i]) BY <2>3
  <2> QED BY <2>1, <2>2, <2>4
<1> HIDE DEF Names
<1>3. all \in [1..n -> Names] /\ \A i \in 1..n : all[i] = set.items[i][1].addr BY <1>1, <1>2
<1>4. ASSUME Distinct(set) PROVE IsInjective(all)
  <2>1. ASSUME NEW i \in 1..n, NEW j \in 1..n, all[i] = all[j] PROVE i = j
    <3>1. set.items[i][1].addr = set.items[j][1].addr BY <1>3, <2>1
    <3>2. i \in DOMAIN set.items /\ j \in DOMAIN set.items /\ 1 \in DOMAIN set.items[i] /\ 1 \in DOMAIN set.items[j]
      BY <1>1, <1>2
    <3> QED BY <1>4, <3>1, <3>2 DEF Distinct
  <2>2. DOMAIN all = 1..n BY <1>3
  <2> QED BY <2>1, <2>2 DEF IsInjective
<1> HIDE DEF n
<1>5. all \in Seq(Names) /\ Len(all) = n BY <1>1, <1>3, SequenceOf
<1> QED BY <1>4, <1>5 DEF n, Names

\* The result of multifo: the addresses not seen DOWN if they reach up_thresh.
LEMMA multifoAnswer ==
  ASSUME NEW N, NEW set, set.items \in Seq(Seq(Address(N))), NEW fam, multifo_config(set, fam),
         set.thresh \in Nat \X Nat, NEW seen, NEW o \in multifo(set, seen)
  PROVE  Answer("multifo", set, seen, o)
<1> DEFINE all == [i \in DOMAIN set.items |-> set.items[i][1].addr]
           S == {a \in Range(all) : seen[a] # DOWN}
           up == Kept(all, S)
           c == Ceil(set.thresh, Len(all))
           met == Len(up) >= c
           A == IF met THEN up ELSE all
           Names == NamesOf(set)
           n == Len(set.items)
<1>1. \E C : o = [addrs |-> A, rv |-> met, cut |-> C] BY Zenon DEF multifo
<1>2. n \in Nat /\ DOMAIN set.items = 1..n /\ n \in 1..MaxAddrs /\ set.thresh[1] \in 1..set.thresh[2]
  BY DEF multifo_config, ThreshOk
<1>3. \A i \in 1..n : Len(set.items[i]) = 1 BY <1>2 DEF multifo_config
<1>4. all \in Seq(Names) /\ Len(all) = n /\ (Distinct(set) => IsInjective(all))
  <2>1. all = [i \in DOMAIN set.items |-> set.items[i][1].addr] OBVIOUS
  <2> HIDE DEF all
  <2> QED BY <1>3, <2>1, Firsts
<1> HIDE DEF all, n
<1>5. c <= n /\ c > 0 /\ c \in Int
  <2>1. n > 0 /\ n \in Nat BY <1>2, ResolversAssumption
  <2> QED BY <1>2, <1>4, <2>1, CeilBounds
<1> HIDE DEF c, Names
<1>6. /\ up \in Seq(Range(all) \cap S) /\ Len(up) <= n /\ (Distinct(set) => IsInjective(up))
      /\ (\A i \in 1..n : all[i] \in S) => up = all
  <2> HIDE DEF S
  <2>1. /\ up \in Seq(Range(all) \cap S) /\ Len(up) <= Len(all)
        /\ IsInjective(all) => IsInjective(up)
        /\ (\A i \in 1..Len(all) : all[i] \in S) => up = all
    BY <1>4, KeptOf
  <2> QED BY <1>4, <2>1
<1>7. Range(all) \subseteq Names /\ \A i \in 1..n : all[i] \in Range(all)
  <2>1. all \in Seq(Names) /\ Len(all) = n BY <1>4
  <2>2. DOMAIN all = 1..n /\ \A i \in 1..n : all[i] \in Names BY <2>1
  <2> QED BY <2>2 DEF Range
<1>8. up \in Seq(Names) /\ \A k \in 1..Len(up) : seen[up[k]] # DOWN
  <2> DEFINE Q == Range(all) \cap S
  <2>1. \A q \in Q : q \in Names /\ seen[q] # DOWN BY <1>7
  <2>2. up \in Seq(Q) BY <1>6
  <2> HIDE DEF Q, up
  <2>3. Len(up) \in Nat /\ up \in [1..Len(up) -> Q] BY <2>2
  <2>4. up \in [1..Len(up) -> Names] BY <2>1, <2>3
  <2>5. up \in Seq(Names) BY <2>3, <2>4, SequenceOf
  <2> QED BY <2>1, <2>3, <2>5
<1>9. Len(up) \in Nat BY <1>8
<1> HIDE DEF up
<1>10. ASSUME ~met PROVE \E a \in Names : seen[a] = DOWN
  <2> SUFFICES ASSUME \A a \in Names : seen[a] # DOWN PROVE FALSE OBVIOUS
  <2>1. \A i \in 1..n : all[i] \in S BY <1>7
  <2>2. up = all BY <1>6, <2>1
  <2> QED BY <1>4, <1>5, <1>10, <2>2
<1>11. A \in Seq(Names) /\ (Distinct(set) => IsInjective(A)) /\ Len(A) \in 1..MaxAddrs
  <2>1. CASE met BY <1>2, <1>5, <1>6, <1>8, <1>9, <2>1, ResolversAssumption
  <2>2. CASE ~met BY <1>2, <1>4, <2>2
  <2> QED BY <2>1, <2>2
<1>12. met => \A k \in 1..Len(A) : seen[A[k]] # DOWN BY <1>8
<1> HIDE DEF met, A
<1>13. o.addrs = A /\ (o.rv <=> met) BY <1>1
<1> QED BY <1>10, <1>11, <1>12, <1>13 DEF Answer, Names

\* The result of static and null, which monitor nothing.
LEMMA fixedAnswer ==
  ASSUME NEW N, NEW set, set.items \in Seq(Seq(Address(N))), Single(set), NEW plugin, plugin \notin Monitors,
         NEW seen, NEW o \in fixed(set)
  PROVE  Answer(plugin, set, seen, o)
<1> DEFINE A == [i \in DOMAIN set.items |-> set.items[i][1].addr]
           m == set.items[1][1].addr
           Names == NamesOf(set)
<1>1. o = [addrs |-> A, rv |-> TRUE, cut |-> FALSE] BY DEF fixed
<1>2. Len(set.items) = 1 /\ DOMAIN set.items = 1..1 /\ Len(set.items[1]) = 1 BY DEF Single
<1>3. m \in Names
  <2>1. 1 \in 1..Len(set.items) /\ 1 \in 1..Len(set.items[1]) BY <1>2
  <2> QED BY <2>1, SetOf
<1>4. \A k \in 1..1 : k = 1 OBVIOUS
<1>5. A \in [1..1 -> Names] /\ DOMAIN A = 1..1 BY <1>2, <1>3, <1>4
<1> HIDE DEF A, Names
<1>6. A \in Seq(Names) /\ Len(A) = 1 BY <1>5, SequenceOf
<1>7. IsInjective(A) BY <1>4, <1>5 DEF IsInjective
<1>8. o.addrs = A /\ o.rv = TRUE BY <1>1
<1>9. Len(A) \in 1..MaxAddrs BY <1>6, ResolversAssumption
<1> QED BY <1>6, <1>7, <1>8, <1>9 DEF Answer, Names

\* The result of any plugin that answers a DYNA.
Resulting(plugin, set, seen, o) ==
    /\ Answer(plugin, set, seen, o)
    /\ plugin = "simplefo" /\ seen[set.items[1][1].addr] # DOWN => o.addrs = <<set.items[1][1].addr>>

LEMMA ResultsAnswer ==
  ASSUME NEW N, Formed(N), NEW x \in Resources, make_resource(x), NEW d \in Answering(x),
         NEW fam \in {"v4", "v6"}, x.dcs[d].plugin # "reflect", x.dcs[d][fam].items # <<>>,
         NEW seen, NEW o \in Results(x.dcs[d].plugin, x.dcs[d][fam], seen)
  PROVE  Resulting(x.dcs[d].plugin, x.dcs[d][fam], seen, o)
<1> DEFINE dc == x.dcs[d]
           plugin == dc.plugin
           set == dc[fam]
<1>1. d \in DOMAIN x.dcs /\ plugin # "cname" BY DEF Answering, AnswersDyna
<1>2. FamilyOk(dc, fam) /\ DcOk(dc) BY <1>1 DEF make_resource, DcOk
<1>3. set.items \in Seq(Seq(Address(N))) /\ plugin \in Plugins BY <1>1, ConfiguredSet
<1>4. set.thresh \in Nat \X Nat BY <1>1 DEF Formed, WellFormed
<1>6. plugin \in {"static", "null"} => Single(set)
  <2>1. plugin = "static" => static_config(dc) BY <1>2 DEF DcOk
  <2>2. plugin = "null" => null_config(dc) BY <1>2 DEF DcOk
  <2>3. CASE plugin = "static" BY <2>1, <2>3 DEF static_config
  <2>4. CASE plugin = "null" BY <2>2, <2>4 DEF null_config
  <2> QED BY <2>3, <2>4
<1>7. set.items # <<>> /\ o \in Results(plugin, set, seen) OBVIOUS
<1>8. /\ plugin = "simplefo" => simplefo_config(set, fam)
      /\ plugin = "multifo" => multifo_config(set, fam)
      /\ plugin = "weighted" => config_addrset(set, fam)
  BY <1>2 DEF FamilyOk
<1> HIDE DEF plugin, set, dc
<1>9. ASSUME plugin = "simplefo" PROVE Resulting(plugin, set, seen, o)
  <2>1. o \in simplefo(set, seen) BY <1>7, <1>9 DEF Results
  <2>2. simplefo_config(set, fam) BY <1>8, <1>9
  <2>3. Answer("simplefo", set, seen, o) /\ (seen[set.items[1][1].addr] # DOWN => o.addrs = <<set.items[1][1].addr>>)
    BY <1>3, <2>1, <2>2, simplefoAnswer
  <2> QED BY <1>9, <2>3 DEF Resulting
<1>10. ASSUME plugin = "multifo" PROVE Resulting(plugin, set, seen, o)
  <2>1. o \in multifo(set, seen) BY <1>7, <1>10 DEF Results
  <2>2. multifo_config(set, fam) BY <1>8, <1>10
  <2>3. Answer("multifo", set, seen, o) BY <1>3, <1>4, <2>1, <2>2, multifoAnswer
  <2> QED BY <1>10, <2>3 DEF Resulting
<1>11. ASSUME plugin = "weighted" PROVE Resulting(plugin, set, seen, o)
  <2>1. o \in weighted(set, seen) BY <1>7, <1>11 DEF Results
  <2>2. config_addrset(set, fam) BY <1>8, <1>11
  <2>3. Answer("weighted", set, seen, o) BY <1>3, <1>4, <2>1, <2>2, weightedAnswer
  <2> QED BY <1>11, <2>3 DEF Resulting
<1>12. ASSUME plugin \in {"static", "null"} PROVE Resulting(plugin, set, seen, o)
  <2>1. o \in fixed(set) BY <1>7, <1>12 DEF Results
  <2>2. plugin \notin Monitors /\ plugin # "simplefo" BY <1>12 DEF Monitors
  <2>3. Answer(plugin, set, seen, o) BY <1>3, <1>6, <1>12, <2>1, <2>2, fixedAnswer
  <2> QED BY <2>2, <2>3 DEF Resulting
<1>13. plugin # "reflect" BY DEF plugin, dc
<1>14. Resulting(plugin, set, seen, o)
  BY <1>1, <1>3, <1>9, <1>10, <1>11, <1>12, <1>13 DEF Plugins, Monitors
<1> QED BY <1>14 DEF plugin, set, dc

\* The addresses of a stanza are of its family.
LEMMA FamilyNames ==
  ASSUME NEW N, Formed(N), NEW x \in Resources, make_resource(x), NEW d \in DOMAIN x.dcs,
         NEW fam \in {"v4", "v6"}, x.dcs[d].plugin \in Monitors \cup {"static", "null"},
         NEW m \in NamesOf(x.dcs[d][fam])
  PROVE  m \in V6 <=> fam = "v6"
<1> DEFINE dc == x.dcs[d]
           plugin == dc.plugin
           set == dc[fam]
<1>1. FamilyOk(dc, fam) /\ DcOk(dc) BY DEF make_resource, DcOk
<1>2. set.items \in Seq(Seq(Address(N))) BY ConfiguredSet
<1>3. PICK i \in 1..Len(set.items) : \E a \in 1..Len(set.items[i]) : m = set.items[i][a].addr
  <2>1. m \in NamesOf(set) OBVIOUS
  <2> HIDE DEF set
  <2>2. \E i \in 1..Len(set.items) : \E a \in 1..Len(set.items[i]) : m = set.items[i][a].addr
    BY ONLY <1>2, <2>1, NamesFrom
  <2> QED BY <2>2
<1>4. PICK a \in 1..Len(set.items[i]) : m = set.items[i][a].addr BY <1>3
<1>5. /\ set.items # <<>> /\ i \in DOMAIN set.items /\ a \in DOMAIN set.items[i]
  BY <1>2
<1>6. /\ plugin = "simplefo" => simplefo_config(set, fam)
      /\ plugin = "multifo" => multifo_config(set, fam)
      /\ plugin = "weighted" => config_addrset(set, fam)
  BY <1>1, <1>5 DEF FamilyOk
<1>7. /\ plugin = "static" => static_config(dc)
      /\ plugin = "null" => null_config(dc)
  BY <1>1 DEF DcOk
<1>8. dc["v4"] = dc.v4 /\ dc["v6"] = dc.v6 OBVIOUS
<1>9. plugin \in Monitors \cup {"static", "null"} OBVIOUS
<1> HIDE DEF plugin
<1>10. CASE plugin = "simplefo"
  <2>1. simplefo_config(set, fam) BY <1>6, <1>10
  <2> HIDE DEF set
  <2>2. Len(set.items) = 2 /\ \A k \in 1..2 : Len(set.items[k]) = 1 BY <2>1 DEF simplefo_config
  <2>3. i \in 1..2 /\ a = 1
    <3>1. i \in 1..2 BY <2>2
    <3>2. Len(set.items[i]) = 1 BY <2>2, <3>1
    <3> QED BY <3>1, <3>2
  <2>4. addr_setup(set.items[i][1], fam, Len(set.items[1][1].words)) BY <2>1, <2>3 DEF simplefo_config
  <2> QED BY <1>4, <2>3, <2>4 DEF addr_setup
<1>11. CASE plugin = "multifo"
  <2>1. multifo_config(set, fam) BY <1>6, <1>11
  <2> HIDE DEF set
  <2>2. Len(set.items[i]) = 1 /\ addr_setup(set.items[i][1], fam, Len(set.items[1][1].words))
    BY <1>5, <2>1 DEF multifo_config
  <2>3. a = 1 BY <2>2
  <2> QED BY <1>4, <2>2, <2>3 DEF addr_setup
<1>12. CASE plugin = "weighted"
  <2>1. config_addrset(set, fam) BY <1>6, <1>12
  <2> HIDE DEF set
  <2>2. config_item_addr_groups(set.items[i], fam, Len(set.items[1][1].words)) BY <1>5, <2>1 DEF config_addrset
  <2>3. config_item_addrs(set.items[i][a], fam, Len(set.items[1][1].words))
    BY <1>5, <2>2 DEF config_item_addr_groups
  <2> QED BY <1>4, <2>3 DEF config_item_addrs, addr_setup
<1>13. CASE plugin = "static"
  <2>1. static_config(dc) BY <1>7, <1>13
  <2>2. fam = "v4" BY <1>5, <1>8, <2>1 DEF static_config
  <2>3. Single(dc.v4) /\ dc.v4.items[1][1].addr \notin V6 BY <1>5, <1>8, <2>1, <2>2 DEF static_config
  <2>4. i = 1 /\ a = 1
    <3>1. Len(set.items) = 1 BY <2>2, <2>3 DEF Single
    <3>2. i = 1 BY <3>1
    <3>3. Len(set.items[i]) = 1 BY <2>2, <2>3, <3>2 DEF Single
    <3> QED BY <3>2, <3>3
  <2> QED BY <1>4, <2>2, <2>3, <2>4
<1>14. CASE plugin = "null"
  <2>1. null_config(dc) BY <1>7, <1>14
  <2>2. Single(set) /\ (set.items[1][1].addr \in V6 <=> fam = "v6") BY <1>8, <2>1 DEF null_config
  <2>3. i = 1 /\ a = 1
    <3> HIDE DEF set
    <3>1. Len(set.items) = 1 BY <2>2 DEF Single
    <3>2. i = 1 BY <3>1
    <3>3. Len(set.items[i]) = 1 BY <2>2, <3>2 DEF Single
    <3> QED BY <3>2, <3>3
  <2> QED BY <1>4, <2>2, <2>3
<1> QED BY <1>9, <1>10, <1>11, <1>12, <1>13, <1>14 DEF Monitors

\* No address set names an address twice; no datacenter list of a DYNC is empty.
Distincts == \A x \in Resources : DistinctAddrs(x)
NamedDyncs == \A x \in Resources : <<>> \notin x.dyncs

\* w is a word of the address a.
Serves(set, a, w) == \E b \in Range(Addrs(set)) : b.addr = a /\ w \in Range(b.words)

\* w is to be read for the address a.
Asks(todo, a, w) == \E m \in 1..Len(todo) : todo[m].addr = a /\ todo[m].word = w

\* What is to be read are words of the addresses they are read for.
Genuine(set, todo) == \A m \in 1..Len(todo) : Serves(set, todo[m].addr, todo[m].word)

\* h gives the states that words have had: a word of the datacenter was DOWN.
Failing(x, h, d) == \E w \in SetWords(x, d) : DOWN \in h[w]

\* The datacenters before the one being tried have failed, and those after it
\* are left; once all have failed it is the first one again.
Turn(x, h, all, list, retry, dc) ==
    LET n == Len(all) - Len(list)
    IN  IF retry THEN dc = all[1] /\ \A k \in 1..Len(all) : Failing(x, h, all[k])
        ELSE /\ n \in 1..Len(all) /\ dc = all[n]
             /\ \A k \in 1..Len(list) : list[k] = all[n + k]
             /\ \A k \in 1..(n - 1) : Failing(x, h, all[k])

Tried(x, h, y) ==
    /\ y.out /\ (~y.rv => Failing(x, h, y.dc))
    /\ Turn(x, h, y.all, y.list, y.retry, y.dc)

\* What has been seen DOWN has been DOWN, and what was DOWN all the time has
\* been seen so or is still to be read.
Sees(plugin, set, h, sec, seen, todo) ==
    /\ Genuine(set, todo)
    /\ \A a \in NamesOf(set) :
         seen[a] = DOWN => \E w \in WordsOf(set) : Serves(set, a, w) /\ DOWN \in h[w]
    /\ Distinct(set) =>
         \A a \in NamesOf(set), w \in WordsOf(set) : Serves(set, a, w) /\ h[w] = {DOWN} =>
           \/ seen[a] = DOWN
           \/ Asks(todo, a, w)
           \/ plugin = "simplefo" /\ ~sec /\ a = set.items[2][1].addr

\* The addresses s of family fam in an answer.
Gives(plugin, set, fam, h, rv, s) ==
    /\ s \in Seq(NamesOf(set)) /\ (Distinct(set) => IsInjective(s))
    /\ \A a \in Range(s) : a \in V6 <=> fam = "v6"
    /\ rv /\ Distinct(set) => \A a \in Range(s), w \in WordsOf(set) : Serves(set, a, w) /\ h[w] = {DOWN} =>
         /\ plugin = "weighted"
         /\ \A b \in NamesOf(set) : \E u \in WordsOf(set) : Serves(set, b, u) /\ DOWN \in h[u]

Noticed(x, h, y) == Sees(x.dcs[y.dc].plugin, x.dcs[y.dc][y.fam], h, y.sec, y.seen, y.todo)
Served(x, h, y, fam) == Gives(x.dcs[y.dc].plugin, x.dcs[y.dc][fam], fam, h, y.rv, y[fam])

Gathering(x, h, y) ==
    /\ Noticed(x, h, y) /\ y.v6 = <<>>
    /\ y.fam = "v4" \/ x.dcs[y.dc].plugin = "reflect" => y.v4 = <<>>
    /\ y.fam = "v6" => Served(x, h, y, "v4")

Gathered(x, h, y) ==
    IF x.dcs[y.dc].plugin = "reflect"
    THEN Range(y.v4) \cup Range(y.v6) \subseteq y.client /\ Range(y.v4) \cup Range(y.v6) # {}
    ELSE Served(x, h, y, "v4") /\ Served(x, h, y, "v6")

\* The answer is of the first datacenter that has not failed, or of the first.
Settled(x, h, y) ==
    \E n \in 1..Len(y.all) :
       /\ y.dc = y.all[n] /\ \A k \in 1..(n - 1) : Failing(x, h, y.all[k])
       /\ y.out => y.rv
       /\ ~y.out => n = 1 /\ \A k \in 1..Len(y.all) : Failing(x, h, y.all[k])

JInv ==
    /\ pc \in {"read", "return"} => Tried(res, was, r)
    /\ pc = "read" => Gathering(res, was, r)
    /\ pc = "return" => Gathered(res, was, r)
    /\ pc = "done" /\ r.dc # 0 /\ r.cname = {} =>
         Lists(res, r) /\ Settled(res, was, r) /\ Gathered(res, was, r)
    /\ pc = "done" /\ r.cname # {} =>
         r.out /\ r.v4 = <<>> /\ r.v6 = <<>> /\ res.dcs[r.dc].plugin # "reflect"

-----------------------------------------------------------------------------
(* Which words are read for which addresses.                               *)

\* w is a word of address b of item i.
Entry(set, i, b, w) ==
    /\ i \in 1..Len(set.items) /\ b \in 1..Len(set.items[i])
    /\ \E k \in 1..Len(set.items[i][b].words) : set.items[i][b].words[k] = w

\* A word of an address is in an entry of the set.
LEMMA ServesFrom ==
  ASSUME NEW N, NEW set, set.items \in Seq(Seq(Address(N))), NEW a, NEW w, Serves(set, a, w)
  PROVE  /\ \E i, b : Entry(set, i, b, w) /\ set.items[i][b].addr = a
         /\ a \in NamesOf(set) /\ w \in WordsOf(set)
<1> DEFINE F == FlattenSeq(set.items)
           items == set.items
<1>1. F \in Seq(Address(N)) BY FlattenSeqOf
<1>2. \A m \in 1..Len(F) : \E i \in 1..Len(items) : \E b \in 1..Len(items[i]) : F[m] = items[i][b]
  BY FlattenSeqFrom
<1>3. Addrs(set) = F BY DEF Addrs
<1> HIDE DEF F
<1>4. DOMAIN F = 1..Len(F) /\ \A m \in 1..Len(F) : F[m] \in Address(N) BY <1>1
<1>5. \A y \in Address(N) : DOMAIN y.words = 1..Len(y.words) BY DEF Address
<1>6. PICK m \in 1..Len(F) : F[m].addr = a /\ w \in Range(F[m].words)
  BY <1>3, <1>4 DEF Serves, Range
<1>7. PICK i \in 1..Len(items) : \E b \in 1..Len(items[i]) : F[m] = items[i][b] BY <1>2
<1>8. PICK b \in 1..Len(items[i]) : F[m] = items[i][b] BY <1>7
<1>9. PICK k \in 1..Len(F[m].words) : F[m].words[k] = w BY <1>4, <1>5, <1>6 DEF Range
<1>10. a \in NamesOf(set) BY <1>3, <1>4, <1>6 DEF NamesOf
<1>11. w \in WordsOf(set) BY <1>3, <1>4, <1>6 DEF WordsOf
<1>12. Entry(set, i, b, w) /\ set.items[i][b].addr = a BY <1>6, <1>8, <1>9 DEF Entry
<1> QED BY <1>10, <1>11, <1>12

\* What is in an entry is a word of its address.
LEMMA ServesBy ==
  ASSUME NEW N, NEW set, set.items \in Seq(Seq(Address(N))), NEW i, NEW b, NEW w, Entry(set, i, b, w)
  PROVE  Serves(set, set.items[i][b].addr, w)
<1> DEFINE F == FlattenSeq(set.items)
           items == set.items
<1>1. /\ F \in Seq(Address(N))
      /\ \A j \in 1..Len(items) : \A c \in 1..Len(items[j]) : \E m \in 1..Len(F) : F[m] = items[j][c]
  BY FlattenSeqOf
<1>2. Addrs(set) = F BY DEF Addrs
<1> HIDE DEF F
<1>3. DOMAIN F = 1..Len(F) /\ \A m \in 1..Len(F) : F[m] \in Address(N) BY <1>1
<1>4. \A y \in Address(N) : DOMAIN y.words = 1..Len(y.words) BY DEF Address
<1>5. i \in 1..Len(items) /\ b \in 1..Len(items[i]) BY DEF Entry
<1>6. PICK k \in 1..Len(items[i][b].words) : items[i][b].words[k] = w BY DEF Entry
<1>7. PICK m \in 1..Len(F) : F[m] = items[i][b] BY <1>1, <1>5
<1>8. w \in Range(F[m].words) BY <1>3, <1>4, <1>6, <1>7 DEF Range
<1>9. F[m] \in Range(F) /\ F[m].addr = items[i][b].addr BY <1>3, <1>7 DEF Range
<1> QED BY <1>2, <1>8, <1>9 DEF Serves

\* The reads of an item are those of the words of its addresses.
LEMMA ReadsAre ==
  ASSUME NEW N, NEW set, set.items \in Seq(Seq(Address(N))), NEW i \in 1..Len(set.items),
         NEW q, q = Reads(set.items[i])
  PROVE  /\ Genuine(set, q)
         /\ \A b, w : Entry(set, i, b, w) => Asks(q, set.items[i][b].addr, w)
<1> DEFINE item == set.items[i]
           P == [addr : N, word : Word]
           SP == Seq(P)
           n == Len(item)
           g == [a \in DOMAIN item |->
                   [k \in DOMAIN item[a].words |-> [addr |-> item[a].addr, word |-> item[a].words[k]]]]
<1>1. item \in Seq(Address(N)) /\ DOMAIN item = 1..n /\ n \in Nat OBVIOUS
<1>2. ASSUME NEW a \in 1..n
      PROVE  /\ g[a] \in SP /\ Len(g[a]) = Len(item[a].words)
             /\ \A k \in 1..Len(item[a].words) :
                   g[a][k].addr = item[a].addr /\ g[a][k].word = item[a].words[k]
  <2>1. item[a] \in Address(N) BY <1>1
  <2>2. item[a].words \in Seq(Word) /\ item[a].addr \in N BY <2>1 DEF Address
  <2> DEFINE w == item[a].words
             l == Len(w)
             h == [k \in 1..l |-> [addr |-> item[a].addr, word |-> w[k]]]
  <2>3. l \in Nat /\ DOMAIN w = 1..l /\ \A k \in 1..l : w[k] \in Word BY <2>2
  <2>4. g[a] = h BY <1>1, <2>3
  <2>5. \A k \in 1..l : h[k] \in P /\ h[k].addr = item[a].addr /\ h[k].word = w[k] BY <2>2, <2>3
  <2>6. h \in [1..l -> P] BY <2>2, <2>3
  <2> HIDE DEF h, l, P
  <2>7. h \in Seq(P) /\ Len(h) = l BY <2>3, <2>6, SequenceOf
  <2> HIDE DEF g
  <2> QED BY <2>4, <2>5, <2>7 DEF l
<1>3. q = FlattenSeq(g) BY DEF Reads
<1> HIDE DEF SP
<1>4. g \in [1..n -> SP] BY <1>1, <1>2
<1> HIDE DEF g, n
<1>5. g \in Seq(SP) /\ Len(g) = n BY <1>1, <1>4, SequenceOf
<1>6. g \in Seq(Seq(P)) BY <1>5 DEF SP
<1>7. ASSUME NEW m \in 1..Len(FlattenSeq(g))
      PROVE  Serves(set, FlattenSeq(g)[m].addr, FlattenSeq(g)[m].word)
  <2>1. PICK a \in 1..Len(g) : \E k \in 1..Len(g[a]) : FlattenSeq(g)[m] = g[a][k] BY <1>6, FlattenSeqFrom
  <2>2. PICK k \in 1..Len(g[a]) : FlattenSeq(g)[m] = g[a][k] BY <2>1
  <2>3. a \in 1..n BY <1>5
  <2>4. k \in 1..Len(item[a].words) BY <1>2, <2>3
  <2>5. FlattenSeq(g)[m].addr = item[a].addr /\ FlattenSeq(g)[m].word = item[a].words[k]
    BY <1>2, <2>2, <2>3, <2>4
  <2>6. Entry(set, i, a, item[a].words[k]) BY <2>3, <2>4 DEF Entry, n
  <2>7. Serves(set, item[a].addr, item[a].words[k]) BY <2>6, ServesBy
  <2> QED BY <2>5, <2>7
<1>8. ASSUME NEW b, NEW w, Entry(set, i, b, w) PROVE Asks(FlattenSeq(g), item[b].addr, w)
  <2>1. b \in 1..n BY <1>8 DEF Entry, n
  <2>2. PICK k \in 1..Len(item[b].words) : item[b].words[k] = w BY <1>8 DEF Entry
  <2>3. b \in 1..Len(g) /\ k \in 1..Len(g[b]) BY <1>2, <1>5, <2>1
  <2>4. PICK m \in 1..Len(FlattenSeq(g)) : FlattenSeq(g)[m] = g[b][k] BY <1>6, <2>3, FlattenSeqOf
  <2>5. g[b][k].addr = item[b].addr /\ g[b][k].word = w BY <1>2, <2>1, <2>2
  <2> QED BY <2>4, <2>5 DEF Asks
<1> DEFINE F == FlattenSeq(g)
<1>9. q = F BY <1>3
<1>10. /\ Genuine(set, F)
       /\ \A b, w : Entry(set, i, b, w) => Asks(F, item[b].addr, w)
  BY <1>7, <1>8 DEF Genuine
<1> HIDE DEF F
<1> QED BY <1>9, <1>10

\* The reads of a set are those of all words of its addresses.
LEMMA AllReadsAre ==
  ASSUME NEW N, NEW set, set.items \in Seq(Seq(Address(N)))
  PROVE  /\ Genuine(set, AllReads(set))
         /\ \A a, w : Serves(set, a, w) => Asks(AllReads(set), a, w)
<1> DEFINE items == set.items
           n == Len(items)
           P == Pairs(set)
           SP == Seq(P)
           g == [i \in DOMAIN items |-> Reads(items[i])]
           F == FlattenSeq(g)
<1>1. n \in Nat /\ DOMAIN items = 1..n OBVIOUS
<1>2. \A i \in 1..n : Reads(items[i]) \in SP BY ReadsOf
<1>3. AllReads(set) = F BY DEF AllReads
<1>4. \A i \in 1..n : g[i] = Reads(items[i]) BY <1>1
<1>5. g \in [1..n -> SP] BY <1>1, <1>2
<1> HIDE DEF g, n, SP, P
<1>6. g \in Seq(SP) /\ Len(g) = n BY <1>1, <1>5, SequenceOf
<1>7. g \in Seq(Seq(P)) BY <1>6 DEF SP
<1>8. ASSUME NEW m \in 1..Len(F) PROVE Serves(set, F[m].addr, F[m].word)
  <2>1. PICK i \in 1..Len(g) : \E j \in 1..Len(g[i]) : F[m] = g[i][j] BY <1>7, FlattenSeqFrom
  <2>2. PICK j \in 1..Len(g[i]) : F[m] = g[i][j] BY <2>1
  <2>3. i \in 1..Len(items) /\ g[i] = Reads(items[i]) BY <1>4, <1>6 DEF n
  <2> DEFINE t == Reads(items[i])
  <2>4. j \in 1..Len(t) /\ F[m] = t[j] BY <2>2, <2>3
  <2>5. t = Reads(set.items[i]) OBVIOUS
  <2> HIDE DEF F, t
  <2>6. Genuine(set, t) BY <2>3, <2>5, ReadsAre
  <2> QED BY <2>4, <2>6 DEF Genuine
<1>9. ASSUME NEW a, NEW w, Serves(set, a, w) PROVE Asks(F, a, w)
  <2>1. PICK i, b : Entry(set, i, b, w) /\ items[i][b].addr = a BY <1>9, ServesFrom
  <2>2. i \in 1..Len(items) /\ Asks(Reads(items[i]), a, w)
    <3>1. i \in 1..Len(set.items) BY <2>1 DEF Entry
    <3> QED BY <2>1, <3>1, ReadsAre
  <2>3. PICK j \in 1..Len(Reads(items[i])) : Reads(items[i])[j].addr = a /\ Reads(items[i])[j].word = w
    BY <2>2 DEF Asks
  <2>4. i \in 1..Len(g) /\ j \in 1..Len(g[i]) /\ g[i][j] = Reads(items[i])[j] BY <1>4, <1>6, <2>2, <2>3 DEF n
  <2>5. \E m \in 1..Len(F) : F[m] = g[i][j] BY <1>7, <2>4, FlattenSeqOf
  <2> HIDE DEF F
  <2> QED BY <2>3, <2>4, <2>5 DEF Asks
<1>10. Genuine(set, F) BY <1>8 DEF Genuine
<1> HIDE DEF F
<1> QED BY <1>3, <1>9, <1>10

\* simplefo: the words of the primary, and those of the secondary.
LEMMA SimplefoReads ==
  ASSUME NEW N, NEW set, set.items \in Seq(Seq(Address(N))), NEW fam, simplefo_config(set, fam),
         NEW q, q = Reads(set.items[1]), NEW t, t = Reads(set.items[2])
  PROVE  /\ Genuine(set, q) /\ Genuine(set, t)
         /\ \A a, w : Serves(set, a, w) => Asks(q, a, w) \/ a = set.items[2][1].addr
         /\ Distinct(set) => \A a, w : Serves(set, a, w) /\ a = set.items[2][1].addr => Asks(t, a, w)
         /\ Distinct(set) => set.items[1][1].addr # set.items[2][1].addr
<1>2. Len(set.items) = 2 /\ \A i \in 1..2 : Len(set.items[i]) = 1 BY DEF simplefo_config
<1>3. 1 \in 1..Len(set.items) /\ 2 \in 1..Len(set.items) /\ \A i \in 1..Len(set.items) : i = 1 \/ i = 2 BY <1>2
<1>4. Genuine(set, q) /\ Genuine(set, t) BY <1>3, ReadsAre
<1>5. ASSUME NEW a, NEW w, Serves(set, a, w)
      PROVE  \/ a = set.items[1][1].addr /\ Asks(q, a, w)
             \/ a = set.items[2][1].addr /\ Asks(t, a, w)
  <2>1. PICK i, b : Entry(set, i, b, w) /\ set.items[i][b].addr = a BY <1>5, ServesFrom
  <2>2. i \in 1..Len(set.items) /\ b \in 1..Len(set.items[i]) BY <2>1 DEF Entry
  <2>3. i = 1 \/ i = 2 BY <1>3, <2>2
  <2>4. Len(set.items[i]) = 1 BY <1>2, <2>3
  <2>5. b = 1 BY <2>2, <2>4
  <2>6. CASE i = 1
    <3>1. Entry(set, 1, 1, w) /\ set.items[1][1].addr = a BY <2>1, <2>5, <2>6
    <3>2. Asks(q, set.items[1][1].addr, w) BY <1>3, <3>1, ReadsAre
    <3> QED BY <3>1, <3>2
  <2>7. CASE i = 2
    <3>1. Entry(set, 2, 1, w) /\ set.items[2][1].addr = a BY <2>1, <2>5, <2>7
    <3>2. Asks(t, set.items[2][1].addr, w) BY <1>3, <3>1, ReadsAre
    <3> QED BY <3>1, <3>2
  <2> QED BY <2>3, <2>6, <2>7
<1>6. ASSUME Distinct(set) PROVE set.items[1][1].addr # set.items[2][1].addr
  <2>1. 1 \in DOMAIN set.items /\ 2 \in DOMAIN set.items BY <1>2
  <2>2. set.items[1] \in Seq(Address(N)) /\ set.items[2] \in Seq(Address(N)) BY <1>3
  <2>3. 1 \in DOMAIN set.items[1] /\ 1 \in DOMAIN set.items[2] BY <1>2, <2>2
  <2>4. 1 # 2 OBVIOUS
  <2> QED BY <1>6, <2>1, <2>3, <2>4 DEF Distinct
<1>7. \A a, w : Serves(set, a, w) => Asks(q, a, w) \/ a = set.items[2][1].addr BY <1>5
<1>8. Distinct(set) => \A a, w : Serves(set, a, w) /\ a = set.items[2][1].addr => Asks(t, a, w)
  BY <1>5, <1>6
<1> QED BY <1>4, <1>6, <1>7, <1>8

-----------------------------------------------------------------------------
(* The states that are seen, for one address set.                          *)

\* What a plugin looks at first.
LEMMA SeesStart ==
  ASSUME NEW N, NEW set, set.items \in Seq(Seq(Address(N))), NEW fam, NEW plugin, NEW h,
         plugin = "simplefo" => simplefo_config(set, fam),
         NEW sec, ~sec, NEW seen, seen = [a \in NamesOf(set) |-> UP], NEW todo, todo = FirstReads(plugin, set)
  PROVE  Sees(plugin, set, h, sec, seen, todo)
<1>1. Genuine(set, todo) /\ \A a, w : Serves(set, a, w) =>
        Asks(todo, a, w) \/ (plugin = "simplefo" /\ a = set.items[2][1].addr)
  <2>1. CASE plugin = "simplefo"
    <3>1. todo = Reads(set.items[1]) /\ simplefo_config(set, fam) BY <2>1 DEF FirstReads
    <3>2. Genuine(set, todo) /\ \A a, w : Serves(set, a, w) => Asks(todo, a, w) \/ a = set.items[2][1].addr
      BY <3>1, SimplefoReads
    <3> QED BY <2>1, <3>2
  <2>2. CASE plugin # "simplefo"
    <3>1. todo = AllReads(set) BY <2>2 DEF FirstReads
    <3>2. Genuine(set, todo) /\ \A a, w : Serves(set, a, w) => Asks(todo, a, w)
      BY <3>1, AllReadsAre
    <3> QED BY <3>2
  <2> QED BY <2>1, <2>2
<1>2. \A a \in NamesOf(set) : seen[a] # DOWN BY DEF UP, DOWN
<1> QED BY <1>1, <1>2 DEF Sees

\* simplefo goes on to the secondary.
LEMMA SeesSecondary ==
  ASSUME NEW N, NEW set, set.items \in Seq(Seq(Address(N))), NEW fam, simplefo_config(set, fam),
         NEW h, NEW sec, NEW seen, Sees("simplefo", set, h, sec, seen, <<>>),
         NEW todo, todo = Reads(set.items[2])
  PROVE  Sees("simplefo", set, h, TRUE, seen, todo)
<1>1. /\ Genuine(set, todo)
      /\ Distinct(set) => \A a, w : Serves(set, a, w) /\ a = set.items[2][1].addr => Asks(todo, a, w)
  BY SimplefoReads
<1>2. \A a, w : ~Asks(<<>>, a, w) BY DEF Asks
<1> QED BY <1>1, <1>2 DEF Sees

\* One state is read: s, of the word that is next.
LEMMA SeesRead ==
  ASSUME NEW plugin, NEW set, NEW h, NEW sec, NEW todo \in Seq(Pairs(set)), todo # <<>>,
         NEW seen \in [NamesOf(set) -> States], Sees(plugin, set, h, sec, seen, todo),
         NEW s \in States, s \in h[Head(todo).word],
         NEW next, next = [seen EXCEPT ![Head(todo).addr] = IF s < @ THEN s ELSE @]
  PROVE  Sees(plugin, set, h, sec, next, Tail(todo))
<1> DEFINE P == Pairs(set)
           t == Head(todo)
           q == Tail(todo)
<1>1. todo \in Seq(P) /\ todo # <<>> OBVIOUS
<1>2. t \in P => t.addr \in NamesOf(set) /\ t.word \in WordsOf(set) BY DEF Pairs
<1>3. next = [seen EXCEPT ![t.addr] = IF s < seen[t.addr] THEN s ELSE seen[t.addr]] OBVIOUS
<1>4. s \in h[t.word] OBVIOUS
<1>5. /\ Genuine(set, todo)
      /\ \A a \in NamesOf(set) :
           seen[a] = DOWN => \E w \in WordsOf(set) : Serves(set, a, w) /\ DOWN \in h[w]
      /\ Distinct(set) =>
           \A a \in NamesOf(set), w \in WordsOf(set) : Serves(set, a, w) /\ h[w] = {DOWN} =>
             \/ seen[a] = DOWN
             \/ Asks(todo, a, w)
             \/ plugin = "simplefo" /\ ~sec /\ a = set.items[2][1].addr
  BY DEF Sees
<1> HIDE DEF P
<1>6. /\ t \in P /\ 1 \in 1..Len(todo) /\ todo[1] = t /\ Len(q) = Len(todo) - 1
      /\ \A m \in 1..Len(q) : q[m] = todo[m + 1] /\ m + 1 \in 1..Len(todo)
  BY <1>1
<1>7. \A m \in 1..Len(todo) : m # 1 => m - 1 \in 1..Len(q) /\ q[m - 1] = todo[m]
  BY <1>1, <1>6
<1>8. q = Tail(todo) OBVIOUS
<1> HIDE DEF t, q
<1>9. Genuine(set, q) BY <1>5, <1>6 DEF Genuine
<1>10. Serves(set, t.addr, t.word) BY <1>5, <1>6 DEF Genuine
<1>11. t.addr \in NamesOf(set) /\ t.word \in WordsOf(set) BY <1>2, <1>6
<1>12. /\ next \in [NamesOf(set) -> States]
       /\ next[t.addr] = IF s < seen[t.addr] THEN s ELSE seen[t.addr]
       /\ \A a \in NamesOf(set) : a # t.addr => next[a] = seen[a]
  BY <1>3, <1>11
<1>13. \A a \in NamesOf(set) : seen[a] \in {1, 2, 3} BY DEF States, DOWN, DANGER, UP
<1>14. s \in {1, 2, 3} BY DEF States, DOWN, DANGER, UP
<1>15. \A a \in NamesOf(set) : seen[a] = DOWN => next[a] = DOWN
  BY <1>11, <1>12, <1>13, <1>14 DEF DOWN
<1>16. \A a \in NamesOf(set) : next[a] = DOWN => seen[a] = DOWN \/ (a = t.addr /\ s = DOWN)
  BY <1>12
<1>17. s = DOWN => next[t.addr] = DOWN BY <1>11, <1>12, <1>13 DEF DOWN
<1>18. ASSUME NEW a \in NamesOf(set), next[a] = DOWN
       PROVE  \E w \in WordsOf(set) : Serves(set, a, w) /\ DOWN \in h[w]
  BY <1>4, <1>5, <1>10, <1>11, <1>16, <1>18
<1>19. ASSUME Distinct(set), NEW a \in NamesOf(set), NEW w \in WordsOf(set), Serves(set, a, w), h[w] = {DOWN}
       PROVE  \/ next[a] = DOWN
              \/ Asks(q, a, w)
              \/ plugin = "simplefo" /\ ~sec /\ a = set.items[2][1].addr
  <2>1. CASE Asks(todo, a, w)
    <3>1. PICK m \in 1..Len(todo) : todo[m].addr = a /\ todo[m].word = w BY <2>1 DEF Asks
    <3>2. CASE m = 1
      <4>1. t.addr = a /\ t.word = w BY <1>6, <3>1, <3>2
      <4>2. s = DOWN BY <1>4, <1>19, <4>1
      <4> QED BY <1>17, <4>1, <4>2
    <3>3. CASE m # 1
      <4>1. Asks(q, a, w) BY <1>7, <3>1, <3>3 DEF Asks
      <4> QED BY <4>1
    <3> QED BY <3>2, <3>3
  <2>2. CASE ~Asks(todo, a, w)
    <3>1. seen[a] = DOWN \/ (plugin = "simplefo" /\ ~sec /\ a = set.items[2][1].addr)
      BY <1>5, <1>19, <2>2
    <3> QED BY <1>15, <3>1
  <2> QED BY <2>1, <2>2
<1>20. Sees(plugin, set, h, sec, next, q) BY <1>9, <1>18, <1>19 DEF Sees
<1> QED BY <1>8, <1>20

\* h and g are the states that words have had before and after a store.
Later(h, g) == \A w \in Word : h[w] \subseteq g[w] /\ (g[w] = {DOWN} => h[w] = {DOWN})

\* A store takes back nothing of what has been the case.
LEMMA SeesLater ==
  ASSUME NEW N, NEW set, set.items \in Seq(Seq(Address(N))), NEW h, NEW g, Later(h, g),
         NEW plugin, NEW sec, NEW seen, NEW todo, Sees(plugin, set, h, sec, seen, todo)
  PROVE  Sees(plugin, set, g, sec, seen, todo)
<1>1. WordsOf(set) \subseteq Word BY SetOf
<1> QED BY <1>1 DEF Sees, Later

\* Nor of what has been given.
LEMMA GivesLater ==
  ASSUME NEW N, NEW set, set.items \in Seq(Seq(Address(N))), NEW h, NEW g, Later(h, g),
         NEW plugin, NEW fam, NEW rv, NEW s, Gives(plugin, set, fam, h, rv, s)
  PROVE  Gives(plugin, set, fam, g, rv, s)
<1>1. WordsOf(set) \subseteq Word BY SetOf
<1> QED BY <1>1 DEF Gives, Later

\* Nothing has been given yet.
LEMMA GivesNothing ==
  ASSUME NEW plugin, NEW set, NEW fam, NEW h, NEW rv
  PROVE  Gives(plugin, set, fam, h, rv, <<>>)
<1>1. <<>> \in Seq(NamesOf(set)) /\ IsInjective(<<>>) /\ Range(<<>>) = {} BY DEF IsInjective, Range
<1> QED BY <1>1 DEF Gives

\* What a plugin makes of the states is what has been the case of the words.
Makes(plugin, set, fam, h, o) ==
    /\ Gives(plugin, set, fam, h, o.rv, o.addrs)
    /\ ~o.rv => \E w \in WordsOf(set) : DOWN \in h[w]

\* A simplefo plugin that has not looked at the secondary has seen the primary
\* not DOWN, and the secondary is another address.
Sufficient(plugin, set, sec, seen) ==
    plugin = "simplefo" /\ ~sec =>
      /\ seen[set.items[1][1].addr] # DOWN
      /\ Distinct(set) => set.items[1][1].addr # set.items[2][1].addr
OfFamily(set, fam) == \A m \in NamesOf(set) : m \in V6 <=> fam = "v6"

\* From what is seen and what is made of it to what has been the case.
LEMMA GivesAnswer ==
  ASSUME NEW N, NEW set, set.items \in Seq(Seq(Address(N))), NEW fam, NEW plugin, NEW h, NEW sec,
         NEW seen, Sees(plugin, set, h, sec, seen, <<>>), NEW o, Resulting(plugin, set, seen, o),
         plugin \notin Monitors => WordsOf(set) = {},
         Sufficient(plugin, set, sec, seen), OfFamily(set, fam)
  PROVE  Makes(plugin, set, fam, h, o)
<1> DEFINE s == o.addrs
<1>1. /\ Answer(plugin, set, seen, o)
      /\ plugin = "simplefo" /\ ~sec =>
           /\ o.addrs = <<set.items[1][1].addr>>
           /\ Distinct(set) => set.items[1][1].addr # set.items[2][1].addr
      /\ \A m \in NamesOf(set) : m \in V6 <=> fam = "v6"
  BY DEF Resulting, Sufficient, OfFamily
<1>2. /\ s \in Seq(NamesOf(set)) /\ (Distinct(set) => IsInjective(s)) /\ DOMAIN s = 1..Len(s)
      /\ \A k \in 1..Len(s) : s[k] \in NamesOf(set)
  BY <1>1 DEF Answer
<1>3. \A a \in Range(s) : a \in NamesOf(set) /\ \E k \in 1..Len(s) : s[k] = a BY <1>2 DEF Range
<1>4. \A a, w : ~Asks(<<>>, a, w) BY DEF Asks
<1>5. ~o.rv => \E w \in WordsOf(set) : DOWN \in h[w] BY <1>1 DEF Answer, Sees
<1>6. ASSUME o.rv, Distinct(set), NEW a \in Range(s), NEW w \in WordsOf(set), Serves(set, a, w), h[w] = {DOWN}
      PROVE  /\ plugin = "weighted"
             /\ \A b \in NamesOf(set) : \E u \in WordsOf(set) : Serves(set, b, u) /\ DOWN \in h[u]
  <2>1. plugin \in Monitors BY <1>6
  <2>2. PICK k \in 1..Len(s) : s[k] = a BY <1>3
  <2>3. a \in NamesOf(set) BY <1>3
  <2>4. ~(plugin = "simplefo" /\ ~sec /\ a = set.items[2][1].addr)
    <3> SUFFICES ASSUME plugin = "simplefo", ~sec, a = set.items[2][1].addr PROVE FALSE OBVIOUS
    <3>1. s = <<set.items[1][1].addr>> /\ set.items[1][1].addr # a BY <1>1, <1>6
    <3> HIDE DEF s
    <3>2. Len(s) = 1 /\ s[1] = set.items[1][1].addr BY <3>1
    <3> QED BY <2>2, <3>1, <3>2
  <2>5. seen[a] = DOWN BY <1>4, <1>6, <2>3, <2>4 DEF Sees
  <2>6. seen[s[k]] = DOWN BY <2>2, <2>5
  <2>7. plugin = "weighted" /\ \A b \in NamesOf(set) : seen[b] = DOWN
    BY <1>1, <1>6, <2>1, <2>6 DEF Answer
  <2> QED BY <2>7 DEF Sees
<1>7. \A a \in Range(s) : a \in V6 <=> fam = "v6" BY <1>1, <1>3
<1> HIDE DEF s
<1>8. Gives(plugin, set, fam, h, o.rv, s) BY <1>2, <1>6, <1>7 DEF Gives
<1> QED BY <1>5, <1>8 DEF s, Makes

\* It claims nothing of an answer that has failed.
LEMMA GivesLess ==
  ASSUME NEW plugin, NEW set, NEW fam, NEW h, NEW rv, NEW rv2, rv2 => rv, NEW s, Gives(plugin, set, fam, h, rv, s)
  PROVE  Gives(plugin, set, fam, h, rv2, s)
BY DEF Gives

AllUp(set) == [a \in NamesOf(set) |-> UP]
FirstFamily(dc) == IF dc.v4.items # <<>> THEN "v4" ELSE "v6"

\* The fields of the local state when a family is begun, and a datacenter.
Started(x, fam, y) ==
    /\ DOMAIN y = Fields /\ y.fam = fam /\ ~y.sec
    /\ y.todo = FirstReads(res.dcs[x.dc].plugin, res.dcs[x.dc][fam])
    /\ y.seen = AllUp(res.dcs[x.dc][fam])
    /\ \A k \in Fields \ {"fam", "sec", "todo", "seen"} : y[k] = x[k]
Called(x, d, y) ==
    /\ DOMAIN y = Fields /\ y.dc = d /\ y.v4 = <<>> /\ y.v6 = <<>> /\ y.rv /\ ~y.sec
    /\ y.fam = FirstFamily(res.dcs[d])
    /\ y.todo = FirstReads(res.dcs[d].plugin, res.dcs[d][y.fam])
    /\ y.seen = AllUp(res.dcs[d][y.fam])
    /\ y.list = x.list /\ y.all = x.all /\ y.retry = x.retry /\ y.out = x.out /\ y.bad = x.bad

\* Start() and Call(), field by field.
LEMMA StartIs ==
  ASSUME NEW x, DOMAIN x = Fields, NEW fam
  PROVE  Started(x, fam, Start(x, fam))
<1> DEFINE todo == FirstReads(res.dcs[x.dc].plugin, res.dcs[x.dc][fam])
           seen == AllUp(res.dcs[x.dc][fam])
           y == [x EXCEPT !.fam = fam, !.sec = FALSE, !.todo = todo, !.seen = seen]
<1>1. y = Start(x, fam) BY Zenon DEF Start, AllUp
<1> HIDE DEF todo, seen
<1>2. /\ DOMAIN y = Fields /\ y.fam = fam /\ y.todo = todo /\ y.seen = seen
      /\ \A k \in Fields \ {"fam", "sec", "todo", "seen"} : y[k] = x[k]
  BY DEF Fields
<1>3. ~y.sec BY DEF Fields
<1> HIDE DEF y
<1>4. Started(x, fam, y) BY <1>2, <1>3 DEF Started, todo, seen
<1> QED BY <1>1, <1>4

LEMMA CallIs ==
  ASSUME NEW x, DOMAIN x = Fields, NEW d
  PROVE  Called(x, d, Call(x, d))
<1> DEFINE z == [x EXCEPT !.dc = d, !.v4 = <<>>, !.v6 = <<>>, !.cut = FALSE, !.ttl = TTL, !.rv = TRUE]
           fam == FirstFamily(res.dcs[d])
           y == Start(z, fam)
<1>1. /\ DOMAIN z = Fields /\ z.dc = d /\ z.v4 = <<>> /\ z.v6 = <<>>
      /\ z.list = x.list /\ z.all = x.all /\ z.retry = x.retry /\ z.out = x.out /\ z.bad = x.bad
  BY DEF Fields
<1>2. z.rv BY DEF Fields
<1>3. Call(x, d) = y BY DEF Call, FirstFamily
<1> HIDE DEF z, fam
<1>4. Started(z, fam, y) BY <1>1, StartIs
<1> HIDE DEF y
<1>5. /\ y.dc = z.dc /\ y.v4 = z.v4 /\ y.v6 = z.v6 /\ y.rv = z.rv
      /\ y.list = z.list /\ y.all = z.all /\ y.retry = z.retry /\ y.out = z.out /\ y.bad = z.bad
  BY <1>4 DEF Fields, Started
<1>6. /\ DOMAIN y = Fields /\ y.fam = fam /\ ~y.sec
      /\ y.todo = FirstReads(res.dcs[d].plugin, res.dcs[d][y.fam])
      /\ y.seen = AllUp(res.dcs[d][y.fam])
  BY <1>1, <1>4 DEF Started
<1>7. Called(x, d, y) BY <1>1, <1>2, <1>5, <1>6 DEF fam, Called
<1> QED BY <1>3, <1>7

\* What is known of one address set of a resource.
LEMMA SetIs ==
  ASSUME NEW N, Formed(N), NEW x \in Resources, make_resource(x), NEW d \in DOMAIN x.dcs,
         NEW fam \in {"v4", "v6"}
  PROVE  /\ x.dcs[d][fam].items \in Seq(Seq(Address(N)))
         /\ x.dcs[d].plugin \notin Monitors => WordsOf(x.dcs[d][fam]) = {}
         /\ x.dcs[d].plugin = "simplefo" /\ x.dcs[d][fam].items # <<>> => simplefo_config(x.dcs[d][fam], fam)
         /\ WordsOf(x.dcs[d][fam]) \subseteq SetWords(x, d)
<1>1. x.dcs[d][fam].items \in Seq(Seq(Address(N))) /\ (x.dcs[d].plugin \notin Monitors => WordsOf(x.dcs[d][fam]) = {})
  BY ConfiguredSet
<1>3. x.dcs[d].plugin = "simplefo" /\ x.dcs[d][fam].items # <<>> => simplefo_config(x.dcs[d][fam], fam)
  BY DEF make_resource, DcOk, FamilyOk
<1>4. WordsOf(x.dcs[d][fam]) \subseteq SetWords(x, d) BY WordsTyped
<1> QED BY <1>1, <1>3, <1>4

\* When a plugin begins with a family nothing has been seen DOWN, and all is
\* to be read that it looks at first.
LEMMA BeginsToSee ==
  ASSUME NEW N, Formed(N), NEW x \in Resources, make_resource(x), NEW d \in Answering(x),
         NEW fam \in {"v4", "v6"}, x.dcs[d].plugin # "reflect" => x.dcs[d][fam].items # <<>>,
         NEW h, NEW y, y.dc = d, y.fam = fam, ~y.sec,
         y.todo = FirstReads(x.dcs[d].plugin, x.dcs[d][fam]),
         y.seen = AllUp(x.dcs[d][fam])
  PROVE  Noticed(x, h, y)
<1> DEFINE set == x.dcs[d][fam]
           plugin == x.dcs[d].plugin
<1>1. d \in DOMAIN x.dcs BY DEF Answering
<1>2. /\ set.items \in Seq(Seq(Address(N)))
      /\ plugin = "simplefo" => simplefo_config(set, fam)
  BY <1>1, SetIs
<1>3. y.todo = FirstReads(plugin, set) /\ y.seen = AllUp(set) OBVIOUS
<1>4. Noticed(x, h, y) <=> Sees(plugin, set, h, y.sec, y.seen, y.todo) BY DEF Noticed
<1> HIDE DEF set, plugin
<1>5. Sees(plugin, set, h, y.sec, y.seen, y.todo) BY <1>2, <1>3, SeesStart DEF AllUp
<1> QED BY <1>4, <1>5

\* A datacenter that is called has noticed and given nothing.
LEMMA CallGathers ==
  ASSUME NEW N, Formed(N), res \in Resources, make_resource(res), NEW x,
         NEW d \in Answering(res), NEW y, Called(x, d, y)
  PROVE  Gathering(res, was, y)
<1>1. /\ DOMAIN y = Fields /\ y.dc = d /\ y.v4 = <<>> /\ y.v6 = <<>> /\ y.rv /\ ~y.sec
      /\ y.fam = FirstFamily(res.dcs[d])
      /\ y.todo = FirstReads(res.dcs[d].plugin, res.dcs[d][y.fam])
      /\ y.seen = AllUp(res.dcs[d][y.fam])
  BY DEF Called
<1>2. y.fam \in {"v4", "v6"} BY <1>1 DEF FirstFamily
<1>3. res.dcs[d].plugin # "reflect" => res.dcs[d][y.fam].items # <<>>
  BY <1>1 DEF Answering, AnswersDyna, FirstFamily
<1>4. Noticed(res, was, y) BY <1>1, <1>2, <1>3, BeginsToSee
<1>5. Gives(res.dcs[y.dc].plugin, res.dcs[y.dc]["v4"], "v4", was, y.rv, y["v4"])
  <2>1. y["v4"] = <<>> BY <1>1
  <2>2. Gives(res.dcs[y.dc].plugin, res.dcs[y.dc]["v4"], "v4", was, y.rv, <<>>) BY GivesNothing
  <2> QED BY <2>1, <2>2
<1>6. Served(res, was, y, "v4") BY <1>5 DEF Served
<1> QED BY <1>1, <1>4, <1>6 DEF Gathering

\* The addresses of a family go to its part of the result.
LEMMA AddedTo ==
  ASSUME NEW x, DOMAIN x = Fields, NEW E, NEW addrs \in Seq(E), NEW fam \in {"v4", "v6"},
         \A a \in Range(addrs) : a \in V6 <=> fam = "v6",
         x.v6 = <<>>, fam = "v4" => x.v4 = <<>>, NEW F, x.v4 \in Seq(F),
         NEW y, y = add_result_anysin(x, addrs)
  PROVE  /\ y[fam] = addrs
         /\ fam = "v4" => y.v4 = addrs /\ y.v6 = <<>>
         /\ fam = "v6" => y.v4 = x.v4 /\ y.v6 = addrs
<1> DEFINE a == Kept(addrs, Range(addrs) \ V6)
           b == Kept(addrs, V6)
           c == x.v4 \o a
           d == x.v6 \o b
<1>1. y = [x EXCEPT !.v4 = c, !.v6 = d] BY DEF add_result_anysin
<1>2. DOMAIN addrs = 1..Len(addrs) BY SequenceOf
<1>3. fam = "v4" => a = addrs /\ b = <<>>
  <2> SUFFICES ASSUME fam = "v4" PROVE a = addrs /\ b = <<>> OBVIOUS
  <2>1. \A i \in 1..Len(addrs) : addrs[i] \in Range(addrs) \ V6 BY <1>2 DEF Range
  <2>2. Range(addrs) \cap V6 = {} OBVIOUS
  <2> QED BY <2>1, <2>2, KeptOf, KeptNone
<1>4. fam = "v6" => a = <<>> /\ b = addrs
  <2> SUFFICES ASSUME fam = "v6" PROVE a = <<>> /\ b = addrs OBVIOUS
  <2>1. \A i \in 1..Len(addrs) : addrs[i] \in V6 BY <1>2 DEF Range
  <2> DEFINE S == Range(addrs) \ V6
  <2>2. Range(addrs) \cap S = {} BY <1>2, <2>1 DEF Range
  <2> HIDE DEF S
  <2>3. Kept(addrs, S) = <<>> BY <2>2, KeptNone
  <2>4. b = addrs BY <2>1, KeptOf
  <2> QED BY <2>3, <2>4 DEF S
<1> HIDE DEF a, b
<1>5. fam = "v4" => c = addrs /\ d = <<>> BY <1>3
<1>6. fam = "v6" => c = x.v4 /\ d = addrs BY <1>4
<1> HIDE DEF c, d
<1>7. y.v4 = c /\ y.v6 = d BY <1>1 DEF Fields
<1>8. CASE fam = "v4" BY <1>5, <1>7, <1>8
<1>9. CASE fam = "v6" BY <1>6, <1>7, <1>9
<1> QED BY <1>8, <1>9

-----------------------------------------------------------------------------
(* Whose turn it is.                                                       *)

\* The first of a list begins.
LEMMA TurnFirst ==
  ASSUME NEW x, NEW h, NEW S, NEW l \in Seq(S), l # <<>>, NEW retry, ~retry
  PROVE  Turn(x, h, l, Tail(l), retry, l[1])
<1>1. /\ Len(Tail(l)) = Len(l) - 1 /\ Len(l) \in Nat /\ Len(l) >= 1
      /\ \A k \in 1..Len(Tail(l)) : Tail(l)[k] = l[k + 1]
  OBVIOUS
<1>2. Len(l) - Len(Tail(l)) = 1 BY <1>1
<1>3. 1 \in 1..Len(l) /\ \A k \in 1..(1 - 1) : FALSE BY <1>1
<1>4. \A k \in 1..Len(Tail(l)) : Tail(l)[k] = l[1 + k]
  <2>1. \A k \in 1..Len(Tail(l)) : k + 1 = 1 + k BY <1>1
  <2> QED BY <1>1, <2>1
<1> QED BY <1>2, <1>3, <1>4 DEF Turn

\* The next one, when the one before has failed.
LEMMA TurnNext ==
  ASSUME NEW x, NEW h, NEW S, NEW all \in Seq(S), NEW list \in Seq(S), list # <<>>, NEW retry, ~retry,
         NEW dc, Turn(x, h, all, list, retry, dc), Failing(x, h, dc)
  PROVE  Turn(x, h, all, Tail(list), retry, Head(list))
<1> DEFINE n == Len(all) - Len(list)
           q == Tail(list)
<1>1. /\ n \in 1..Len(all) /\ dc = all[n]
      /\ \A k \in 1..Len(list) : list[k] = all[n + k]
      /\ \A k \in 1..(n - 1) : Failing(x, h, all[k])
  BY DEF Turn
<1>2. /\ Len(q) = Len(list) - 1 /\ Len(list) \in Nat /\ Len(list) >= 1 /\ Len(all) \in Nat
      /\ Head(list) = list[1] /\ \A k \in 1..Len(q) : q[k] = list[k + 1] /\ k + 1 \in 1..Len(list)
  OBVIOUS
<1>3. Len(all) - Len(q) = n + 1 /\ n + 1 \in 1..Len(all) /\ (n + 1) - 1 = n BY <1>1, <1>2
<1> HIDE DEF n, q
<1>4. n \in Nat BY <1>1
<1>5. Head(list) = all[n + 1] BY <1>1, <1>2
<1>6. ASSUME NEW k \in 1..Len(q) PROVE q[k] = all[(n + 1) + k]
  <2>1. q[k] = all[n + (k + 1)] BY <1>1, <1>2
  <2>2. n + (k + 1) = (n + 1) + k BY <1>2, <1>4
  <2> QED BY <2>1, <2>2
<1>7. ASSUME NEW k \in 1..n PROVE Failing(x, h, all[k])
  <2>1. k = n \/ k \in 1..(n - 1) BY <1>4
  <2> QED BY <1>1, <2>1
<1>8. Turn(x, h, all, q, retry, Head(list)) BY <1>3, <1>5, <1>6, <1>7 DEF Turn
<1> QED BY <1>8 DEF q

\* The first one again, when all have failed.
LEMMA TurnAgain ==
  ASSUME NEW x, NEW h, NEW S, NEW all \in Seq(S), NEW list, list = <<>>, NEW retry, ~retry,
         NEW dc, Turn(x, h, all, list, retry, dc), Failing(x, h, dc), NEW again, again
  PROVE  Turn(x, h, all, list, again, all[1])
<1> DEFINE n == Len(all) - Len(list)
<1>1. /\ n \in 1..Len(all) /\ dc = all[n] /\ \A k \in 1..(n - 1) : Failing(x, h, all[k])
  BY DEF Turn
<1>2. n = Len(all) /\ Len(all) \in Nat OBVIOUS
<1> HIDE DEF n
<1>3. ASSUME NEW k \in 1..Len(all) PROVE Failing(x, h, all[k])
  <2>1. k = n \/ k \in 1..(n - 1) BY <1>2
  <2> QED BY <1>1, <2>1
<1> QED BY <1>3 DEF Turn

\* A store takes back no failure.
LEMMA TurnLater ==
  ASSUME NEW N, Formed(N), NEW x \in Resources, make_resource(x), NEW h, NEW g, Later(h, g),
         NEW all \in Seq(Answering(x)), NEW list, NEW retry, NEW dc, Turn(x, h, all, list, retry, dc)
  PROVE  Turn(x, g, all, list, retry, dc)
<1>1. ASSUME NEW k \in 1..Len(all), Failing(x, h, all[k]) PROVE Failing(x, g, all[k])
  <2>1. all[k] \in DOMAIN x.dcs
    <3>1. all[k] \in Answering(x) OBVIOUS
    <3> QED BY <3>1 DEF Answering
  <2>2. SetWords(x, all[k]) \subseteq Word BY <2>1, WordsTyped
  <2> QED BY <1>1, <2>2 DEF Failing, Later
<1>2. Len(all) \in Nat OBVIOUS
<1> DEFINE n == Len(all) - Len(list)
<1>3. CASE retry BY <1>1, <1>3 DEF Turn
<1>4. CASE ~retry
  <2>1. /\ n \in 1..Len(all) /\ dc = all[n]
        /\ \A k \in 1..Len(list) : list[k] = all[n + k]
        /\ \A k \in 1..(n - 1) : Failing(x, h, all[k])
    BY <1>4 DEF Turn
  <2> HIDE DEF n
  <2>2. \A k \in 1..(n - 1) : k \in 1..Len(all) BY <1>2, <2>1
  <2>3. \A k \in 1..(n - 1) : Failing(x, g, all[k]) BY <1>1, <2>1, <2>2
  <2> QED BY <1>4, <2>1, <2>3 DEF Turn, n
<1> QED BY <1>3, <1>4

-----------------------------------------------------------------------------
(* The steps, again.                                                       *)

\* A datacenter is called.
LEMMA CallStep ==
  ASSUME NEW CONSTANT N, Formed(N), res \in Resources, make_resource(res),
         UNCHANGED <<res, was>>, pc' = "read", NEW x, DOMAIN x = Fields, NEW d \in Answering(res),
         r' = Call(x, d), x.out, Turn(res, was, x.all, x.list, x.retry, d), Assertions => ~x.bad
  PROVE  JInv' /\ (Assertions => Assertions')
<1>1. Called(x, d, r') BY CallIs
<1>2. Gathering(res, was, r') BY <1>1, CallGathers
<1>3. Tried(res, was, r') BY <1>1 DEF Called, Tried
<1>4. Assertions => Assertions' BY <1>1 DEF Called, Assertions
<1> QED BY <1>2, <1>3, <1>4 DEF JInv

\* A query begins with the first datacenter of its list, if there is one.
LEMMA CB_RES_AKeeps ==
  ASSUME NEW CONSTANT N, Formed(N), IInv, CB_RES_A
  PROVE  JInv' /\ (Assertions => Assertions')
<1>1. PICK l \in res.lists \cup Synthetic("DYNA") : Begin(l) BY DEF CB_RES_A
<1>2. l \in Seq(Answering(res))
  <2>1. CASE l \in res.lists BY <2>1, ListsAnswer DEF IInv
  <2>2. CASE l \in Synthetic("DYNA")
    <3>1. PICK d \in Answering(res) : l = <<d>> BY <2>2 DEF Synthetic, Answering
    <3> QED BY <3>1
  <2> QED BY <1>1, <2>1, <2>2
<1>3. UNCHANGED <<res, was>> /\ res \in Resources /\ make_resource(res) BY DEF CB_RES_A, IInv
<1>4. CASE l = <<>>
  <2>1. pc' = "done" /\ r' = Nothing BY <1>1, <1>4 DEF Begin
  <2>2. ~Nothing.bad BY DEF Nothing
  <2>3. JInv' BY <1>3, <2>1, NothingIs DEF JInv
  <2> QED BY <2>1, <2>2, <2>3 DEF Assertions
<1>5. CASE l # <<>>
  <2> DEFINE x == [Nothing EXCEPT !.list = Tail(l), !.all = l]
  <2>1. pc' = "read" /\ r' = Call(x, l[1]) BY <1>1, <1>5 DEF Begin
  <2>2. DOMAIN x = Fields /\ x.list = Tail(l) /\ x.all = l BY DEF Nothing, Fields
  <2>3. ~x.retry /\ x.out /\ ~x.bad BY DEF Nothing
  <2> HIDE DEF x
  <2>4. l[1] \in Answering(res) BY <1>2, <1>5
  <2>5. Turn(res, was, l, Tail(l), x.retry, l[1]) BY <1>2, <1>5, <2>3, TurnFirst
  <2>6. Turn(res, was, x.all, x.list, x.retry, l[1]) BY <2>2, <2>5
  <2> QED BY <1>3, <2>1, <2>2, <2>3, <2>4, <2>6, CallStep
<1> QED BY <1>4, <1>5

\* A datacenter has failed, and another one or the first again is called.
LEMMA TryKeeps ==
  ASSUME NEW CONSTANT N, Formed(N), IInv, JInv, NextDatacenter \/ FirstAgain
  PROVE  JInv' /\ (Assertions => Assertions')
<1>1. /\ pc = "return" /\ pc' = "read" /\ UNCHANGED <<res, was>>
  BY DEF NextDatacenter, FirstAgain
<1>2. /\ DOMAIN r = Fields /\ res \in Resources /\ make_resource(res)
      /\ r.list \in Seq(Answering(res)) /\ r.all \in Seq(Answering(res)) /\ r.all # <<>>
  BY <1>1 DEF IInv, Lists
<1>3. ~r.rv /\ ~r.retry BY DEF NextDatacenter, FirstAgain
<1>4. r.out /\ Failing(res, was, r.dc) /\ Turn(res, was, r.all, r.list, r.retry, r.dc)
  BY <1>1, <1>3 DEF JInv, Tried
<1>5. CASE NextDatacenter
  <2> DEFINE x == [r EXCEPT !.list = Tail(@)]
  <2>1. r' = Call(x, Head(r.list)) /\ r.list # <<>> BY <1>5 DEF NextDatacenter
  <2>2. DOMAIN x = Fields /\ x.list = Tail(r.list) /\ x.all = r.all /\ x.retry = r.retry /\ x.out = r.out /\ x.bad = r.bad
    BY <1>2 DEF Fields
  <2> HIDE DEF x
  <2>3. Head(r.list) \in Answering(res)
    <3> DEFINE q == r.list
               S == Answering(res)
    <3>1. q \in Seq(S) /\ q # <<>> BY <1>2, <2>1
    <3> HIDE DEF q, S
    <3>2. Head(q) \in S BY <3>1
    <3> QED BY <3>2 DEF q, S
  <2>4. Turn(res, was, r.all, Tail(r.list), r.retry, Head(r.list)) BY <1>2, <1>3, <1>4, <2>1, TurnNext
  <2>5. Turn(res, was, x.all, x.list, x.retry, Head(r.list)) BY <2>2, <2>4
  <2>6. x.out /\ (Assertions => ~x.bad) BY <1>4, <2>2 DEF Assertions
  <2> QED BY <1>1, <1>2, <2>1, <2>2, <2>3, <2>5, <2>6, CallStep
<1>6. CASE FirstAgain
  <2> DEFINE x == [r EXCEPT !.retry = TRUE]
  <2>1. r' = Call(x, r.all[1]) /\ r.list = <<>> BY <1>6 DEF FirstAgain
  <2>2. DOMAIN x = Fields /\ x.list = r.list /\ x.all = r.all /\ x.out = r.out /\ x.bad = r.bad
    BY <1>2 DEF Fields
  <2>3. x.retry BY <1>2 DEF Fields
  <2> HIDE DEF x
  <2>4. r.all[1] \in Answering(res) BY <1>2
  <2>5. Turn(res, was, r.all, r.list, x.retry, r.all[1]) BY <1>2, <1>3, <1>4, <2>1, <2>3, TurnAgain
  <2>6. Turn(res, was, x.all, x.list, x.retry, r.all[1]) BY <2>2, <2>5
  <2>7. x.out /\ (Assertions => ~x.bad) BY <1>4, <2>2 DEF Assertions
  <2> QED BY <1>1, <1>2, <2>1, <2>2, <2>4, <2>6, <2>7, CallStep
<1> QED BY <1>5, <1>6

\* The meta plugin returns.
LEMMA DoneKeeps ==
  ASSUME NEW CONSTANT N, Formed(N), IInv, JInv, Succeeded \/ AllFailed
  PROVE  JInv' /\ (Assertions => Assertions')
<1>1. /\ pc = "return" /\ pc' = "done" /\ UNCHANGED <<res, was>>
  BY DEF Succeeded, AllFailed
<1>2. DOMAIN r = Fields /\ Lists(res, r) BY <1>1 DEF IInv
<1>3. Gathered(res, was, r) BY <1>1 DEF JInv
<1>4. r.out /\ Turn(res, was, r.all, r.list, r.retry, r.dc) BY <1>1 DEF JInv, Tried
<1>5. r.all \in Seq(Answering(res)) /\ r.all # <<>> BY <1>2 DEF Lists
<1>6. 1 \in 1..Len(r.all) /\ \A k \in 1..(1 - 1) : FALSE BY <1>5
<1>7. CASE Succeeded
  <2>1. r' = r /\ r.rv /\ ~r.retry BY <1>7 DEF Succeeded
  <2> DEFINE n == Len(r.all) - Len(r.list)
  <2>2. n \in 1..Len(r.all) /\ r.dc = r.all[n] /\ \A k \in 1..(n - 1) : Failing(res, was, r.all[k])
    BY <1>4, <2>1 DEF Turn
  <2> HIDE DEF n
  <2>3. Settled(res, was, r) BY <1>4, <2>1, <2>2 DEF Settled
  <2>4. r.cname = {} BY <1>2 DEF Lists
  <2>5. JInv' BY <1>1, <1>2, <1>3, <2>1, <2>3, <2>4 DEF JInv
  <2> QED BY <2>1, <2>5 DEF Assertions
<1>8. CASE AllFailed
  <2>1. r' = [r EXCEPT !.out = FALSE] /\ r.retry BY <1>8 DEF AllFailed
  <2>2. /\ r'.dc = r.dc /\ r'.all = r.all /\ r'.list = r.list /\ r'.cname = r.cname /\ r'.bad = r.bad
        /\ r'.v4 = r.v4 /\ r'.v6 = r.v6 /\ r'.client = r.client /\ r'.rv = r.rv
    BY <1>2, <2>1 DEF Fields
  <2>3. ~r'.out BY <1>2, <2>1 DEF Fields
  <2>4. r.dc = r.all[1] /\ \A k \in 1..Len(r.all) : Failing(res, was, r.all[k])
    BY <1>4, <2>1 DEF Turn
  <2>5. Settled(res, was, r') BY <1>6, <2>2, <2>3, <2>4 DEF Settled
  <2>6. r'["v4"] = r["v4"] /\ r'["v6"] = r["v6"] BY <2>2
  <2>7. Gathered(res, was, r') BY <1>3, <2>2, <2>6 DEF Gathered, Served
  <2>8. Lists(res, r') /\ r'.cname = {} BY <1>2, <2>2 DEF Lists
  <2>9. JInv' BY <1>1, <2>5, <2>7, <2>8 DEF JInv
  <2> QED BY <2>2, <2>9 DEF Assertions
<1> QED BY <1>7, <1>8

\* The next query knows nothing of this one.
LEMMA AnsweredKeeps ==
  ASSUME Answered
  PROVE  JInv' /\ Assertions'
<1>1. pc' = "idle" /\ r' = Nothing BY DEF Answered
<1>2. ~Nothing.bad BY DEF Nothing
<1> QED BY <1>1, <1>2 DEF JInv, Assertions

\* The main thread stores a state between two reads.
LEMMA StoreKeeps ==
  ASSUME NEW CONSTANT N, Formed(N), IInv, JInv, NEW w \in Word, NEW s \in States, Store(w, s)
  PROVE  JInv' /\ (Assertions => Assertions')
<1>1. pc \notin {"idle", "done"} /\ UNCHANGED <<res, pc, r>> /\ was' = [was EXCEPT ![w] = @ \cup {s}]
  BY DEF Store
<1>2. Words /\ res \in Resources /\ make_resource(res) BY DEF IInv
<1>3. Later(was, was')
  <2>1. \A u \in Word : was[u] \subseteq was'[u] /\ was[u] # {} BY <1>1, <1>2 DEF Words
  <2>2. \A u \in Word : was'[u] = {DOWN} => was[u] = {DOWN} BY <2>1
  <2> QED BY <2>1, <2>2 DEF Later
<1>4. ASSUME pc \in {"read", "return"} PROVE Tried(res, was', r) /\ r.dc \in DOMAIN res.dcs
  <2>1. Tried(res, was, r) /\ Lists(res, r) BY <1>4 DEF JInv, IInv
  <2>2. r.all \in Seq(Answering(res)) BY <2>1 DEF Lists
  <2>3. Turn(res, was, r.all, r.list, r.retry, r.dc) BY <2>1 DEF Tried
  <2>4. Turn(res, was', r.all, r.list, r.retry, r.dc) BY <1>2, <1>3, <2>2, <2>3, TurnLater
  <2>5. r.dc \in DOMAIN res.dcs BY <1>4 DEF IInv, Reading, Ended, Answering
  <2>6. SetWords(res, r.dc) \subseteq Word BY <1>2, <2>5, WordsTyped
  <2>7. Failing(res, was, r.dc) => Failing(res, was', r.dc) BY <1>3, <2>6 DEF Failing, Later
  <2> QED BY <2>1, <2>4, <2>5, <2>7 DEF Tried
<1>5. ASSUME pc \in {"read", "return"}, NEW fam \in {"v4", "v6"}, Served(res, was, r, fam)
      PROVE  Served(res, was', r, fam)
  <2> DEFINE set == res.dcs[r.dc][fam]
             plugin == res.dcs[r.dc].plugin
  <2>1. set.items \in Seq(Seq(Address(N))) BY <1>2, <1>4, <1>5, SetIs
  <2>2. Gives(plugin, set, fam, was, r.rv, r[fam]) BY <1>5 DEF Served
  <2> HIDE DEF set, plugin
  <2>3. Gives(plugin, set, fam, was', r.rv, r[fam]) BY <1>3, <2>1, <2>2, GivesLater
  <2> QED BY <2>3 DEF Served, set, plugin
<1>6. ASSUME pc = "read" PROVE Gathering(res, was', r)
  <2> DEFINE set == res.dcs[r.dc][r.fam]
             plugin == res.dcs[r.dc].plugin
  <2>1. r.fam \in {"v4", "v6"} /\ Gathering(res, was, r) BY <1>6 DEF IInv, JInv, Reading
  <2>2. set.items \in Seq(Seq(Address(N))) BY <1>2, <1>4, <1>6, <2>1, SetIs
  <2>3. Sees(plugin, set, was, r.sec, r.seen, r.todo) BY <2>1 DEF Gathering, Noticed
  <2> HIDE DEF set, plugin
  <2>4. Sees(plugin, set, was', r.sec, r.seen, r.todo) BY <1>3, <2>2, <2>3, SeesLater
  <2>5. Noticed(res, was', r) BY <2>4 DEF Noticed, set, plugin
  <2>6. Served(res, was, r, "v4") => Served(res, was', r, "v4") BY <1>5, <1>6
  <2> QED BY <2>1, <2>5, <2>6 DEF Gathering
<1>7. ASSUME pc = "return" PROVE Gathered(res, was', r)
  <2>1. Gathered(res, was, r) BY <1>7 DEF JInv
  <2>2. /\ Served(res, was, r, "v4") => Served(res, was', r, "v4")
        /\ Served(res, was, r, "v6") => Served(res, was', r, "v6")
    BY <1>5, <1>7
  <2> QED BY <2>1, <2>2 DEF Gathered
<1>8. JInv' BY <1>1, <1>4, <1>6, <1>7 DEF JInv
<1> QED BY <1>1, <1>8 DEF Assertions

\* A state is read.
LEMMA ReadStateKeeps ==
  ASSUME NEW CONSTANT N, Formed(N), IInv, JInv, ReadState
  PROVE  JInv' /\ (Assertions => Assertions')
<1> DEFINE set == res.dcs[r.dc][r.fam]
           plugin == res.dcs[r.dc].plugin
           t == Head(r.todo)
           v == IF word[t.word] < r.seen[t.addr] THEN word[t.word] ELSE r.seen[t.addr]
<1>1. /\ pc = "read" /\ r.todo # <<>> /\ UNCHANGED <<res, pc, was>>
      /\ r' = [r EXCEPT !.todo = Tail(@), !.seen[t.addr] = v]
  BY DEF ReadState
<1>2. /\ r.dc \in Answering(res) /\ r.fam \in {"v4", "v6"}
      /\ r.seen \in [NamesOf(set) -> States] /\ r.todo \in Seq(Pairs(set))
  BY <1>1 DEF IInv, Reading
<1>3. /\ DOMAIN r = Fields /\ Words /\ res \in Resources /\ make_resource(res)
      /\ Tried(res, was, r) /\ Gathering(res, was, r)
  BY <1>1 DEF IInv, JInv
<1>4. t.word \in WordsOf(set)
  <2> DEFINE P == Pairs(set)
             q == r.todo
  <2>1. q \in Seq(P) /\ q # <<>> BY <1>1, <1>2
  <2> HIDE DEF P, q
  <2>2. Head(q) \in P BY <2>1
  <2>3. t \in Pairs(set) BY <2>2 DEF P, q
  <2> QED BY <2>3 DEF Pairs
<1>5. t.word \in Word
  <2>1. r.dc \in DOMAIN res.dcs BY <1>2 DEF Answering
  <2>2. WordsOf(set) \subseteq SetWords(res, r.dc) /\ SetWords(res, r.dc) \subseteq Word
    BY <1>2, <1>3, <2>1, WordsTyped
  <2> QED BY <1>4, <2>2
<1>6. word[t.word] \in States /\ word[t.word] \in was[t.word] BY <1>3, <1>5 DEF Words
<1> DEFINE next == [r.seen EXCEPT ![t.addr] = v]
<1>7. /\ r'.todo = Tail(r.todo) /\ r'.seen = next
      /\ r'.dc = r.dc /\ r'.fam = r.fam /\ r'.sec = r.sec /\ r'.rv = r.rv /\ r'.out = r.out
      /\ r'.list = r.list /\ r'.all = r.all /\ r'.retry = r.retry /\ r'.bad = r.bad
      /\ r'.v4 = r.v4 /\ r'.v6 = r.v6
  <2> HIDE DEF v, t
  <2> QED BY <1>1, <1>3 DEF Fields
<1>8. next = [r.seen EXCEPT ![Head(r.todo).addr] = IF word[t.word] < @ THEN word[t.word] ELSE @]
  OBVIOUS
<1>9. Sees(plugin, set, was, r.sec, r.seen, r.todo) BY <1>3 DEF Gathering, Noticed
<1>10. word[t.word] \in was[Head(r.todo).word] BY <1>6
<1> DEFINE s == word[t.word]
<1>11. /\ s \in States /\ s \in was[Head(r.todo).word]
       /\ next = [r.seen EXCEPT ![Head(r.todo).addr] = IF s < @ THEN s ELSE @]
  BY <1>6, <1>8, <1>10
<1> HIDE DEF set, plugin, next, s
<1>12. Sees(plugin, set, was, r.sec, next, Tail(r.todo))
  BY <1>1, <1>2, <1>9, <1>11, SeesRead
<1>13. Sees(res.dcs[r'.dc].plugin, res.dcs[r'.dc][r'.fam], was, r'.sec, r'.seen, r'.todo)
  BY <1>7, <1>12 DEF set, plugin
<1>14. Noticed(res, was, r') BY <1>13 DEF Noticed
<1>15. r'["v4"] = r["v4"] BY <1>7
<1>16. Gathering(res, was, r') BY <1>3, <1>7, <1>14, <1>15 DEF Gathering, Served
<1>17. Tried(res, was, r') BY <1>3, <1>7 DEF Tried
<1>18. JInv' BY <1>1, <1>16, <1>17 DEF JInv
<1> QED BY <1>7, <1>18 DEF Assertions

\* The words of the secondary are to be read.
LEMMA ReadSecondaryKeeps ==
  ASSUME NEW CONSTANT N, Formed(N), IInv, JInv, ReadSecondary
  PROVE  JInv' /\ (Assertions => Assertions')
<1> DEFINE set == res.dcs[r.dc][r.fam]
           plugin == res.dcs[r.dc].plugin
           todo == Reads(set.items[2])
<1>1. /\ pc = "read" /\ UNCHANGED <<res, pc, was>> /\ r.todo = <<>>
      /\ r' = [r EXCEPT !.sec = TRUE, !.todo = todo]
      /\ plugin = "simplefo"
  BY DEF ReadSecondary, NeedsSecondary, Dc
<1>2. /\ r.dc \in Answering(res) /\ r.fam \in {"v4", "v6"}
      /\ plugin # "reflect" => set.items # <<>>
  BY <1>1 DEF IInv, Reading
<1>3. /\ DOMAIN r = Fields /\ res \in Resources /\ make_resource(res)
      /\ Tried(res, was, r) /\ Gathering(res, was, r)
  BY <1>1 DEF IInv, JInv
<1>4. set.items \in Seq(Seq(Address(N))) /\ simplefo_config(set, r.fam)
  <2>1. r.dc \in DOMAIN res.dcs BY <1>2 DEF Answering
  <2> QED BY <1>1, <1>2, <1>3, <2>1, SetIs
<1>5. Sees("simplefo", set, was, r.sec, r.seen, <<>>) BY <1>1, <1>3 DEF Gathering, Noticed
<1> HIDE DEF todo
<1>6. /\ r'.todo = todo /\ r'.seen = r.seen
      /\ r'.dc = r.dc /\ r'.fam = r.fam /\ r'.rv = r.rv /\ r'.out = r.out
      /\ r'.list = r.list /\ r'.all = r.all /\ r'.retry = r.retry /\ r'.bad = r.bad
      /\ r'.v4 = r.v4 /\ r'.v6 = r.v6
  BY <1>1, <1>3 DEF Fields
<1>7. r'.sec BY <1>1, <1>3 DEF Fields
<1> HIDE DEF set, plugin
<1>8. todo = Reads(set.items[2]) BY DEF todo
<1>9. Sees("simplefo", set, was, TRUE, r.seen, todo) BY <1>4, <1>5, <1>8, SeesSecondary
<1>10. Sees("simplefo", set, was, r'.sec, r.seen, todo) BY <1>7, <1>9 DEF Sees
<1>11. Sees(res.dcs[r'.dc].plugin, res.dcs[r'.dc][r'.fam], was, r'.sec, r'.seen, r'.todo)
  BY <1>1, <1>6, <1>10 DEF set, plugin
<1>12. Noticed(res, was, r') BY <1>11 DEF Noticed
<1>13. r'["v4"] = r["v4"] BY <1>6
<1>14. Gathering(res, was, r') BY <1>3, <1>6, <1>12, <1>13 DEF Gathering, Served
<1>15. Tried(res, was, r') BY <1>3, <1>6 DEF Tried
<1>16. JInv' BY <1>1, <1>14, <1>15 DEF JInv
<1> QED BY <1>6, <1>16 DEF Assertions

\* A CNAME comes from the first datacenter, whatever its state.
LEMMA CB_RES_CKeeps ==
  ASSUME NEW CONSTANT N, Formed(N), IInv, CB_RES_C
  PROVE  JInv' /\ (NamedDyncs => Assertions')
<1> DEFINE P(l) == \E name, ttl :
                     r' = [Nothing EXCEPT !.all = l, !.dc = l[1], !.cname = {name}, !.ttl = ttl]
           cn(l) == res.dcs[l[1]].cnames
           ws(l) == [k \in DOMAIN cn(l) |-> cn(l)[k].weight]
           ttl(l) == IF res.dcs[l[1]].plugin = "static" THEN 600 ELSE Nothing.ttl
           T(l, n) == [Nothing EXCEPT !.all = l, !.dc = l[1], !.cname = {n}, !.ttl = ttl(l)]
<1>1. pc' = "done" /\ UNCHANGED <<res, was>> BY DEF CB_RES_C
<1>2. PICK l \in res.dyncs \cup Synthetic("DYNC") :
        IF l = <<>> THEN r' = [Nothing EXCEPT !.bad = TRUE]
        ELSE \E rand \in get_rand(Total(ws(l))) : r' = T(l, cn(l)[Pick(ws(l), rand)].name)
  BY DEF CB_RES_C
<1>3. (l = <<>> => r' = [Nothing EXCEPT !.bad = TRUE]) /\ (l # <<>> => P(l))
  <2> HIDE DEF ttl, cn, ws
  <2> QED BY <1>2
<1> HIDE DEF P
<1>4. res \in Resources /\ map_res(res) BY DEF IInv
<1>5. CASE l = <<>>
  <2>1. r'.dc = 0 /\ r'.cname = {} BY <1>3, <1>5 DEF Nothing
  <2>2. \A d : l # <<d>> BY <1>5
  <2>3. l \in res.dyncs BY <2>2 DEF Synthetic
  <2>4. ~NamedDyncs BY <1>4, <1>5, <2>3 DEF NamedDyncs
  <2>5. JInv' BY <1>1, <2>1 DEF JInv
  <2> QED BY <2>4, <2>5
<1>6. CASE l # <<>>
  <2>1. P(l) BY <1>3, <1>6
  <2>2. r'.dc = l[1] /\ r'.cname # {} /\ r'.v4 = <<>> /\ r'.v6 = <<>> BY <2>1 DEF P, Nothing
  <2>3. r'.out /\ ~r'.bad BY <2>1 DEF P, Nothing
  <2>4. AnswersDync(res.dcs[l[1]])
    <3>1. CASE l \in res.dyncs
      <4>1. l \in Seq(DOMAIN res.dcs) BY <1>4, <3>1 DEF Formed, WellFormed
      <4>2. l[1] \in DOMAIN res.dcs BY <1>6, <4>1
      <4> QED BY <1>4, <3>1, <4>2 DEF map_res
    <3>2. CASE l \in Synthetic("DYNC")
      <4>1. PICK d \in DOMAIN res.dcs : AnswersDync(res.dcs[d]) /\ l = <<d>> BY <3>2 DEF Synthetic
      <4> QED BY <4>1
    <3> QED BY <1>2, <3>1, <3>2
  <2>5. res.dcs[r'.dc].plugin # "reflect" BY <2>2, <2>4 DEF AnswersDync
  <2>6. JInv' BY <1>1, <2>2, <2>3, <2>5 DEF JInv
  <2> QED BY <2>3, <2>6 DEF Assertions
<1> QED BY <1>5, <1>6

\* reflect gives one of the client's addresses, and no other.
LEMMA ReflectOf ==
  ASSUME NEW kind, kind \in Responses, NEW c, NEW s, s = reflect(kind, c)
  PROVE  s \in Seq({c.src, c.edns}) /\ s # <<>>
<1> DEFINE S == {c.src, c.edns}
           ecs == c.edns # Zero
           i == IF kind \in {"both", "dns"} \/ (kind = "best" /\ ~ecs) THEN <<c.src>> ELSE <<>>
           j == IF ecs /\ kind # "dns" THEN <<c.edns>> ELSE <<>>
           k == IF ~ecs /\ kind = "edns" THEN <<Zero>> ELSE <<>>
<1>1. s = (i \o j) \o k BY DEF reflect
<1>2. /\ i \in Seq(S) /\ j \in Seq(S) /\ k \in Seq(S)
      /\ i # <<>> \/ j # <<>> \/ k # <<>>
  <2>1. c.src \in S /\ c.edns \in S OBVIOUS
  <2> HIDE DEF S
  <2>2. \A e \in S : <<e>> \in Seq(S) /\ <<e>> # <<>> OBVIOUS
  <2>3. <<>> \in Seq(S) OBVIOUS
  <2>4. i \in Seq(S) BY <2>1, <2>2, <2>3, Zenon
  <2>5. j \in Seq(S) BY <2>1, <2>2, <2>3, Zenon
  <2>6. CASE ecs
    <3>1. k = <<>> BY <2>6
    <3>2. kind = "dns" => i = <<c.src>> OBVIOUS
    <3>3. kind # "dns" => j = <<c.edns>> BY <2>6
    <3> HIDE DEF i, j, k
    <3> QED BY <2>1, <2>2, <2>3, <2>4, <2>5, <3>1, <3>2, <3>3
  <2>7. CASE ~ecs
    <3>1. kind = "edns" => k = <<c.edns>> BY <2>7
    <3>2. kind # "edns" => i = <<c.src>> /\ k = <<>> BY <2>7 DEF Responses
    <3> HIDE DEF i, j, k
    <3> QED BY <2>1, <2>2, <2>3, <2>4, <2>5, <3>1, <3>2
  <2> QED BY <2>6, <2>7
<1> HIDE DEF i, j, k, S
<1>3. (i \o j) \o k \in Seq(S) /\ (i \o j) \o k # <<>>
  <2>1. Len(i) \in Nat /\ Len(j) \in Nat /\ Len(k) \in Nat /\ (Len(i) > 0 \/ Len(j) > 0 \/ Len(k) > 0)
    BY <1>2
  <2>2. i \o j \in Seq(S) /\ Len(i \o j) = Len(i) + Len(j) BY <1>2, Concatenation
  <2>3. (i \o j) \o k \in Seq(S) /\ Len((i \o j) \o k) = Len(i \o j) + Len(k) BY <1>2, <2>2, Concatenation
  <2>4. Len((i \o j) \o k) > 0 BY <2>1, <2>2, <2>3
  <2> DEFINE a == (i \o j) \o k
  <2>5. a \in Seq(S) /\ Len(a) > 0 BY <2>3, <2>4
  <2> HIDE DEF a
  <2>6. a # <<>> BY <2>5
  <2> QED BY <2>3, <2>6 DEF a
<1> QED BY <1>1, <1>3 DEF S

\* Whichever family an address has, it is in the result and nothing else is.
LEMMA AddedRange ==
  ASSUME NEW x, DOMAIN x = Fields, NEW E, NEW addrs \in Seq(E), addrs # <<>>, x.v4 = <<>>, x.v6 = <<>>,
         NEW y, y = add_result_anysin(x, addrs)
  PROVE  /\ Range(y.v4) \cup Range(y.v6) \subseteq E /\ Range(y.v4) \cup Range(y.v6) # {}
         /\ y.v4 \in Seq(E) /\ y.v6 \in Seq(E) /\ y.v4 \o y.v6 # <<>>
<1> DEFINE R == Range(addrs) \ V6
           a == Kept(addrs, R)
           b == Kept(addrs, V6)
           c == x.v4 \o a
           d == x.v6 \o b
<1>1. y = [x EXCEPT !.v4 = c, !.v6 = d] BY DEF add_result_anysin
<1>2. Len(addrs) \in Nat /\ DOMAIN addrs = 1..Len(addrs) /\ 1 \in 1..Len(addrs) /\ addrs[1] \in E OBVIOUS
<1>3. Range(addrs) \subseteq E BY <1>2 DEF Range
<1>4. addrs[1] \in R \/ addrs[1] \in V6 BY <1>2 DEF Range
<1> HIDE DEF R
<1>5. a \in Seq(Range(addrs) \cap R) /\ (addrs[1] \in R => \E m \in 1..Len(a) : a[m] = addrs[1])
  BY <1>2, KeptOf
<1>6. b \in Seq(Range(addrs) \cap V6) /\ (addrs[1] \in V6 => \E m \in 1..Len(b) : b[m] = addrs[1])
  BY <1>2, KeptOf
<1> HIDE DEF a, b
<1>7. a \in Seq(E) /\ b \in Seq(E) BY <1>3, <1>5, <1>6
<1>8. c = a /\ d = b BY <1>7
<1> HIDE DEF c, d
<1>9. y.v4 = a /\ y.v6 = b BY <1>1, <1>8 DEF Fields
<1>10. Range(a) \cup Range(b) \subseteq E BY <1>7 DEF Range
<1>11. Range(a) \cup Range(b) # {}
  <2>1. DOMAIN a = 1..Len(a) /\ DOMAIN b = 1..Len(b) BY <1>7
  <2> QED BY <1>4, <1>5, <1>6, <2>1 DEF Range
<1>12. a \o b # <<>>
  <2>1. Len(a) > 0 \/ Len(b) > 0 BY <1>4, <1>5, <1>6, <1>7
  <2>2. a \o b \in Seq(E) /\ Len(a \o b) = Len(a) + Len(b) /\ Len(a) \in Nat /\ Len(b) \in Nat
    BY <1>7, Concatenation
  <2> QED BY <2>1, <2>2
<1> QED BY <1>7, <1>9, <1>10, <1>11, <1>12

\* The client's own addresses.
LEMMA ReflectKeeps ==
  ASSUME NEW CONSTANT N, Formed(N), IInv, JInv, Reflect
  PROVE  JInv' /\ (Assertions => Assertions')
<1> DEFINE z(c) == [r EXCEPT !.client = {c.src, c.edns}]
           kind == response(Dc.resname)
           x(c) == add_result_anysin(z(c), reflect(kind, c))
           b(c) == x(c).bad \/ r.v4 \o r.v6 # <<>> \/ x(c).v4 \o x(c).v6 = <<>>
<1>1. /\ pc = "read" /\ pc' = "return" /\ UNCHANGED <<res, was>>
      /\ res.dcs[r.dc].plugin = "reflect"
  BY DEF Reflect, Dc
<1>2. PICK c \in Clients : r' = [x(c) EXCEPT !.bad = b(c)] BY Zenon DEF Reflect
<1>3. r.dc \in Answering(res) BY <1>1 DEF IInv, Reading
<1>4. DOMAIN r = Fields /\ Tried(res, was, r) /\ r.v4 = <<>> /\ r.v6 = <<>>
  BY <1>1 DEF IInv, JInv, Gathering
<1>5. kind \in Responses BY <1>1, <1>3 DEF Answering, AnswersDyna, Dc
<1> DEFINE E == {c.src, c.edns}
           s == reflect(kind, c)
<1>6. s \in Seq(E) /\ s # <<>> BY <1>5, ReflectOf
<1>7. /\ DOMAIN z(c) = Fields /\ z(c).client = E /\ z(c).v4 = <<>> /\ z(c).v6 = <<>>
      /\ \A k \in Fields \ {"client"} : z(c)[k] = r[k]
  BY <1>4 DEF Fields
<1>8. x(c) = add_result_anysin(z(c), s) OBVIOUS
<1> HIDE DEF z, s, E
<1>9. DOMAIN x(c) = Fields /\ \A k \in Fields \ {"v4", "v6"} : x(c)[k] = z(c)[k] BY <1>7, <1>8, Added
<1> DEFINE y == x(c)
<1>10. y = add_result_anysin(z(c), s) BY <1>8
<1>11. r' = [y EXCEPT !.bad = b(c)] /\ (b(c) <=> y.bad \/ r.v4 \o r.v6 # <<>> \/ y.v4 \o y.v6 = <<>>)
  BY <1>2
<1>12. /\ DOMAIN y = Fields /\ y.dc = r.dc /\ y.out = r.out /\ y.rv = r.rv /\ y.all = r.all
       /\ y.list = r.list /\ y.retry = r.retry /\ y.bad = r.bad /\ y.client = E
  BY <1>7, <1>9 DEF Fields
<1> HIDE DEF y, b, x
<1>13. /\ Range(y.v4) \cup Range(y.v6) \subseteq E /\ Range(y.v4) \cup Range(y.v6) # {}
       /\ y.v4 \o y.v6 # <<>>
  BY <1>6, <1>7, <1>10, AddedRange
<1>14. r.v4 \o r.v6 = <<>> BY <1>4
<1>15. b(c) <=> r.bad BY <1>11, <1>12, <1>13, <1>14
<1>16. /\ r'.dc = y.dc /\ r'.out = y.out /\ r'.rv = y.rv /\ r'.all = y.all /\ r'.list = y.list
       /\ r'.retry = y.retry /\ r'.client = y.client /\ r'.v4 = y.v4 /\ r'.v6 = y.v6
  BY <1>11, <1>12 DEF Fields
<1>17. r'.bad <=> b(c) BY <1>11, <1>12 DEF Fields
<1>18. Tried(res, was, r') BY <1>4, <1>12, <1>16 DEF Tried
<1>19. Gathered(res, was, r') BY <1>1, <1>12, <1>13, <1>16 DEF Gathered
<1>20. JInv' BY <1>1, <1>18, <1>19 DEF JInv
<1> QED BY <1>15, <1>17, <1>20 DEF Assertions

\* The result of one family, and the other one or the end.
LEMMA EndFamilyKeeps ==
  ASSUME NEW CONSTANT N, Formed(N), IInv, JInv, EndFamily
  PROVE  JInv' /\ (Assertions => Assertions')
<1> DEFINE set == res.dcs[r.dc][r.fam]
           plugin == res.dcs[r.dc].plugin
           X(o) == add_result_anysin([r EXCEPT !.rv = @ /\ o.rv, !.cut = @ \/ o.cut], o.addrs)
           Y(o) == [X(o) EXCEPT !.bad = @ \/ X(o)[r.fam] = <<>> \/ Len(X(o)[r.fam]) > MaxAddrs]
           more == r.fam = "v4" /\ res.dcs[r.dc].v6.items # <<>>
           Final(y) == [y EXCEPT !.ttl = IF y.cut THEN @ \div 2 ELSE @, !.todo = <<>>, !.seen = <<>>]
<1>1. /\ pc = "read" /\ r.todo = <<>> /\ plugin # "reflect" /\ UNCHANGED <<res, was>>
      /\ plugin = "simplefo" /\ ~r.sec => r.seen[set.items[1][1].addr] # DOWN
  BY DEF EndFamily, Dc, NeedsSecondary
<1>2. PICK o \in Results(plugin, set, r.seen) :
        IF more THEN r' = Start(Y(o), "v6") /\ UNCHANGED pc ELSE r' = Final(Y(o)) /\ pc' = "return"
  BY Zenon DEF EndFamily, Dc
<1>3. r.dc \in Answering(res) /\ r.fam \in {"v4", "v6"} /\ set.items # <<>>
  BY <1>1 DEF IInv, Reading
<1>4. /\ DOMAIN r = Fields /\ res \in Resources /\ make_resource(res)
      /\ Tried(res, was, r) /\ Gathering(res, was, r)
  BY <1>1 DEF IInv, JInv
<1>5. r.dc \in DOMAIN res.dcs /\ plugin # "cname" BY <1>1, <1>3 DEF Answering, AnswersDyna
<1>6. /\ set.items \in Seq(Seq(Address(N)))
      /\ plugin \notin Monitors => WordsOf(set) = {}
      /\ plugin = "simplefo" => simplefo_config(set, r.fam)
      /\ WordsOf(set) \subseteq SetWords(res, r.dc)
  BY <1>3, <1>4, <1>5, SetIs
<1>7. Resulting(plugin, set, r.seen, o) BY <1>1, <1>2, <1>3, <1>4, ResultsAnswer
<1>8. OfFamily(set, r.fam)
  <2>1. plugin \in Plugins BY <1>3, <1>4, <1>5, ConfiguredSet
  <2>2. plugin \in Monitors \cup {"static", "null"} BY <1>1, <1>5, <2>1 DEF Plugins
  <2>3. \A m \in NamesOf(set) : m \in V6 <=> r.fam = "v6" BY <1>3, <1>4, <1>5, <2>2, FamilyNames
  <2> QED BY <2>3 DEF OfFamily
<1>9. Sees(plugin, set, was, r.sec, r.seen, <<>>) BY <1>1, <1>4 DEF Gathering, Noticed
<1>10. r.v6 = <<>> /\ (r.fam = "v4" => r.v4 = <<>>) /\ (r.fam = "v6" => Served(res, was, r, "v4"))
  BY <1>1, <1>4 DEF Gathering
<1>11. plugin = res.dcs[r.dc].plugin /\ set = res.dcs[r.dc][r.fam] OBVIOUS
<1> HIDE DEF set, plugin
<1>12. Sufficient(plugin, set, r.sec, r.seen)
  <2>1. plugin = "simplefo" /\ Distinct(set) => set.items[1][1].addr # set.items[2][1].addr BY <1>6, SimplefoReads
  <2> QED BY <1>1, <2>1 DEF Sufficient
<1>13. /\ Gives(plugin, set, r.fam, was, o.rv, o.addrs)
       /\ ~o.rv => \E w \in WordsOf(set) : DOWN \in was[w]
  <2>1. Makes(plugin, set, r.fam, was, o) BY <1>6, <1>7, <1>8, <1>9, <1>12, GivesAnswer
  <2> QED BY <2>1 DEF Makes
<1>14. ~o.rv => Failing(res, was, r.dc) BY <1>6, <1>13 DEF Failing
<1>15. PICK F : r.v4 \in Seq(F)
  <2>1. CASE r.fam = "v4"
    <3>1. <<>> \in Seq({}) OBVIOUS
    <3> QED BY <1>10, <2>1, <3>1
  <2>2. CASE r.fam = "v6"
    <3>1. r["v4"] \in Seq(NamesOf(res.dcs[r.dc]["v4"])) BY <1>10, <2>2 DEF Served, Gives
    <3> QED BY <3>1
  <2> QED BY <1>3, <2>1, <2>2
<1>16. /\ o.addrs \in Seq(NamesOf(set)) /\ Len(o.addrs) \in 1..MaxAddrs
       /\ \A a \in Range(o.addrs) : a \in V6 <=> r.fam = "v6"
  <2>1. o.addrs \in Seq(NamesOf(set)) /\ Len(o.addrs) \in 1..MaxAddrs BY <1>7 DEF Answer, Resulting
  <2>2. \A a \in Range(o.addrs) : a \in V6 <=> r.fam = "v6" BY <1>13 DEF Gives
  <2> QED BY <2>1, <2>2
<1>17. PICK y : /\ y = Y(o) /\ DOMAIN y = Fields
                /\ (y.rv <=> r.rv /\ o.rv) /\ (y.bad <=> r.bad)
                /\ y.dc = r.dc /\ y.out = r.out /\ y.list = r.list /\ y.all = r.all /\ y.retry = r.retry
                /\ (r.fam = "v4" => y.v4 = o.addrs /\ y.v6 = <<>>)
                /\ (r.fam = "v6" => y.v4 = r.v4 /\ y.v6 = o.addrs)
  <2> DEFINE z == [r EXCEPT !.rv = @ /\ o.rv, !.cut = @ \/ o.cut]
             x == add_result_anysin(z, o.addrs)
             b == x.bad \/ x[r.fam] = <<>> \/ Len(x[r.fam]) > MaxAddrs
             y == [x EXCEPT !.bad = b]
  <2>1. /\ DOMAIN z = Fields
        /\ z.dc = r.dc /\ z.out = r.out /\ z.list = r.list /\ z.all = r.all /\ z.retry = r.retry
        /\ z.bad = r.bad /\ z.v4 = r.v4 /\ z.v6 = r.v6
    BY <1>4 DEF Fields
  <2>2. z.rv <=> r.rv /\ o.rv BY <1>4 DEF Fields
  <2>3. y = Y(o) BY Zenon
  <2> HIDE DEF z
  <2>4. DOMAIN x = Fields /\ \A k \in Fields \ {"v4", "v6"} : x[k] = z[k] BY <2>1, Added
  <2>5. x = add_result_anysin(z, o.addrs) OBVIOUS
  <2> HIDE DEF x, b, Y
  <2>6. /\ x[r.fam] = o.addrs
        /\ r.fam = "v4" => x.v4 = o.addrs /\ x.v6 = <<>>
        /\ r.fam = "v6" => x.v4 = z.v4 /\ x.v6 = o.addrs
    BY <1>3, <1>10, <1>15, <1>16, <2>1, <2>5, AddedTo
  <2>7. /\ x.dc = z.dc /\ x.out = z.out /\ x.list = z.list /\ x.all = z.all /\ x.retry = z.retry
        /\ x.bad = z.bad /\ x.rv = z.rv
    BY <2>4 DEF Fields
  <2>8. o.addrs # <<>> /\ ~(Len(o.addrs) > MaxAddrs)
    <3> DEFINE s == o.addrs
               S == NamesOf(set)
    <3>1. s \in Seq(S) /\ Len(s) \in 1..MaxAddrs BY <1>16
    <3> HIDE DEF s, S
    <3>2. s # <<>> /\ ~(Len(s) > MaxAddrs) BY <3>1, ResolversAssumption
    <3> QED BY <3>2 DEF s
  <2>9. b <=> x.bad BY <2>6, <2>8 DEF b
  <2>10. /\ DOMAIN y = Fields /\ y.dc = x.dc /\ y.out = x.out /\ y.list = x.list /\ y.all = x.all
         /\ y.retry = x.retry /\ y.rv = x.rv /\ y.v4 = x.v4 /\ y.v6 = x.v6
    BY <2>4 DEF Fields
  <2>11. y.bad <=> b BY <2>4 DEF Fields
  <2> HIDE DEF y
  <2>12. y.rv <=> r.rv /\ o.rv BY <2>2, <2>7, <2>10
  <2>13. y.bad <=> r.bad BY <2>1, <2>7, <2>9, <2>11
  <2> QED BY <2>1, <2>3, <2>6, <2>7, <2>10, <2>12, <2>13
<1> HIDE DEF X, Y
<1>18. Gives(plugin, set, r.fam, was, y.rv, o.addrs)
  <2>1. y.rv => o.rv BY <1>17
  <2> QED BY <1>13, <2>1, GivesLess
<1>19. Tried(res, was, y)
  <2>1. ~y.rv => Failing(res, was, y.dc) BY <1>4, <1>14, <1>17 DEF Tried
  <2> QED BY <1>4, <1>17, <2>1 DEF Tried
<1>20. Served(res, was, y, "v4")
  <2>1. CASE r.fam = "v4"
    <3>1. y["v4"] = o.addrs BY <1>17, <2>1
    <3>2. Gives(plugin, set, "v4", was, y.rv, y["v4"]) BY <1>18, <2>1, <3>1
    <3>3. res.dcs[y.dc].plugin = plugin /\ res.dcs[y.dc]["v4"] = set BY <1>11, <1>17, <2>1
    <3> QED BY <3>2, <3>3 DEF Served
  <2>2. CASE r.fam = "v6"
    <3>1. y["v4"] = r["v4"] /\ y.dc = r.dc /\ (y.rv => r.rv) BY <1>17, <2>2
    <3>2. Gives(res.dcs[r.dc].plugin, res.dcs[r.dc]["v4"], "v4", was, r.rv, r["v4"])
      BY <1>10, <2>2 DEF Served
    <3>3. Gives(res.dcs[r.dc].plugin, res.dcs[r.dc]["v4"], "v4", was, y.rv, r["v4"])
      BY <3>1, <3>2, GivesLess
    <3> QED BY <3>1, <3>3 DEF Served
  <2> QED BY <1>3, <2>1, <2>2
<1>21. Served(res, was, y, "v6")
  <2>1. CASE r.fam = "v4"
    <3>1. y["v6"] = <<>> BY <1>17, <2>1
    <3>2. Gives(res.dcs[y.dc].plugin, res.dcs[y.dc]["v6"], "v6", was, y.rv, <<>>) BY GivesNothing
    <3> QED BY <3>1, <3>2 DEF Served
  <2>2. CASE r.fam = "v6"
    <3>1. y["v6"] = o.addrs BY <1>17, <2>2
    <3>2. Gives(plugin, set, "v6", was, y.rv, y["v6"]) BY <1>18, <2>2, <3>1
    <3>3. res.dcs[y.dc].plugin = plugin /\ res.dcs[y.dc]["v6"] = set BY <1>11, <1>17, <2>2
    <3> QED BY <3>2, <3>3 DEF Served
  <2> QED BY <1>3, <2>1, <2>2
<1>22. CASE more
  <2>1. r' = Start(y, "v6") /\ pc' = pc BY <1>2, <1>17, <1>22
  <2>2. Started(y, "v6", r') BY <1>17, <2>1, StartIs
  <2>3. res.dcs[y.dc]["v6"].items # <<>> BY <1>17, <1>22
  <2>4. /\ r'.fam = "v6" /\ ~r'.sec
        /\ r'.todo = FirstReads(res.dcs[y.dc].plugin, res.dcs[y.dc]["v6"])
        /\ r'.seen = AllUp(res.dcs[y.dc]["v6"])
    BY <2>2 DEF Started
  <2>5. /\ r'.dc = y.dc /\ r'.v4 = y.v4 /\ r'.v6 = y.v6 /\ r'.rv = y.rv /\ r'.out = y.out
        /\ r'.list = y.list /\ r'.all = y.all /\ r'.retry = y.retry /\ r'.bad = y.bad
    BY <2>2 DEF Started, Fields
  <2>6. y.dc \in Answering(res) BY <1>3, <1>17
  <2>7. Noticed(res, was, r') BY <1>4, <2>3, <2>4, <2>5, <2>6, BeginsToSee
  <2>8. r'["v4"] = y["v4"] BY <2>5
  <2>9. Served(res, was, r', "v4") BY <1>20, <2>5, <2>8 DEF Served
  <2>10. r'.v6 = <<>> BY <1>17, <1>22, <2>5
  <2>11. res.dcs[r'.dc].plugin # "reflect" BY <1>1, <1>11, <1>17, <2>5
  <2>12. Gathering(res, was, r') BY <2>4, <2>7, <2>9, <2>10, <2>11 DEF Gathering
  <2>13. Tried(res, was, r') BY <1>19, <2>5 DEF Tried
  <2>14. JInv' BY <1>1, <2>1, <2>12, <2>13 DEF JInv
  <2>15. Assertions => Assertions' BY <1>17, <2>5 DEF Assertions
  <2> QED BY <2>14, <2>15
<1>23. CASE ~more
  <2> DEFINE ttl == IF y.cut THEN y.ttl \div 2 ELSE y.ttl
  <2>1. pc' = "return" /\ r' = [y EXCEPT !.ttl = ttl, !.todo = <<>>, !.seen = <<>>]
    BY <1>2, <1>17, <1>23
  <2> HIDE DEF ttl
  <2>2. /\ r'.dc = y.dc /\ r'.v4 = y.v4 /\ r'.v6 = y.v6 /\ r'.rv = y.rv /\ r'.out = y.out
        /\ r'.list = y.list /\ r'.all = y.all /\ r'.retry = y.retry /\ r'.bad = y.bad
    BY <1>17, <2>1 DEF Fields
  <2>3. r'["v4"] = y["v4"] /\ r'["v6"] = y["v6"] BY <2>2
  <2>4. Served(res, was, r', "v4") /\ Served(res, was, r', "v6") BY <1>20, <1>21, <2>2, <2>3 DEF Served
  <2>5. res.dcs[r'.dc].plugin # "reflect" BY <1>1, <1>11, <1>17, <2>2
  <2>6. Gathered(res, was, r') BY <2>4, <2>5 DEF Gathered
  <2>7. Tried(res, was, r') BY <1>19, <2>2 DEF Tried
  <2>8. JInv' BY <1>1, <2>1, <2>6, <2>7 DEF JInv
  <2>9. Assertions => Assertions' BY <1>17, <2>2 DEF Assertions
  <2> QED BY <2>8, <2>9
<1> QED BY <1>22, <1>23

\* No address twice: as many addresses as elements.
LEMMA InjectiveCardinality ==
  ASSUME NEW S, NEW s \in Seq(S), IsInjective(s)
  PROVE  IsFiniteSet(Range(s)) /\ Cardinality(Range(s)) = Len(s)
<1> DEFINE n == Len(s)
<1>1. n \in Nat /\ DOMAIN s = 1..n /\ s = [i \in 1..n |-> s[i]] OBVIOUS
<1> HIDE DEF n
<1>2. s \in [1..n -> Range(s)] BY <1>1 DEF Range
<1>3. s \in Injection(1..n, Range(s)) BY <1>2 DEF Injection
<1>4. s \in Surjection(1..n, Range(s)) BY <1>1, <1>2 DEF Surjection, Range
<1>5. ExistsBijection(1..n, Range(s)) BY <1>3, <1>4 DEF ExistsBijection, Bijection
<1>6. IsFiniteSet(Range(s)) BY <1>1, <1>5, FS_NatBijection
<1>7. Cardinality(Range(s)) = n BY <1>1, <1>5, FS_CountingElements
<1> QED BY <1>6, <1>7 DEF n

\* Nor is an address in two sequences that have nothing in common.
LEMMA DisjointCardinality ==
  ASSUME NEW S, NEW s \in Seq(S), IsInjective(s), NEW T, NEW t \in Seq(T), IsInjective(t),
         Range(s) \cap Range(t) = {}
  PROVE  Cardinality(Range(s) \cup Range(t)) = Len(s) + Len(t)
<1>1. IsFiniteSet(Range(s)) /\ Cardinality(Range(s)) = Len(s) BY InjectiveCardinality
<1>2. IsFiniteSet(Range(t)) /\ Cardinality(Range(t)) = Len(t) BY InjectiveCardinality
<1>3. Cardinality(Range(s) \cap Range(t)) = 0 BY FS_EmptySet
<1>4. Cardinality(Range(s) \cup Range(t)) =
        Cardinality(Range(s)) + Cardinality(Range(t)) - Cardinality(Range(s) \cap Range(t))
  BY <1>1, <1>2, FS_Union
<1>5. Len(s) \in Nat /\ Len(t) \in Nat OBVIOUS
<1> QED BY <1>1, <1>2, <1>3, <1>4, <1>5

\* An address is its entry in the set.
LEMMA DistinctEntries ==
  ASSUME NEW N, NEW set, set.items \in Seq(Seq(Address(N))), Distinct(set),
         NEW b \in Range(Addrs(set)), NEW c \in Range(Addrs(set)), b.addr = c.addr
  PROVE  b = c
<1> DEFINE F == FlattenSeq(set.items)
           items == set.items
<1>1. F \in Seq(Address(N)) BY FlattenSeqOf
<1>2. \A m \in 1..Len(F) : \E i \in 1..Len(items) : \E a \in 1..Len(items[i]) : F[m] = items[i][a]
  BY FlattenSeqFrom
<1>3. Addrs(set) = F BY DEF Addrs
<1> HIDE DEF F
<1>4. \A e \in Range(F) : \E i \in DOMAIN items : \E a \in DOMAIN items[i] : e = items[i][a]
  <2>1. DOMAIN F = 1..Len(F) BY <1>1
  <2>2. DOMAIN items = 1..Len(items) /\ \A i \in 1..Len(items) : DOMAIN items[i] = 1..Len(items[i])
    OBVIOUS
  <2> SUFFICES ASSUME NEW e \in Range(F)
               PROVE  \E i \in DOMAIN items : \E a \in DOMAIN items[i] : e = items[i][a]
    OBVIOUS
  <2>3. PICK m \in 1..Len(F) : e = F[m] BY <2>1 DEF Range
  <2>4. PICK i \in 1..Len(items) : \E a \in 1..Len(items[i]) : F[m] = items[i][a] BY <1>2
  <2>5. PICK a \in 1..Len(items[i]) : F[m] = items[i][a] BY <2>4
  <2>6. i \in DOMAIN items /\ a \in DOMAIN items[i] BY <2>2
  <2> QED BY <2>3, <2>5, <2>6
<1>5. PICK i \in DOMAIN items : \E a \in DOMAIN items[i] : b = items[i][a] BY <1>3, <1>4
<1>6. PICK a \in DOMAIN items[i] : b = items[i][a] BY <1>5
<1>7. PICK j \in DOMAIN items : \E e \in DOMAIN items[j] : c = items[j][e] BY <1>3, <1>4
<1>8. PICK e \in DOMAIN items[j] : c = items[j][e] BY <1>7
<1>9. i = j /\ a = e BY <1>6, <1>8 DEF Distinct
<1> QED BY <1>6, <1>8, <1>9

\* No address set of the resources gives an address twice.
LEMMA DistinctSet ==
  ASSUME Distincts, NEW x \in Resources, NEW d \in DOMAIN x.dcs, NEW fam \in {"v4", "v6"}
  PROVE  Distinct(x.dcs[d][fam])
<1>1. DistinctAddrs(x) BY DEF Distincts
<1> QED BY <1>1 DEF DistinctAddrs

\* The addresses of a family are the set's, each once, and the families differ.
LEMMA OneDatacenterHolds ==
  ASSUME NEW CONSTANT N, Formed(N), Distincts, IInv, JInv
  PROVE  OneDatacenter
<1> SUFFICES ASSUME pc = "done", r.dc # 0
             PROVE  /\ IF res.dcs[r.dc].plugin = "reflect" THEN Given \subseteq r.client /\ Given # {}
                       ELSE /\ Range(r.v4) \subseteq NamesOf(res.dcs[r.dc].v4)
                            /\ Range(r.v6) \subseteq NamesOf(res.dcs[r.dc].v6)
                            /\ Cardinality(Given) = Len(r.v4) + Len(r.v6)
                    /\ r.out \/ r.dc = r.all[1]
  BY DEF OneDatacenter
<1> DEFINE v4 == r.v4
           v6 == r.v6
           S4 == NamesOf(res.dcs[r.dc].v4)
           S6 == NamesOf(res.dcs[r.dc].v6)
<1>1. Given = Range(v4) \cup Range(v6) BY DEF Given
<1>2. \A S, s : s \in Seq(S) => Range(s) \subseteq S
  <2> SUFFICES ASSUME NEW S, NEW s \in Seq(S) PROVE Range(s) \subseteq S OBVIOUS
  <2>1. DOMAIN s = 1..Len(s) /\ \A i \in 1..Len(s) : s[i] \in S OBVIOUS
  <2> QED BY <2>1 DEF Range
<1>3. ASSUME v4 \in Seq(S4), v6 \in Seq(S6), IsInjective(v4), IsInjective(v6), Range(v4) \cap Range(v6) = {}
      PROVE  /\ Range(v4) \subseteq S4 /\ Range(v6) \subseteq S6
             /\ Cardinality(Given) = Len(v4) + Len(v6)
  <2> HIDE DEF v4, v6, S4, S6
  <2>1. Range(v4) \subseteq S4 /\ Range(v6) \subseteq S6 BY <1>2, <1>3
  <2>2. Cardinality(Range(v4) \cup Range(v6)) = Len(v4) + Len(v6) BY <1>3, DisjointCardinality
  <2> QED BY <1>1, <2>1, <2>2
<1>4. CASE r.cname # {}
  <2>1. r.out /\ v4 = <<>> /\ v6 = <<>> /\ res.dcs[r.dc].plugin # "reflect" BY <1>4 DEF JInv
  <2>2. <<>> \in Seq(S4) /\ <<>> \in Seq(S6) /\ IsInjective(<<>>) /\ Range(<<>>) = {}
    BY DEF IsInjective, Range
  <2>3. /\ Range(v4) \subseteq S4 /\ Range(v6) \subseteq S6 /\ Cardinality(Given) = Len(v4) + Len(v6)
    BY <1>3, <2>1, <2>2
  <2> QED BY <2>1, <2>3
<1>5. CASE r.cname = {}
  <2>1. Settled(res, was, r) /\ Gathered(res, was, r) BY <1>5 DEF JInv
  <2>2. r.out \/ r.dc = r.all[1] BY <2>1 DEF Settled
  <2>3. CASE res.dcs[r.dc].plugin = "reflect"
    <3>1. Given \subseteq r.client /\ Given # {} BY <1>1, <2>1, <2>3 DEF Gathered
    <3> QED BY <2>2, <2>3, <3>1
  <2>4. CASE res.dcs[r.dc].plugin # "reflect"
    <3>1. Served(res, was, r, "v4") /\ Served(res, was, r, "v6") BY <2>1, <2>4 DEF Gathered
    <3>6. Distinct(res.dcs[r.dc]["v4"]) /\ Distinct(res.dcs[r.dc]["v6"])
      <4>1. res \in Resources /\ r.dc \in DOMAIN res.dcs BY <1>5 DEF IInv, Ended, Answering
      <4> QED BY <4>1, DistinctSet
    <3>2. v4 \in Seq(S4) /\ IsInjective(v4) /\ \A a \in Range(v4) : a \notin V6
      BY <3>1, <3>6 DEF Served, Gives
    <3>3. v6 \in Seq(S6) /\ IsInjective(v6) /\ \A a \in Range(v6) : a \in V6
      BY <3>1, <3>6 DEF Served, Gives
    <3>4. Range(v4) \cap Range(v6) = {} BY <3>2, <3>3
    <3>5. /\ Range(v4) \subseteq S4 /\ Range(v6) \subseteq S6 /\ Cardinality(Given) = Len(v4) + Len(v6)
      BY <1>3, <3>2, <3>3, <3>4
    <3> QED BY <2>2, <2>4, <3>5
  <2> QED BY <2>3, <2>4
<1> QED BY <1>4, <1>5

\* What Settled and Gives say at the end, in the words of the property.
LEMMA FailoverJustifiedHolds ==
  ASSUME NEW CONSTANT N, Formed(N), Distincts, IInv, JInv
  PROVE  FailoverJustified
<1> SUFFICES ASSUME pc = "done", r.dc # 0, r.cname = {}
             PROVE  /\ \A fam \in {"v4", "v6"} : \A a \in Range(Addrs(res.dcs[r.dc][fam])) :
                         r.out /\ a.addr \in Given /\ (\E w \in Range(a.words) : was[w] = {DOWN}) =>
                           /\ res.dcs[r.dc].plugin = "weighted"
                           /\ \A b \in Range(Addrs(res.dcs[r.dc][fam])) : \E w \in Range(b.words) : DOWN \in was[w]
                    /\ \A k \in DOMAIN r.all :
                         ~r.out \/ (\A j \in 1 .. k : r.all[j] # r.dc) => \E w \in DcWords(r.all[k]) : DOWN \in was[w]
  BY DEF FailoverJustified
<1>1. Lists(res, r) /\ Settled(res, was, r) /\ Gathered(res, was, r) BY DEF JInv
<1>2. res \in Resources /\ make_resource(res) /\ r.dc \in Answering(res) BY DEF IInv, Ended
<1>3. r.dc \in DOMAIN res.dcs BY <1>2 DEF Answering
<1>4. PICK n \in 1..Len(r.all) :
        /\ r.dc = r.all[n] /\ \A k \in 1..(n - 1) : Failing(res, was, r.all[k])
        /\ r.out => r.rv
        /\ ~r.out => n = 1 /\ \A k \in 1..Len(r.all) : Failing(res, was, r.all[k])
  BY <1>1, Zenon DEF Settled
<1>5. ASSUME NEW k \in DOMAIN r.all, ~r.out \/ (\A j \in 1..k : r.all[j] # r.dc)
      PROVE  \E w \in DcWords(r.all[k]) : DOWN \in was[w]
  <2>1. r.all \in Seq(Answering(res)) BY <1>1 DEF Lists
  <2>2. Len(r.all) \in Nat /\ DOMAIN r.all = 1..Len(r.all) BY <2>1
  <2>3. Failing(res, was, r.all[k])
    <3>1. CASE ~r.out BY <1>4, <2>2, <3>1
    <3>2. CASE r.out
      <4>1. \A j \in 1..k : r.all[j] # r.dc BY <1>5, <3>2
      <4>2. ~(n \in 1..k) BY <1>4, <4>1
      <4>3. k \in 1..(n - 1) BY <2>2, <4>2
      <4> QED BY <1>4, <4>3
    <3> QED BY <3>1, <3>2
  <2>4. DcWords(r.all[k]) = SetWords(res, r.all[k]) BY DEF DcWords, SetWords
  <2> QED BY <2>3, <2>4 DEF Failing
<1>6. ASSUME NEW fam \in {"v4", "v6"}, NEW a \in Range(Addrs(res.dcs[r.dc][fam])),
             r.out, a.addr \in Given, NEW w \in Range(a.words), was[w] = {DOWN}
      PROVE  /\ res.dcs[r.dc].plugin = "weighted"
             /\ \A b \in Range(Addrs(res.dcs[r.dc][fam])) : \E u \in Range(b.words) : DOWN \in was[u]
  <2> DEFINE set == res.dcs[r.dc][fam]
             plugin == res.dcs[r.dc].plugin
  <2>1. /\ set.items \in Seq(Seq(Address(N))) /\ Distinct(set)
        /\ plugin \notin Monitors => WordsOf(set) = {}
    BY <1>2, <1>3, SetIs, DistinctSet
  <2>2. Serves(set, a.addr, w) BY DEF Serves
  <2>3. \A m \in NamesOf(set) : plugin \in Monitors => (m \in V6 <=> fam = "v6")
    BY <1>2, <1>3, FamilyNames
  <2>4. plugin \in Monitors => plugin # "reflect" BY DEF Monitors
  <2>5. plugin # "reflect" => Served(res, was, r, "v4") /\ Served(res, was, r, "v6") BY <1>1 DEF Gathered
  <2>6. Served(res, was, r, fam) => Gives(plugin, set, fam, was, r.rv, r[fam]) BY DEF Served
  <2>7. Served(res, was, r, "v4") => \A m \in Range(r.v4) : m \notin V6 BY DEF Served, Gives
  <2>8. Served(res, was, r, "v6") => \A m \in Range(r.v6) : m \in V6 BY DEF Served, Gives
  <2>9. \A b \in Range(Addrs(set)), c \in Range(Addrs(set)) : b.addr = c.addr => b = c
    <3> HIDE DEF set
    <3> QED BY <2>1, DistinctEntries
  <2>10. a \in Range(Addrs(set)) OBVIOUS
  <2> HIDE DEF set, plugin
  <2>11. a.addr \in NamesOf(set) /\ w \in WordsOf(set) BY <2>1, <2>2, ServesFrom
  <2>12. plugin \in Monitors /\ Served(res, was, r, "v4") /\ Served(res, was, r, "v6")
    BY <2>1, <2>4, <2>5, <2>11
  <2>13. a.addr \in Range(r[fam])
    <3>1. a.addr \in Range(r.v4) \/ a.addr \in Range(r.v6) BY <1>6 DEF Given
    <3>2. a.addr \in V6 <=> fam = "v6" BY <2>3, <2>11, <2>12
    <3>3. CASE fam = "v4" BY <2>8, <2>12, <3>1, <3>2, <3>3
    <3>4. CASE fam = "v6" BY <2>7, <2>12, <3>1, <3>2, <3>4
    <3> QED BY <3>3, <3>4
  <2>14. Gives(plugin, set, fam, was, r.rv, r[fam]) BY <2>6, <2>12
  <2>15. r.rv BY <1>4, <1>6
  <2>16. plugin = "weighted" /\ \A b \in NamesOf(set) : \E u \in WordsOf(set) : Serves(set, b, u) /\ DOWN \in was[u]
    BY <1>6, <2>1, <2>2, <2>11, <2>13, <2>14, <2>15 DEF Gives
  <2>17. ASSUME NEW b \in Range(Addrs(set)) PROVE \E u \in Range(b.words) : DOWN \in was[u]
    <3>1. b.addr \in NamesOf(set) BY DEF NamesOf, Range
    <3>2. PICK u : Serves(set, b.addr, u) /\ DOWN \in was[u] BY <2>16, <3>1
    <3>3. PICK c \in Range(Addrs(set)) : c.addr = b.addr /\ u \in Range(c.words) BY <3>2 DEF Serves
    <3>4. b = c BY <2>9, <3>3
    <3> QED BY <3>2, <3>3, <3>4
  <2> QED BY <2>16, <2>17 DEF set, plugin
<1> QED BY <1>5, <1>6

\* Every step keeps the invariant for the addresses, and the assertions.
LEMMA InitKeeps ==
  ASSUME Init
  PROVE  JInv /\ Assertions
<1>1. pc = "idle" /\ r = Nothing BY DEF Init
<1>2. ~Nothing.bad BY DEF Nothing
<1>3. JInv BY <1>1 DEF JInv
<1> QED BY <1>1, <1>2, <1>3 DEF Assertions

LEMMA NextKeeps ==
  ASSUME NEW CONSTANT N, Formed(N), IInv, JInv, [Next]_vars
  PROVE  JInv' /\ (NamedDyncs /\ Assertions => Assertions')
<1>1. CASE CB_RES_A BY <1>1, CB_RES_AKeeps
<1>2. CASE ReadState BY <1>2, ReadStateKeeps
<1>3. CASE ReadSecondary BY <1>3, ReadSecondaryKeeps
<1>4. CASE EndFamily BY <1>4, EndFamilyKeeps
<1>5. CASE Reflect BY <1>5, ReflectKeeps
<1>6. CASE Succeeded \/ AllFailed BY <1>6, DoneKeeps
<1>7. CASE NextDatacenter \/ FirstAgain BY <1>7, TryKeeps
<1>8. CASE CB_RES_C BY <1>8, CB_RES_CKeeps
<1>9. CASE Answered BY <1>9, AnsweredKeeps
<1>10. ASSUME NEW w \in Word, NEW s \in States, Store(w, s)
       PROVE  JInv' /\ (NamedDyncs /\ Assertions => Assertions')
  BY <1>10, StoreKeeps
<1>11. CASE UNCHANGED vars
  <2>1. UNCHANGED <<res, pc, r, was>> BY <1>11 DEF vars
  <2> QED BY <2>1 DEF JInv, Assertions
<1> QED BY <1>1, <1>2, <1>3, <1>4, <1>5, <1>6, <1>7, <1>8, <1>9, <1>10, <1>11 DEF Next

\* Whatever datacenters have been tried and whatever states have been stored
\* meanwhile, an answer has the addresses of one datacenter and each of them
\* once, and of the first one of the list if all have failed: for every
\* configuration the plugins accept in which no set names an address twice,
\* and every weight, random number and client.
THEOREM OneDatacenterAlways ==
  ASSUME NEW CONSTANT N, Formed(N), Distincts
  PROVE  Spec => []OneDatacenter
<1>1. Init => IInv /\ JInv BY InitHolds, InitKeeps
<1>2. IInv /\ JInv /\ [Next]_vars => IInv' /\ JInv' BY NextIInv, NextKeeps
<1>3. IInv /\ JInv => OneDatacenter BY OneDatacenterHolds
<1> QED BY <1>1, <1>2, <1>3, PTL DEF Spec

\* While a meta plugin tries one datacenter after the other and states are
\* stored meanwhile, no answer that succeeded has an address that was DOWN all
\* the time (weighted gives its addresses back if each had been DOWN), and a
\* datacenter is passed over only if one of its words was DOWN during the
\* query: for every configuration the plugins accept in which no set names an
\* address twice, and every weight, random number and threshold.
THEOREM FailoverJustifiedAlways ==
  ASSUME NEW CONSTANT N, Formed(N), Distincts
  PROVE  Spec => []FailoverJustified
<1>1. Init => IInv /\ JInv BY InitHolds, InitKeeps
<1>2. IInv /\ JInv /\ [Next]_vars => IInv' /\ JInv' BY NextIInv, NextKeeps
<1>3. IInv /\ JInv => FailoverJustified BY FailoverJustifiedHolds
<1> QED BY <1>1, <1>2, <1>3, PTL DEF Spec

\* No assertion of the resolve functions fails: a plugin is called with an
\* empty result, always gives an address and never more than fit, whatever has
\* been DOWN, for every configuration the plugins accept. A DYNC whose list of
\* datacenters is empty is excluded: nothing is at the index it is given.
THEOREM AssertionsAlways ==
  ASSUME NEW CONSTANT N, Formed(N), NamedDyncs
  PROVE  Spec => []Assertions
<1>1. Init => IInv /\ JInv /\ Assertions BY InitHolds, InitKeeps
<1>2. IInv /\ JInv /\ Assertions /\ [Next]_vars => IInv' /\ JInv' /\ Assertions' BY NextIInv, NextKeeps
<1> QED BY <1>1, <1>2, PTL DEF Spec
=============================================================================
