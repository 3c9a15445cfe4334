----------------------------- MODULE MCDnsPacket -----------------------------
(* DnsPacket over small zone files: a zone "z" that may hold CNAMEs into its  *)
(* subzone "s.z", dynamic records, a wildcard and a delegation "g.z" with two *)
(* nameservers, one of them with out-of-zone glue.  The records of "m.z" fill *)
(* a response beyond the reach of pointers.                                   *)
EXTENDS DnsPacket

z == <<"z">>
sz == <<"s", "z">>
In(l, d) == <<l>> \o d
Rec(zone, name, ty, rd) ==
    [zone |-> zone, name |-> name, type |-> ty, rd |-> rd, lim |-> 0, ok |-> TRUE]
Bad(r) == [r EXCEPT !.ok = FALSE]

MCZones == {z, sz}
MCRecords ==
    << Rec(z, z, "SOA", In("ns", z)),
       Rec(z, z, "NS", In("ns", z)),
       Rec(z, In("ns", z), "A", <<>>),
       [Rec(z, In("ns", z), "AAAA", <<>>) EXCEPT !.lim = 1],
       [Rec(z, In("ns", z), "AAAA", <<>>) EXCEPT !.lim = 1],
       Rec(z, In("m", z), "TXT", <<>>),
       Rec(z, In("m", z), "TXT", <<>>),
       Rec(z, In("m", z), "MX", In("a", z)),
       Rec(z, In("m", z), "SRV", In("e", In("ns", z))),
       Rec(z, In("m", z), "SRV", In("ns", z)),
       Rec(z, In("g", z), "NS", <<"ns", "o">>),
       Rec(z, In("n", In("g", z)), "A", <<>>),
       Rec(z, <<"ns", "o">>, "A", <<>>),
       Rec(z, In("b", sz), "TXT", <<>>),
       \* Each of these is fatal.
       Rec(z, In("ns", z), "AAAA", <<>>),
       Rec(z, In("m", z), "SRV", <<>>),
       Bad(Rec(z, In("f", z), "DYNA", <<>>)),
       Bad(Rec(z, In("f", z), "MX", <<>>)),
       \* The rest may or may not be there.
       Rec(z, In("c", z), "CNAME", In("a", z)),
       Rec(z, In("a", z), "CNAME", In("b", sz)),
       Rec(z, In("a", z), "CNAME", In("d", z)),
       Rec(z, In("d", z), "DYNC", <<>>),
       Rec(z, In("a", z), "DYNA", <<>>),
       Rec(z, In("g", z), "NS", In("n", In("g", z))),
       Rec(z, In("g", z), "NS", In("ns", z)),
       Rec(z, In("*", z), "A", <<>>),
       Rec(sz, sz, "SOA", In("ns", z)),
       Rec(sz, sz, "NS", In("ns", z)),
       Rec(sz, In("b", sz), "CNAME", In("ns", z)),
       Rec(sz, <<"o">>, "CNAME", z) >>
MCMandatory == 1 .. 14 \cup {28}

Ask(name, ty) == [form |-> "query", udp |-> TRUE, qname |-> name, qtype |-> ty, edns |-> "none",
                  size |-> 0, subs |-> 0, chaos |-> FALSE]
Questions ==
    {Ask(n, ty) : n \in {z, In("c", z), In("d", z), In("m", z), In("x", In("g", z)), In("y", In("x", z))},
                  ty \in {"A", "ANY"}}
      \cup {Ask(z, "NS"), Ask(In("ns", z), "AAAA"), Ask(In("a", z), "A"), Ask(In("a", z), "AAAA"),
            Ask(In("m", z), "SRV"), Ask(In("c", z), "CNAME"), Ask(In("d", z), "CNAME"),
            Ask(In("b", sz), "A"), Ask(<<"o">>, "A")}
MCQueries ==
    Questions
      \cup {[u EXCEPT !.udp = FALSE] : u \in Questions}
      \cup {[u EXCEPT !.edns = "ok", !.size = 24, !.subs = 1] : u \in Questions}
      \* Options that leave less than the question, or wrap what is left.
      \cup {[Ask(n, "ANY") EXCEPT !.edns = "ok", !.size = 24, !.subs = s] :
              n \in {z, In("m", z), In("c", z)}, s \in {8, 20, 23}}
      \cup {[Ask(z, "A") EXCEPT !.form = f] : f \in {"short", "ignored", "notimp"}}
      \cup {[Ask(z, "A") EXCEPT !.edns = e, !.subs = 2] : e \in {"badvers", "formerr"}}
      \cup {[Ask(z, "TXT") EXCEPT !.chaos = TRUE]}

MCDynAddrs == {[v4 |-> 1, v6 |-> 1], [v4 |-> 0, v6 |-> 1]}
\* What DYNC may answer: a name with data, itself, names outside and below the
\* delegation, or the start of a chain of CNAMEs into the subzone.
MCDyncNames == {In("m", z), In("d", z), <<"o">>, In("x", In("g", z)), In("a", z)}
==============================================================================
