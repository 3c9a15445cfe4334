---------------------------- MODULE StatioProofs ----------------------------
(***************************************************************************)
(* Proofs about the HTTP stats listener for any number of listening        *)
(* sockets and connections, any max_http_clients and any response sizes.   *)
(*                                                                         *)
(* The accounting is inductive with the types.  What is sent of a response *)
(* rests on what the two buffers hold while it is being written: the       *)
(* header buffer what is left of the header, from the first byte that has  *)
(* not been sent, and the body buffer all of the body.  A write that stops *)
(* at the end of the header or within the body ends that: write_cb         *)
(* computes another address then, and ResponseIntact fails                 *)
(* (MCStatioPartial.cfg).  What is left is that the header is out.         *)
(*                                                                         *)
(* The last part is about the threads whose statistics are reported.       *)
(***************************************************************************)
EXTENDS Statio, Threads, FiniteSetTheorems, WellFoundedInduction, TLAPS

Accounts == TypeOK /\ AcceptAccounting

-----------------------------------------------------------------------------
(* Types of what the handlers leave behind.                                *)

LEMMA FreedType == Freed \in ConnRec /\ ~Freed.open
BY StatioAssumption DEF Freed, Empty, ConnRec, State, Iovec

LEMMA Fields ==
  ASSUME NEW d \in ConnRec
  PROVE  /\ d.iov0 \in Iovec /\ d.iov1 \in Iovec
         /\ d.iov0.base \in Nat /\ d.iov0.len \in Nat
         /\ d.iov1.base \in Nat /\ d.iov1.len \in Nat
         /\ d.out \in Nat /\ d.read_done \in 0..(REQ - 1) /\ d.age \in 0..Timeout
         /\ d.iovcnt \in {1, 2} /\ d.state \in State
BY DEF ConnRec, Iovec

LEMMA WritevType ==
  ASSUME NEW d \in ConnRec, NEW n \in Nat
  PROVE  /\ Writev(d, n) \in ConnRec /\ Writev(d, n).open = d.open
         /\ Writev(d, n).iov0 = d.iov0 /\ Writev(d, n).iov1 = d.iov1
         /\ Writev(d, n).iovcnt = d.iovcnt
<1> DEFINE g == d.good /\ \A j \in 0..(n - 1) : Given(d, j) = Due(d, d.out + j)
           h == d.head /\ \A j \in 0..(n - 1) :
                             d.out + j < d.size[1] => Given(d, j) = Due(d, d.out + j)
<1>1. g \in BOOLEAN /\ h \in BOOLEAN OBVIOUS
<1>2. d.out + n \in Nat BY Fields
<1>3. Writev(d, n) = [d EXCEPT !.out = d.out + n, !.good = g, !.head = h] BY DEF Writev, ConnRec
<1> HIDE DEF g, h
<1> QED BY <1>1, <1>2, <1>3 DEF ConnRec

LEMMA AdvanceType ==
  ASSUME NEW d \in ConnRec, NEW n \in 1..available(d)
  PROVE  Advance(d, n) \in ConnRec /\ Advance(d, n).open = d.open
<1>1. CASE n < d.iov0.len
  <2>1. [base |-> d.iov0.base + n, len |-> d.iov0.len - n] \in Iovec
    BY <1>1, Fields DEF Iovec
  <2> QED BY <1>1, <2>1 DEF Advance, ConnRec
<1>2. CASE ~(n < d.iov0.len)
  <2>1. [base |-> d.iov0.base + (n - d.iov0.len),
         len |-> d.iov1.len - (n - d.iov0.len)] \in Iovec
    BY <1>2, Fields DEF Iovec, available
  <2> QED BY <1>2, <2>1 DEF Advance, ConnRec
<1> QED BY <1>1, <1>2

LEMMA LingerType ==
  ASSUME NEW d \in ConnRec
  PROVE  Linger(d) \in ConnRec
BY DEF Linger, ConnRec, State

LEMMA AfterWriteType ==
  ASSUME NEW d \in ConnRec, NEW e \in AfterWrite(d)
  PROVE  e \in ConnRec
<1>1. ASSUME NEW n \in Accepted(d)
      PROVE  Linger(Writev(d, n)) \in ConnRec /\ Advance(Writev(d, n), n) \in ConnRec
  <2>1. n \in 1..available(d) /\ n \in Nat BY Fields DEF Accepted, available
  <2>2. available(Writev(d, n)) = available(d) BY <2>1, WritevType DEF available
  <2> QED BY <2>1, <2>2, WritevType, LingerType, AdvanceType
<1>2. e = Freed \/ e = d \/ \E n \in Accepted(d) :
         e = Linger(Writev(d, n)) \/ e = Advance(Writev(d, n), n)
  BY DEF AfterWrite
<1> QED BY <1>1, <1>2, FreedType

LEMMA RespondType ==
  ASSUME NEW d \in ConnRec, NEW s \in Sizes
  PROVE  Respond(d, s) \in ConnRec
<1>1. s[1] \in Nat /\ s[2] \in Nat BY StatioAssumption
<1>2. [base |-> 0, len |-> s[1]] \in Iovec /\ [base |-> BODY, len |-> s[2]] \in Iovec
  BY <1>1, StatioAssumption DEF Iovec
<1>3. 0 \in 0..(REQ - 1) BY StatioAssumption
<1> QED BY <1>2, <1>3 DEF Respond, ConnRec, State

LEMMA AfterReadType ==
  ASSUME NEW d \in ConnRec, NEW e \in AfterRead(d)
  PROVE  e \in ConnRec
<1>1. ASSUME NEW n \in 0..(REQ - 1 - d.read_done)
      PROVE  [d EXCEPT !.read_done = @ + n] \in ConnRec
  <2>1. d.read_done + n \in 0..(REQ - 1) BY StatioAssumption, Fields
  <2> QED BY <2>1 DEF ConnRec
<1>2. \/ e = Freed \/ e = d \/ \E s \in Sizes : e = Respond(d, s)
      \/ \E n \in 0..(REQ - 1 - d.read_done) : e = [d EXCEPT !.read_done = @ + n]
  BY DEF AfterRead, ReadReq
<1> QED BY <1>1, <1>2, FreedType, RespondType

LEMMA NewType == [Freed EXCEPT !.open = TRUE, !.read = TRUE] \in ConnRec
BY FreedType DEF ConnRec

-----------------------------------------------------------------------------
(* The accounting of connections.                                          *)

LEMMA OpenFinite == IsFiniteSet(Open) /\ Cardinality(Open) \in Nat
BY StatioAssumption, FS_Subset, FS_CardinalityType DEF Open

\* Leaving slot c as d adds c to, or removes it from, the live connections.
LEMMA LeaveOpen ==
  ASSUME TypeOK, NEW c \in Conn, NEW d \in ConnRec, conn' = [conn EXCEPT ![c] = d]
  PROVE  /\ conn' \in [Conn -> ConnRec]
         /\ Open' = IF d.open THEN Open \cup {c} ELSE Open \ {c}
         /\ Cardinality(Open') =
              IF d.open THEN IF c \in Open THEN Cardinality(Open) ELSE Cardinality(Open) + 1
              ELSE IF c \in Open THEN Cardinality(Open) - 1 ELSE Cardinality(Open)
<1>1. \A x \in Conn : conn'[x] = IF x = c THEN d ELSE conn[x] BY DEF TypeOK
<1>2. Open' = IF d.open THEN Open \cup {c} ELSE Open \ {c} BY <1>1 DEF Open
<1>3. Cardinality(Open \cup {c}) = IF c \in Open THEN Cardinality(Open) ELSE Cardinality(Open) + 1
  BY OpenFinite, FS_AddElement
<1>4. Cardinality(Open \ {c}) = IF c \in Open THEN Cardinality(Open) - 1 ELSE Cardinality(Open)
  BY OpenFinite, FS_RemoveElement
<1>5. conn' \in [Conn -> ConnRec] BY DEF TypeOK
<1> QED BY <1>2, <1>3, <1>4, <1>5

\* A callback of a live connection.
LEMMA LiveStep ==
  ASSUME Accounts, NEW c \in Conn, conn[c].open, NEW d \in ConnRec,
         Leave(c, d, num_conn_watchers, accept)
  PROVE  Accounts'
<1>1. /\ conn' = [conn EXCEPT ![c] = d]
      /\ num_conn_watchers' = IF d.open THEN num_conn_watchers ELSE num_conn_watchers - 1
      /\ accept' = IF ~d.open /\ num_conn_watchers = MaxClients THEN Listener ELSE accept
  BY DEF Leave
<1>2. c \in Open BY DEF Open
<1>3. Cardinality(Open) >= 1 BY <1>2, OpenFinite, FS_EmptySet
<1>4. /\ conn' \in [Conn -> ConnRec]
      /\ Cardinality(Open') = IF d.open THEN Cardinality(Open) ELSE Cardinality(Open) - 1
  BY <1>1, <1>2, LeaveOpen DEF Accounts
<1>5. /\ num_conn_watchers = Cardinality(Open) /\ num_conn_watchers \in 0..MaxClients
      /\ accept = IF num_conn_watchers < MaxClients THEN Listener ELSE {}
  BY DEF Accounts, TypeOK, AcceptAccounting
<1>6. num_conn_watchers' \in 0..MaxClients /\ num_conn_watchers' = Cardinality(Open')
  BY <1>1, <1>3, <1>4, <1>5, OpenFinite, StatioAssumption
<1>7. accept' = IF num_conn_watchers' < MaxClients THEN Listener ELSE {}
  BY <1>1, <1>3, <1>5, OpenFinite, StatioAssumption
<1> QED BY <1>4, <1>6, <1>7 DEF Accounts, TypeOK, AcceptAccounting

\* accept_cb: the new connection is counted, and if it ends at once the
\* watchers that its count had stopped are started again.
LEMMA AcceptStep ==
  ASSUME Accounts, NEW l \in accept, NEW c \in Conn, ~conn[c].open, NEW d \in ConnRec,
         Leave(c, d, num_conn_watchers + 1,
               IF num_conn_watchers + 1 = MaxClients THEN {} ELSE accept)
  PROVE  Accounts'
<1>1. /\ conn' = [conn EXCEPT ![c] = d]
      /\ num_conn_watchers' = IF d.open THEN num_conn_watchers + 1
                              ELSE (num_conn_watchers + 1) - 1
      /\ accept' = IF ~d.open /\ num_conn_watchers + 1 = MaxClients THEN Listener
                   ELSE IF num_conn_watchers + 1 = MaxClients THEN {} ELSE accept
  BY DEF Leave
<1>2. c \notin Open BY DEF Open
<1>3. /\ conn' \in [Conn -> ConnRec]
      /\ Cardinality(Open') = IF d.open THEN Cardinality(Open) + 1 ELSE Cardinality(Open)
  BY <1>1, <1>2, LeaveOpen DEF Accounts
<1>4. /\ num_conn_watchers = Cardinality(Open) /\ num_conn_watchers \in 0..MaxClients
      /\ num_conn_watchers < MaxClients /\ accept = Listener
  <2>1. accept # {} OBVIOUS
  <2>2. accept = IF num_conn_watchers < MaxClients THEN Listener ELSE {}
    BY DEF Accounts, AcceptAccounting
  <2>3. num_conn_watchers < MaxClients /\ accept = Listener BY <2>1, <2>2
  <2> QED BY <2>3 DEF Accounts, TypeOK, AcceptAccounting
<1>5. num_conn_watchers' \in 0..MaxClients /\ num_conn_watchers' = Cardinality(Open')
  BY <1>1, <1>3, <1>4, OpenFinite, StatioAssumption
<1>6. accept' = IF num_conn_watchers' < MaxClients THEN Listener ELSE {}
  BY <1>1, <1>4, StatioAssumption
<1> QED BY <1>3, <1>5, <1>6 DEF Accounts, TypeOK, AcceptAccounting

LEMMA TickStep ==
  ASSUME Accounts, Tick
  PROVE  Accounts'
<1>1. /\ \A c \in Open : conn[c].age < Timeout
      /\ conn' = [c \in Conn |-> IF conn[c].open THEN [conn[c] EXCEPT !.age = @ + 1]
                                 ELSE conn[c]]
      /\ UNCHANGED <<accept, num_conn_watchers>>
  BY DEF Tick
<1>2. ASSUME NEW c \in Conn
      PROVE  conn'[c] \in ConnRec /\ conn'[c].open = conn[c].open
  <2>1. conn[c] \in ConnRec BY DEF Accounts, TypeOK
  <2>2. CASE conn[c].open
    <3>1. conn[c].age + 1 \in 0..Timeout
      BY <1>1, <2>1, <2>2, Fields, StatioAssumption DEF Open
    <3>2. conn'[c] = [conn[c] EXCEPT !.age = conn[c].age + 1] BY <1>1, <2>2
    <3> QED BY <2>1, <3>1, <3>2 DEF ConnRec
  <2> QED BY <1>1, <2>1, <2>2
<1>3. Open' = Open BY <1>2 DEF Open
<1>4. conn' \in [Conn -> ConnRec] BY <1>1, <1>2
<1> QED BY <1>1, <1>3, <1>4 DEF Accounts, TypeOK, AcceptAccounting

LEMMA AccountsInit == Init => Accounts
<1> SUFFICES ASSUME Init PROVE Accounts OBVIOUS
<1>1. Open = {} BY FreedType DEF Init, Open
<1>2. Cardinality(Open) = 0 BY <1>1, FS_EmptySet
<1> QED
  BY <1>2, FreedType, StatioAssumption DEF Init, Accounts, TypeOK, AcceptAccounting

LEMMA AccountsNext == Accounts /\ [Next]_vars => Accounts'
<1> SUFFICES ASSUME Accounts, [Next]_vars PROVE Accounts' OBVIOUS
<1>1. \A c \in Conn : conn[c] \in ConnRec BY DEF Accounts, TypeOK
<1>2. ASSUME NEW l \in Listener, NEW c \in Conn, accept_cb(l, c) PROVE Accounts'
  BY <1>2, AcceptStep, NewType, AfterReadType DEF accept_cb
<1>3. ASSUME NEW c \in Conn, read_cb(c) PROVE Accounts'
  BY <1>1, <1>3, LiveStep, AfterReadType DEF read_cb
<1>4. ASSUME NEW c \in Conn, write_cb(c) PROVE Accounts'
  BY <1>1, <1>4, LiveStep, AfterWriteType DEF write_cb
<1>5. ASSUME NEW c \in Conn, timeout_cb(c) PROVE Accounts'
  BY <1>5, LiveStep, FreedType DEF timeout_cb
<1>6. CASE UNCHANGED vars
  BY <1>6 DEF vars, Accounts, TypeOK, AcceptAccounting, Open
<1> QED BY <1>2, <1>3, <1>4, <1>5, <1>6, TickStep DEF Next

\* Every field of every connection keeps its type, and the count of connections
\* stays within max_http_clients, for every way in which writes are cut short.
THEOREM TypeCorrect == Spec => []TypeOK
<1>1. Accounts => TypeOK BY DEF Accounts
<1> QED BY <1>1, AccountsInit, AccountsNext, PTL DEF Spec

(***************************************************************************)
(* The limit max_http_clients is shared by all listening sockets: the      *)
(* count is the number of live connections, and the sockets accept all     *)
(* together exactly while it is below the limit.                           *)
(***************************************************************************)
THEOREM AccountingAlways == Spec => []AcceptAccounting
<1>1. Accounts => AcceptAccounting BY DEF Accounts
<1> QED BY <1>1, AccountsInit, AccountsNext, PTL DEF Spec

-----------------------------------------------------------------------------
(* The response.                                                           *)

\* What is left of a response while it is being written from both buffers.
Unsent(d) ==
    /\ d.iov0.base = d.out /\ d.iov0.len >= 1 /\ d.out + d.iov0.len = d.size[1]
    /\ d.iov1.base = BODY /\ d.iov1.len = d.size[2]

\* The watchers of a connection follow its state.  While both buffers are in
\* use they are the ones of the response; once they are not, the header is out.
Intact(d) ==
    /\ d.head /\ (d.iovcnt = 2 => d.good)
    /\ d.read => d.state \in {"READING_REQ", "READING_JUNK"}
    /\ d.write => d.state = "WRITING_RES"
    /\ d.state = "READING_REQ" => d.out = 0 /\ d.iovcnt = 2
    /\ d.state # "READING_REQ" => d.size \in Sizes
    /\ d.state = "WRITING_RES" => IF d.iovcnt = 2 THEN Unsent(d) ELSE d.out >= d.size[1]
    /\ d.state = "READING_JUNK" =>
         /\ d.out >= d.size[1]
         /\ d.iovcnt = 2 => d.out = d.size[1] + d.size[2]

Responses == \A c \in Conn : Intact(conn[c])

LEMMA FreedIntact == Intact(Freed)
BY DEF Intact, Freed

LEMMA NewIntact == Intact([Freed EXCEPT !.open = TRUE, !.read = TRUE])
BY DEF Intact, Freed

\* Every byte that writev() takes from both buffers is the one that was due.
LEMMA WritevGood ==
  ASSUME NEW d \in ConnRec, d.size \in Sizes, Unsent(d), d.iovcnt = 2, d.good, d.head,
         NEW n \in 1..available(d)
  PROVE  Writev(d, n).good /\ Writev(d, n).head /\ Writev(d, n).out = d.out + n
<1>1. d.size[1] \in Nat /\ d.size[2] \in Nat BY StatioAssumption
<1>2. ASSUME NEW j \in 0..(n - 1) PROVE Given(d, j) = Due(d, d.out + j)
  BY <1>1, Fields, StatioAssumption DEF Unsent, Given, Due
<1> QED BY <1>2 DEF Writev, ConnRec

\* What is written behind the header is no part of it.
LEMMA WritevBehind ==
  ASSUME NEW d \in ConnRec, d.size \in Sizes, d.out >= d.size[1], d.head, NEW n \in Nat
  PROVE  Writev(d, n).head /\ Writev(d, n).out = d.out + n
<1>1. d.size[1] \in Nat /\ d.out \in Nat BY StatioAssumption, Fields
<1>2. ASSUME NEW j \in 0..(n - 1) PROVE ~(d.out + j < d.size[1]) BY <1>1
<1> QED BY <1>2 DEF Writev, ConnRec

\* The fields writev() has nothing to do with.
LEMMA WritevKeeps ==
  ASSUME NEW d \in ConnRec, NEW n
  PROVE  LET w == Writev(d, n)
         IN  w.size = d.size /\ w.state = d.state /\ w.read = d.read /\ w.write = d.write
BY DEF Writev, ConnRec

LEMMA LingerIntact ==
  ASSUME NEW w \in ConnRec, w.head, w.size \in Sizes, w.out >= w.size[1],
         w.iovcnt = 2 => w.good /\ w.out = w.size[1] + w.size[2]
  PROVE  Intact(Linger(w))
BY DEF Intact, Linger, ConnRec

\* A write that is not the last one, behind the header.
LEMMA BehindIntact ==
  ASSUME NEW w \in ConnRec, w.head, w.size \in Sizes, w.out >= w.size[1],
         w.state = "WRITING_RES", ~w.read, NEW n \in Nat, w.iovcnt = 1 \/ ~(n < w.iov0.len)
  PROVE  Intact(Advance(w, n))
<1> DEFINE a == Advance(w, n)
<1>1. /\ a.iovcnt = 1 /\ a.head = w.head /\ a.size = w.size /\ a.out = w.out
      /\ a.state = w.state /\ a.read = w.read /\ a.write = w.write
  BY DEF Advance, ConnRec
<1> HIDE DEF a
<1>2. Intact(a) BY <1>1 DEF Intact
<1> QED BY <1>2 DEF a

LEMMA AfterWriteIntact ==
  ASSUME NEW d \in ConnRec, Intact(d), d.write, NEW e \in AfterWrite(d)
  PROVE  Intact(e)
<1>1. /\ d.state = "WRITING_RES" /\ d.head /\ d.size \in Sizes /\ ~d.read /\ d.iovcnt \in {1, 2}
      /\ d.iovcnt = 2 => d.good /\ Unsent(d)
      /\ d.iovcnt = 1 => d.out >= d.size[1]
  BY Fields DEF Intact, ConnRec
<1>2. d.size[1] \in Nat \ {0} /\ d.size[2] \in Nat \ {0} /\ d.out \in Nat
  BY <1>1, StatioAssumption, Fields
<1>3. ASSUME NEW n \in Accepted(d)
      PROVE  /\ n = tosend(d) => Intact(Linger(Writev(d, n)))
             /\ n # tosend(d) => Intact(Advance(Writev(d, n), n))
  <2> DEFINE w == Writev(d, n)
  <2>1. n \in 1..available(d) /\ n \in Nat BY Fields DEF Accepted, available
  <2>2. /\ w \in ConnRec /\ w.iov0 = d.iov0 /\ w.iov1 = d.iov1 /\ w.iovcnt = d.iovcnt
        /\ w.size = d.size /\ w.state = d.state /\ w.read = d.read /\ w.write = d.write
    BY <2>1, WritevType, WritevKeeps
  <2>3. CASE d.iovcnt = 2
    <3>1. w.good /\ w.head /\ w.out = d.out + n BY <1>1, <2>1, <2>3, WritevGood
    <3>2. tosend(d) = d.iov0.len + d.iov1.len BY <2>3 DEF tosend
    <3>3. /\ d.iov0.base = d.out /\ d.out + d.iov0.len = d.size[1] /\ d.iov1.len = d.size[2]
          /\ d.iov1.base = BODY /\ d.iov0.len \in Nat
      BY <1>1, <2>3, Fields DEF Unsent
    <3> HIDE DEF w
    <3>4. n = tosend(d) => Intact(Linger(w))
      BY <1>1, <1>2, <2>2, <3>1, <3>2, <3>3, LingerIntact
    <3>5. CASE n < d.iov0.len
      <4> DEFINE a == [w EXCEPT !.iov0 = [base |-> w.iov0.base + n, len |-> w.iov0.len - n]]
      <4>1. Advance(w, n) = a BY <2>2, <3>5 DEF Advance, ConnRec
      <4>2. /\ a.iov0.base = d.iov0.base + n /\ a.iov0.len = d.iov0.len - n
            /\ a.iov1 = d.iov1 /\ a.out = d.out + n /\ a.size = d.size /\ a.good /\ a.head
            /\ a.iovcnt = 2 /\ a.state = d.state /\ a.read = d.read /\ a.write = d.write
        BY <2>2, <2>3, <3>1 DEF ConnRec
      <4> HIDE DEF a
      <4>3. Unsent(a) BY <1>2, <2>1, <3>3, <3>5, <4>2 DEF Unsent
      <4>4. Intact(a) BY <1>1, <4>2, <4>3 DEF Intact
      <4> QED BY <3>4, <4>1, <4>4 DEF w
    <3>6. CASE ~(n < d.iov0.len)
      <4>1. w.out >= w.size[1] BY <1>2, <2>1, <2>2, <3>1, <3>3, <3>6
      <4>2. Intact(Advance(w, n)) BY <1>1, <2>1, <2>2, <3>1, <3>6, <4>1, BehindIntact
      <4> QED BY <3>4, <4>2 DEF w
    <3> QED BY <3>5, <3>6
  <2>4. CASE d.iovcnt = 1
    <3>1. w.head /\ w.out = d.out + n BY <1>1, <2>1, <2>4, WritevBehind
    <3>2. w.out >= w.size[1] BY <1>1, <1>2, <2>1, <2>2, <2>4, <3>1
    <3> HIDE DEF w
    <3>3. Intact(Linger(w)) BY <1>1, <2>2, <2>4, <3>1, <3>2, LingerIntact
    <3>4. Intact(Advance(w, n)) BY <1>1, <2>1, <2>2, <2>4, <3>1, <3>2, BehindIntact
    <3> QED BY <3>3, <3>4 DEF w
  <2> QED BY <1>1, <2>3, <2>4
<1>4. e = Freed \/ e = d \/ \E n \in Accepted(d) :
         e = IF n = tosend(d) THEN Linger(Writev(d, n)) ELSE Advance(Writev(d, n), n)
  BY DEF AfterWrite
<1> QED BY <1>3, <1>4, FreedIntact

LEMMA AfterReadIntact ==
  ASSUME NEW d \in ConnRec, Intact(d), d.read, NEW e \in AfterRead(d)
  PROVE  Intact(e)
<1>1. CASE d.state = "READING_JUNK" BY <1>1, FreedIntact DEF AfterRead
<1>2. CASE d.state # "READING_JUNK"
  <2>1. d.state = "READING_REQ" /\ d.out = 0 /\ d.good /\ d.head /\ d.iovcnt = 2 /\ ~d.write
    BY <1>2 DEF Intact
  <2>2. ASSUME NEW s \in Sizes PROVE Intact(Respond(d, s))
    <3>1. s[1] \in Nat \ {0} /\ s[2] \in Nat BY StatioAssumption
    <3>2. Unsent(Respond(d, s)) BY <2>1, <3>1 DEF Unsent, Respond, ConnRec
    <3> QED BY <2>1, <3>2 DEF Intact, Respond, ConnRec
  <2>3. ASSUME NEW n \in 0..(REQ - 1 - d.read_done)
        PROVE  Intact([d EXCEPT !.read_done = @ + n])
    BY <2>1 DEF Intact, ConnRec
  <2> QED BY <1>2, <2>2, <2>3, FreedIntact DEF AfterRead, ReadReq
<1> QED BY <1>1, <1>2

LEMMA ResponsesNext ==
  ASSUME TypeOK, Responses, [Next]_vars
  PROVE  Responses'
<1>1. \A c \in Conn : conn[c] \in ConnRec /\ Intact(conn[c]) BY DEF TypeOK, Responses
<1>2. ASSUME NEW c \in Conn, NEW d, Intact(d), NEW n, NEW a, Leave(c, d, n, a)
      PROVE  Responses'
  <2>1. \A x \in Conn : conn'[x] = IF x = c THEN d ELSE conn[x]
    BY <1>2 DEF Leave, TypeOK
  <2> QED BY <1>1, <1>2, <2>1 DEF Responses
<1>3. ASSUME NEW l \in Listener, NEW c \in Conn, accept_cb(l, c) PROVE Responses'
  <2>1. [Freed EXCEPT !.open = TRUE, !.read = TRUE].read BY DEF Freed
  <2> QED BY <1>2, <1>3, <2>1, NewType, NewIntact, AfterReadIntact DEF accept_cb
<1>4. ASSUME NEW c \in Conn, read_cb(c) PROVE Responses'
  BY <1>1, <1>2, <1>4, AfterReadIntact DEF read_cb
<1>5. ASSUME NEW c \in Conn, write_cb(c) PROVE Responses'
  BY <1>1, <1>2, <1>5, AfterWriteIntact DEF write_cb
<1>6. ASSUME NEW c \in Conn, timeout_cb(c) PROVE Responses'
  BY <1>2, <1>6, FreedIntact DEF timeout_cb
<1>7. CASE Tick
  <2>1. ASSUME NEW c \in Conn PROVE Intact(conn'[c])
    <3>1. conn'[c] = IF conn[c].open THEN [conn[c] EXCEPT !.age = @ + 1] ELSE conn[c]
      BY <1>7 DEF Tick
    <3>2. Intact([conn[c] EXCEPT !.age = @ + 1]) BY <1>1 DEF Intact, Unsent, ConnRec
    <3> QED BY <1>1, <3>1, <3>2
  <2> QED BY <2>1 DEF Responses
<1>8. CASE UNCHANGED vars BY <1>8 DEF vars, Responses
<1> QED BY <1>3, <1>4, <1>5, <1>6, <1>7, <1>8 DEF Next

(***************************************************************************)
(* For any sizes and any partial writes at all: the header goes out first, *)
(* whole and in order, and so does the rest of every response none of      *)
(* whose writes stops at the end of the header or in the body.             *)
(***************************************************************************)
THEOREM SentInOrderAlways == Spec => []SentInOrder
<1>1. Init => Responses BY FreedIntact DEF Init, Responses
<1>2. TypeOK /\ Responses /\ [Next]_vars => Responses' BY ResponsesNext
<1>3. Responses => SentInOrder BY DEF Responses, Intact, SentInOrder, Open
<1> QED BY <1>1, <1>2, <1>3, TypeCorrect, PTL DEF Spec

-----------------------------------------------------------------------------
(* The statistics that statio_start is let loose on.  In the specification *)
(* Threads of the process around this listener, the main thread waits for  *)
(* each I/O thread to store its stats structure before it starts the HTTP  *)
(* listener.  For any configurations, with any number of listeners: the    *)
(* thread that is started t-th has the number t (Numbers), so the pointers *)
(* stored are those of the threads that are past dnspacket_init_stats, and *)
(* the counter the main thread waits on is their number (Threading).       *)

Has(addrs, i) == {j \in 1..i : ~addrs[j].tcp_disabled}

LEMMA UpTo ==
  ASSUME NEW addrs, NEW n \in Nat
  PROVE  /\ IsFiniteSet(Has(addrs, n)) /\ TcpUpTo(addrs, n) \in 0..n
         /\ TcpUpTo(addrs, 0) = 0
         /\ TcpUpTo(addrs, n + 1) = TcpUpTo(addrs, n) + IF addrs[n + 1].tcp_disabled THEN 0 ELSE 1
<1>1. TcpUpTo(addrs, n) = Cardinality(Has(addrs, n)) /\ TcpUpTo(addrs, 0) = Cardinality(Has(addrs, 0))
      /\ TcpUpTo(addrs, n + 1) = Cardinality(Has(addrs, n + 1))
  BY DEF TcpUpTo, Has
<1>2. Has(addrs, n) \subseteq 1..n /\ IsFiniteSet(1..n) /\ Cardinality(1..n) = n
  BY FS_Interval DEF Has
<1>3. IsFiniteSet(Has(addrs, n)) /\ Cardinality(Has(addrs, n)) \in Nat /\ Cardinality(Has(addrs, n)) <= n
  BY <1>2, FS_Subset, FS_CardinalityType
<1>4. Has(addrs, 0) = {} /\ Cardinality({}) = 0 BY FS_EmptySet DEF Has
<1>5. CASE addrs[n + 1].tcp_disabled
  <2>1. Has(addrs, n + 1) = Has(addrs, n) BY <1>5 DEF Has
  <2> QED BY <1>1, <1>3, <1>4, <1>5, <2>1
<1>6. CASE ~addrs[n + 1].tcp_disabled
  <2>1. Has(addrs, n + 1) = Has(addrs, n) \cup {n + 1} /\ n + 1 \notin Has(addrs, n) BY <1>6 DEF Has
  <2>2. Cardinality(Has(addrs, n + 1)) = Cardinality(Has(addrs, n)) + 1 BY <1>3, <2>1, FS_AddElement
  <2> QED BY <1>1, <1>3, <1>4, <1>6, <2>2
<1> QED BY <1>5, <1>6

LEMMA Least ==
  ASSUME NEW S \in SUBSET Nat, S # {}
  PROVE  \E x \in S : \A y \in S : x <= y
<1> DEFINE R == OpToRel(<, Nat)
<1>1. IsWellFoundedOn(OpToRel(<, Nat), Nat) BY NatLessThanWellFounded
<1>2. IsWellFoundedOn(R, Nat) BY <1>1
<1>3. \A x, y \in Nat : y < x => <<y, x>> \in R BY DEF OpToRel
<1> HIDE DEF R
<1>4. PICK x \in S : \A y \in S : ~(<<y, x>> \in R) BY <1>2, WFMin
<1>5. ASSUME NEW y \in S PROVE x <= y
  <2>1. x \in Nat /\ y \in Nat OBVIOUS
  <2>2. ~(y < x) BY <1>3, <1>4, <2>1
  <2> QED BY <2>1, <2>2
<1> QED BY <1>5

\* Every number up to the number of TCP listeners is the count at one of them.
LEMMA Counted ==
  ASSUME NEW addrs, NEW n \in Nat, NEW v \in 1..TcpUpTo(addrs, n)
  PROVE  \E i \in 1..n : ~addrs[i].tcp_disabled /\ TcpUpTo(addrs, i) = v
<1> DEFINE c(i) == TcpUpTo(addrs, i)
           S == {i \in 0..n : v <= c(i)}
<1>1. \A i \in Nat : /\ c(i) \in Nat /\ c(0) = 0
                     /\ c(i + 1) = c(i) + IF addrs[i + 1].tcp_disabled THEN 0 ELSE 1
  BY UpTo
<1> HIDE DEF c
<1>2. S \in SUBSET Nat /\ n \in S
  <2>1. v \in 1..c(n) /\ c(n) \in Nat BY <1>1 DEF c
  <2> QED BY <2>1
<1>3. PICK i \in S : \A y \in S : i <= y BY <1>2, Least
<1>4. v \in Nat /\ v >= 1
  <2>1. v \in 1..c(n) /\ c(n) \in Nat BY <1>1 DEF c
  <2> QED BY <2>1
<1>5. i \in 0..n /\ v <= c(i) /\ i # 0 BY <1>1, <1>3, <1>4
<1>6. i - 1 \in Nat /\ (i - 1) + 1 = i /\ i \in 1..n /\ ~(i <= i - 1) BY <1>5
<1>7. ~(v <= c(i - 1))
  <2>1. i - 1 \notin S BY <1>3, <1>6
  <2>2. i - 1 \in 0..n BY <1>6
  <2> QED BY <2>1, <2>2
<1>8. c(i - 1) \in Nat /\ c(i) = c(i - 1) + IF addrs[i].tcp_disabled THEN 0 ELSE 1
  <2>1. c((i - 1) + 1) = c(i - 1) + IF addrs[(i - 1) + 1].tcp_disabled THEN 0 ELSE 1 BY <1>1, <1>6
  <2> QED BY <1>1, <1>6, <2>1
<1>9. ~addrs[i].tcp_disabled BY <1>5, <1>7, <1>8
<1>10. c(i) = v BY <1>4, <1>5, <1>7, <1>8, <1>9
<1> QED BY <1>6, <1>9, <1>10 DEF c

\* assign_thread_nums() gives the t-th thread to be started the number t.
LEMMA Numbers ==
  ASSUME Listeners(dns_addrs), NEW t \in 1..N
  PROVE  threadnum(t) = t
<1> DEFINE n == Len(dns_addrs)
           c(i) == TcpUpTo(dns_addrs, i)
<1>1. n \in Nat /\ DOMAIN dns_addrs = 1..n BY DEF Listeners
<1>2. c(n) \in Nat /\ N = n + c(n) BY <1>1, UpTo DEF N, num_io_threads
<1>3. CASE t <= n
  <2>1. AddrOf(t) = t /\ IsUdp(t) BY <1>3 DEF AddrOf, IsUdp
  <2>2. t \in DOMAIN dns_addrs BY <1>1, <1>2, <1>3
  <2>3. assign_thread_nums(dns_addrs)[t].udp = t BY <2>2 DEF assign_thread_nums
  <2> QED BY <2>1, <2>3 DEF threadnum
<1>4. CASE ~(t <= n)
  <2> DEFINE P(i) == ~dns_addrs[i].tcp_disabled /\ TcpUpTo(dns_addrs, i) = t - Len(dns_addrs)
             a == CHOOSE i \in DOMAIN dns_addrs : P(i)
  <2>1. t - n \in 1..c(n)
    <3> HIDE DEF n, c
    <3> QED BY <1>1, <1>2, <1>4
  <2>2. \E i \in DOMAIN dns_addrs : P(i) BY <1>1, <2>1, Counted
  <2>3. a \in DOMAIN dns_addrs /\ P(a) BY <2>2
  <2>4. AddrOf(t) = a /\ ~IsUdp(t) BY <1>4 DEF AddrOf, IsUdp
  <2> HIDE DEF a
  <2>5. assign_thread_nums(dns_addrs)[a].tcp = n + (t - n) BY <2>3 DEF assign_thread_nums
  <2>6. n + (t - n) = t
    <3> HIDE DEF n, c
    <3> QED BY <1>1, <1>2
  <2> QED BY <2>4, <2>5, <2>6 DEF threadnum
<1> QED BY <1>3, <1>4

Late == {"unlock", "late", "serve", "dead"}
Stored == {t \in Thread : th[t] \in Late}

\* What the threads have done: only listeners have threads, and the count and the
\* pointers are those of the threads that are past dnspacket_init_stats.
Threading ==
  /\ setup \in Setups
  /\ Listeners(dns_addrs)
  /\ th \in [Thread -> {"none", "lock", "stats"} \cup Late]
  /\ \A t \in Thread : th[t] # "none" => t <= N
  /\ stats_initialized = Cardinality(Stored)
  /\ dnspacket_stats = Stored

\* Where the main thread is: nobody runs before start_threads, and from the
\* unlock in dnspacket_wait_stats on every thread is past its initialization.
Main ==
  /\ k \in Nat \ {0}
  /\ main \in {"conf", "bind", "secure"} => k = 1
  /\ main \in {"conf", "bind", "secure", "create"} => \A t \in Thread : t >= k => th[t] = "none"
  /\ exiter \in Thread => exiter \in Stored
  /\ main \in {"unlock", "statio", "run", "cancel", "join"} => Stored = 1..N

TInv == Threading /\ Main

LEMMA ThreadingUnchanged ==
  ASSUME Threading, UNCHANGED <<setup, dns_addrs, th, stats_initialized, dnspacket_stats>>
  PROVE  Threading' /\ Stored' = Stored /\ N' = N
<1>1. Stored' = Stored BY DEF Stored
<1>2. N' = N BY DEF N
<1>3. Listeners(dns_addrs)' BY DEF Threading, Listeners
<1> QED BY <1>1, <1>2, <1>3 DEF Threading

LEMMA ThreadingMoves ==
  ASSUME Threading, NEW t \in Thread, t \in Stored, NEW to \in Late, th' = [th EXCEPT ![t] = to],
         UNCHANGED <<setup, dns_addrs, stats_initialized, dnspacket_stats>>
  PROVE  Threading' /\ Stored' = Stored /\ N' = N
<1>1. Stored' = Stored BY DEF Stored, Threading
<1>2. N' = N BY DEF N
<1>3. Listeners(dns_addrs)' BY DEF Threading, Listeners
<1>4. th' \in [Thread -> {"none", "lock", "stats"} \cup Late] BY DEF Threading
<1>5. \A u \in Thread : th'[u] # "none" => u <= N BY DEF Threading, Stored, Late
<1> QED BY <1>1, <1>2, <1>3, <1>4, <1>5 DEF Threading

LEMMA ThreadingBounds ==
  ASSUME MaxThreads \in Nat \ {0}, Threading
  PROVE  /\ N \in Nat /\ N <= MaxThreads /\ 1..N \subseteq Thread
         /\ Stored \subseteq 1..N /\ IsFiniteSet(Stored)
         /\ IsFiniteSet(1..N) /\ Cardinality(1..N) = N
<1>1. Len(dns_addrs) \in Nat /\ N <= MaxThreads BY DEF Threading, Listeners, N
<1>2. N \in Nat
  <2>1. TcpUpTo(dns_addrs, Len(dns_addrs)) \in 0..Len(dns_addrs) BY <1>1, UpTo
  <2> QED BY <1>1, <2>1 DEF N, num_io_threads
<1>3. Thread = 1..MaxThreads BY DEF Thread
<1>4. Stored \subseteq 1..N BY <1>1, <1>2, <1>3 DEF Threading, Stored, Late
<1>5. IsFiniteSet(1..N) /\ Cardinality(1..N) = N BY <1>2, FS_Interval
<1>6. IsFiniteSet(Stored) BY <1>4, <1>5, FS_Subset
<1>7. 1..N \subseteq Thread BY <1>1, <1>2, <1>3
<1> QED BY <1>1, <1>2, <1>4, <1>5, <1>6, <1>7

LEMMA TInvInit == SetupsOk /\ ThreadsInit => TInv
<1> SUFFICES ASSUME SetupsOk, ThreadsInit PROVE TInv OBVIOUS
<1>1. MaxThreads \in Nat \ {0} BY DEF SetupsOk
<1>2. Len(dns_addrs) = 0 /\ DOMAIN dns_addrs = 1..0 BY DEF ThreadsInit
<1>3. num_io_threads(dns_addrs) = 0 BY <1>2, UpTo DEF num_io_threads
<1>4. Listeners(dns_addrs) BY <1>1, <1>2, <1>3 DEF Listeners
<1>5. Stored = {} BY DEF Stored, Late, ThreadsInit
<1>6. Cardinality(Stored) = 0 BY <1>5, FS_EmptySet
<1>7. Threading BY <1>4, <1>5, <1>6 DEF Threading, ThreadsInit
<1>8. exiter \notin Thread BY <1>1 DEF ThreadsInit, free, Thread
<1>9. Main BY <1>8 DEF Main, ThreadsInit
<1> QED BY <1>7, <1>9 DEF TInv

\* A step of the main thread before start_threads.
LEMMA TInvStarting ==
  ASSUME TInv, NEW from \in {"conf", "bind", "secure"}, NEW to \in {"bind", "secure", "create", "exit"},
         Starting(from, to), Threading', UNCHANGED Stored
  PROVE  TInv'
<1>1. main = from /\ main' = to /\ UNCHANGED <<k, th, exiter>> BY DEF Starting
<1>2. Main' BY <1>1 DEF TInv, Main
<1> QED BY <1>2 DEF TInv

\* A step that leaves the threads and their stats alone.
LEMMA TInvMain ==
  ASSUME TInv, UNCHANGED <<setup, dns_addrs, th, stats_initialized, dnspacket_stats, exiter>>,
         main' = main \/ main' \notin {"conf", "bind", "secure", "create"},
         k' \in Nat \ {0}, k' = k \/ main' \notin {"conf", "bind", "secure", "create"},
         main' \in {"unlock", "statio", "run", "cancel", "join"} => Stored = 1..N
  PROVE  TInv'
<1>1. Threading' /\ Stored' = Stored /\ N' = N BY ThreadingUnchanged DEF TInv
<1>2. Main' BY <1>1 DEF TInv, Main
<1> QED BY <1>1, <1>2 DEF TInv

\* A step of a thread that is past its initialization.
LEMMA TInvThread ==
  ASSUME TInv, NEW t \in Thread, t \in Stored, NEW to \in Late, th' = [th EXCEPT ![t] = to],
         UNCHANGED <<setup, dns_addrs, stats_initialized, dnspacket_stats, main, k>>,
         exiter' = exiter \/ exiter' \notin Thread \/ exiter' \in Stored
  PROVE  TInv'
<1>1. Threading' /\ Stored' = Stored /\ N' = N BY ThreadingMoves DEF TInv
<1>2. \A u \in Thread : th[u] = "none" => th'[u] = "none" BY DEF Stored, Late, TInv, Threading
<1>3. Main' BY <1>1, <1>2 DEF TInv, Main
<1> QED BY <1>1, <1>3 DEF TInv

\* pthread_create: the next thread exists, and has not stored anything.
LEMMA TInvCreate ==
  ASSUME MaxThreads \in Nat \ {0}, TInv, pthread_create
  PROVE  TInv'
<1>1. /\ main = "create" /\ k <= N /\ th' = [th EXCEPT ![k] = "lock"] /\ k' = k + 1
      /\ UNCHANGED <<setup, dns_addrs, main, stats_initialized, dnspacket_stats, exiter>>
  BY DEF pthread_create, startVars
<1>2. k \in Nat \ {0} /\ k \in Thread /\ th[k] = "none"
  <2>1. N \in Nat /\ N <= MaxThreads BY ThreadingBounds DEF TInv
  <2>2. k \in Nat \ {0} BY DEF TInv, Main
  <2>3. k \in Thread BY <1>1, <2>1, <2>2 DEF Thread
  <2> QED BY <1>1, <2>2, <2>3 DEF TInv, Main
<1>3. Stored' = Stored BY <1>1, <1>2 DEF Stored, Late, TInv, Threading
<1>4. N' = N BY <1>1 DEF N
<1>5. Listeners(dns_addrs)' BY <1>1 DEF TInv, Threading, Listeners
<1>6. th' \in [Thread -> {"none", "lock", "stats"} \cup Late] BY <1>1, <1>2 DEF TInv, Threading
<1>7. \A t \in Thread : th'[t] # "none" => t <= N BY <1>1, <1>2 DEF TInv, Threading
<1>8. Threading' BY <1>1, <1>3, <1>4, <1>5, <1>6, <1>7 DEF TInv, Threading
<1>9. ASSUME NEW t \in Thread, t >= k' PROVE th'[t] = "none"
  <2>1. t \in Nat BY DEF Thread
  <2>2. t >= k /\ t # k BY <1>1, <1>2, <1>9, <2>1
  <2>3. th[t] = "none" BY <1>1, <2>2 DEF TInv, Main
  <2> QED BY <1>1, <1>2, <2>2, <2>3 DEF TInv, Threading
<1>10. k' \in Nat \ {0} BY <1>1, <1>2
<1>11. Main' BY <1>1, <1>3, <1>9, <1>10 DEF TInv, Main
<1> QED BY <1>8, <1>11 DEF TInv

\* dnspacket_init_stats: the count and the set of pointers grow by one thread.
LEMMA TInvStats ==
  ASSUME MaxThreads \in Nat \ {0}, TInv, NEW t \in Thread, dnspacket_init_stats(t)
  PROVE  TInv'
<1>1. /\ th[t] = "stats" /\ th' = [th EXCEPT ![t] = "unlock"]
      /\ dnspacket_stats' = dnspacket_stats \cup {threadnum(t)}
      /\ stats_initialized' = stats_initialized + 1
      /\ main' = IF main = "wait" THEN "woken" ELSE main
      /\ UNCHANGED <<setup, dns_addrs, k, exiter>>
  BY DEF dnspacket_init_stats, startVars
<1>2. N \in Nat /\ Stored \subseteq 1..N /\ IsFiniteSet(Stored) /\ 1..N \subseteq Thread
  BY ThreadingBounds DEF TInv
<1>3. t \in 1..N /\ t \notin Stored
  <2>1. t <= N BY <1>1 DEF TInv, Threading
  <2> QED BY <1>1, <1>2, <2>1 DEF Thread, Stored, Late
<1>4. threadnum(t) = t BY <1>3, Numbers DEF TInv, Threading
<1>5. Stored' = Stored \cup {t} BY <1>1 DEF Stored, Late, TInv, Threading
<1>6. Cardinality(Stored') = Cardinality(Stored) + 1 BY <1>2, <1>3, <1>5, FS_AddElement
<1>7. N' = N BY <1>1 DEF N
<1>8. Listeners(dns_addrs)' BY <1>1 DEF TInv, Threading, Listeners
<1>9. th' \in [Thread -> {"none", "lock", "stats"} \cup Late] BY <1>1 DEF TInv, Threading, Late
<1>10. \A u \in Thread : th'[u] # "none" => u <= N BY <1>1 DEF TInv, Threading
<1>11. Threading' BY <1>1, <1>4, <1>5, <1>6, <1>7, <1>8, <1>9, <1>10 DEF TInv, Threading
<1>12. main \notin {"unlock", "statio", "run", "cancel", "join"} BY <1>3 DEF TInv, Main
<1>13. \A u \in Thread : th[u] = "none" => th'[u] = "none" BY <1>1 DEF TInv, Threading
<1>14. Main' BY <1>1, <1>5, <1>12, <1>13 DEF TInv, Main
<1> QED BY <1>11, <1>14 DEF TInv

\* ThreadLock: the thread has not stored anything, before or after.
LEMMA TInvLock ==
  ASSUME TInv, NEW t \in Thread, ThreadLock(t)
  PROVE  TInv'
<1>1. /\ th[t] = "lock" /\ th' = [th EXCEPT ![t] = "stats"]
      /\ UNCHANGED <<setup, dns_addrs, main, k, stats_initialized, dnspacket_stats, exiter>>
  BY DEF ThreadLock, startVars
<1>2. Stored' = Stored BY <1>1 DEF Stored, Late, TInv, Threading
<1>3. N' = N BY <1>1 DEF N
<1>4. Listeners(dns_addrs)' BY <1>1 DEF TInv, Threading, Listeners
<1>5. th' \in [Thread -> {"none", "lock", "stats"} \cup Late] BY <1>1 DEF TInv, Threading
<1>6. \A u \in Thread : th'[u] # "none" => u <= N BY <1>1 DEF TInv, Threading
<1>7. \A u \in Thread : th[u] = "none" => th'[u] = "none" BY <1>1 DEF TInv, Threading
<1>8. Threading' BY <1>1, <1>2, <1>3, <1>4, <1>5, <1>6 DEF TInv, Threading
<1>9. Main' BY <1>1, <1>2, <1>3, <1>7 DEF TInv, Main
<1> QED BY <1>8, <1>9 DEF TInv

\* The main thread finds every thread counted only when each has stored its stats.
LEMMA TInvTest ==
  ASSUME MaxThreads \in Nat \ {0}, TInv, MainTest
  PROVE  TInv'
<1>1. UNCHANGED <<setup, dns_addrs, th, stats_initialized, dnspacket_stats, exiter, k>>
  BY DEF MainTest, MainGo, startVars
<1>2. k \in Nat \ {0} BY DEF TInv, Main
<1>3. CASE main' = "wait" BY <1>1, <1>2, <1>3, TInvMain
<1>4. CASE stats_initialized >= N /\ main' = "unlock"
  <2>1. /\ N \in Nat /\ Stored \subseteq 1..N /\ IsFiniteSet(Stored)
        /\ IsFiniteSet(1..N) /\ Cardinality(1..N) = N
    BY ThreadingBounds DEF TInv
  <2>2. Cardinality(Stored) \in Nat /\ Cardinality(Stored) >= N
    <3>1. stats_initialized = Cardinality(Stored) BY DEF TInv, Threading
    <3> QED BY <1>4, <2>1, <3>1, FS_CardinalityType
  <2>3. Stored = 1..N
    <3>1. Cardinality(Stored) <= N /\ (Cardinality(Stored) = N => Stored = 1..N)
      BY <2>1, FS_Subset
    <3> QED BY <2>1, <2>2, <3>1
  <2> QED BY <1>1, <1>2, <1>4, <2>3, TInvMain
<1> QED BY <1>3, <1>4 DEF MainTest, MainGo

LEMMA TInvStep == SetupsOk /\ TInv /\ [ThreadsNext]_threadsVars => TInv'
<1> SUFFICES ASSUME SetupsOk, TInv, [ThreadsNext]_threadsVars PROVE TInv' OBVIOUS
<1>0. MaxThreads \in Nat \ {0} /\ k \in Nat \ {0} BY DEF SetupsOk, TInv, Main
<1>1. CASE conf_load
  <2>1. CASE ConfFatal(setup)
    <3>1. Starting("conf", "exit") /\ UNCHANGED dns_addrs BY <1>1, <2>1 DEF conf_load
    <3>2. Threading' /\ Stored' = Stored BY <3>1, ThreadingUnchanged DEF TInv, Starting
    <3> QED BY <3>1, <3>2, TInvStarting
  <2>2. CASE ~ConfFatal(setup)
    <3>1. Starting("conf", "bind") /\ dns_addrs' = process_listen(setup) BY <1>1, <2>2 DEF conf_load
    <3>2. /\ main = "conf"
          /\ UNCHANGED <<setup, k, th, stats_initialized, dnspacket_stats, exiter>> BY <3>1 DEF Starting
    <3>3. Listeners(dns_addrs)'
      <4>1. setup \in Setups BY DEF TInv, Threading
      <4>2. Listeners(process_listen(setup)) BY <2>2, <4>1 DEF SetupsOk
      <4> QED BY <3>1, <4>2 DEF Listeners
    <3>4. \A t \in Thread : th[t] = "none"
      <4>1. k = 1 /\ \A t \in Thread : t >= k => th[t] = "none" BY <3>2 DEF TInv, Main
      <4> QED BY <1>0, <4>1 DEF Thread
    <3>5. Stored' = Stored BY <3>2 DEF Stored
    <3>6. Threading' BY <3>2, <3>3, <3>4, <3>5 DEF TInv, Threading
    <3> QED BY <3>1, <3>5, <3>6, TInvStarting
  <2> QED BY <2>1, <2>2
<1>2. CASE dns_lsock_init
  <2>1. Starting("bind", "secure") /\ UNCHANGED dns_addrs BY <1>2 DEF dns_lsock_init
  <2>2. Threading' /\ Stored' = Stored BY <2>1, ThreadingUnchanged DEF TInv, Starting
  <2> QED BY <2>1, <2>2, TInvStarting
<1>3. CASE BindFails
  <2>1. Starting("bind", "exit") /\ UNCHANGED dns_addrs BY <1>3 DEF BindFails
  <2>2. Threading' /\ Stored' = Stored BY <2>1, ThreadingUnchanged DEF TInv, Starting
  <2> QED BY <2>1, <2>2, TInvStarting
<1>4. CASE secure_me
  <2>1. Starting("secure", "create") /\ UNCHANGED dns_addrs BY <1>4 DEF secure_me
  <2>2. Threading' /\ Stored' = Stored BY <2>1, ThreadingUnchanged DEF TInv, Starting
  <2> QED BY <2>1, <2>2, TInvStarting
<1>5. CASE EarlySignal
  <2>1. PICK from \in {"conf", "bind", "secure"} : Starting(from, "exit") BY <1>5 DEF EarlySignal
  <2>2. UNCHANGED dns_addrs BY <1>5 DEF EarlySignal
  <2>3. Threading' /\ Stored' = Stored BY <2>1, <2>2, ThreadingUnchanged DEF TInv, Starting
  <2> QED BY <2>1, <2>3, TInvStarting
<1>6. CASE pthread_create BY <1>0, <1>6, TInvCreate
<1>7. CASE CreateFails BY <1>0, <1>7, TInvMain DEF CreateFails, startVars
<1>8. CASE RegisterCleanup BY <1>0, <1>8, TInvMain DEF RegisterCleanup, startVars
<1>9. CASE MainLock BY <1>0, <1>9, TInvMain DEF MainLock, MainGo, startVars
<1>10. CASE MainTest BY <1>0, <1>10, TInvTest
<1>11. CASE MainUnlock BY <1>0, <1>11, TInvMain DEF MainUnlock, MainGo, startVars, TInv, Main
<1>12. CASE Running BY <1>0, <1>12, TInvMain DEF Running, MainGo, startVars, TInv, Main
<1>13. CASE SpuriousWakeup BY <1>0, <1>13, TInvMain DEF SpuriousWakeup, MainGo, startVars
<1>14. CASE Terminate BY <1>0, <1>14, TInvMain DEF Terminate, startVars, TInv, Main
<1>15. CASE pthread_cancel BY <1>0, <1>15, TInvMain DEF pthread_cancel, startVars, TInv, Main
<1>16. CASE pthread_join BY <1>0, <1>16, TInvMain DEF pthread_join, startVars, TInv, Main
<1>17. CASE Signal BY <1>0, <1>17, TInvMain DEF Signal, startVars, TInv, Main
<1>18. ASSUME NEW t \in Thread, ThreadStep(t) \/ LateBind(t) \/ ThreadFatal(t) PROVE TInv'
  <2>1. CASE ThreadLock(t) BY <2>1, TInvLock
  <2>2. CASE dnspacket_init_stats(t) BY <1>0, <2>2, TInvStats
  <2>3. CASE ThreadUnlock(t)
    <3>1. PICK to \in {"late", "serve"} : th' = [th EXCEPT ![t] = to]
      BY <2>3 DEF ThreadUnlock, ThreadGo
    <3>2. t \in Stored /\ to \in Late BY <2>3 DEF ThreadUnlock, ThreadGo, Stored, Late
    <3> QED BY <2>3, <3>1, <3>2, TInvThread DEF ThreadUnlock, ThreadGo, startVars
  <2>4. CASE LateBind(t)
    <3>1. PICK to \in {"dead", "serve"} : th' = [th EXCEPT ![t] = to] BY <2>4 DEF LateBind, ThreadGo
    <3>2. t \in Stored /\ to \in Late BY <2>4 DEF LateBind, Stored, Late
    <3> QED BY <2>4, <3>1, <3>2, TInvThread DEF LateBind, ThreadGo, startVars
  <2>5. CASE CancelTakesEffect(t)
    <3>1. t \in Stored /\ "dead" \in Late BY <2>5 DEF CancelTakesEffect, Stored, Late
    <3>2. free \notin Thread BY <1>0 DEF free, Thread
    <3> QED BY <2>5, <3>1, <3>2, TInvThread DEF CancelTakesEffect, startVars
  <2>6. CASE ExiterCleanup(t)
    <3>1. t \in Stored /\ "dead" \in Late BY <2>6 DEF ExiterCleanup, Late, TInv, Main
    <3>2. free \notin Thread BY <1>0 DEF free, Thread
    <3> QED BY <2>6, <3>1, <3>2, TInvThread DEF ExiterCleanup, startVars
  <2>7. CASE ExiterEnds(t) BY <1>0, <2>7, TInvMain DEF ExiterEnds, startVars, TInv, Main
  <2>8. CASE ThreadFatal(t)
    <3>1. t \in Stored BY <2>8 DEF ThreadFatal, Stored, Late
    <3>2. UNCHANGED <<setup, dns_addrs, th, stats_initialized, dnspacket_stats, main, k>> /\ exiter' = t
      BY <2>8 DEF ThreadFatal, startVars
    <3>3. Threading' /\ Stored' = Stored /\ N' = N BY <3>2, ThreadingUnchanged DEF TInv
    <3>4. Main' BY <3>1, <3>2, <3>3 DEF TInv, Main
    <3> QED BY <3>3, <3>4 DEF TInv
  <2> QED BY <1>18, <2>1, <2>2, <2>3, <2>4, <2>5, <2>6, <2>7, <2>8 DEF ThreadStep
<1>19. CASE UNCHANGED threadsVars BY <1>0, <1>19, TInvMain DEF threadsVars, startVars, TInv, Main
<1> QED BY <1>1, <1>2, <1>3, <1>4, <1>5, <1>6, <1>7, <1>8, <1>9, <1>10, <1>11, <1>12, <1>13, <1>14,
           <1>15, <1>16, <1>17, <1>18, <1>19 DEF ThreadsNext, MainStep

\* The main thread never reads a stats pointer that no thread has stored: once
\* dnspacket_wait_stats lets it go on to statio_start, and until the process ends,
\* the stored pointers are those of all the listeners, each under its own number.
THEOREM StatsReadyAlways == ThreadsSpec => []StatsReady
<1>1. ThreadsInit => TInv BY ThreadsAssumption, TInvInit
<1>2. TInv /\ [ThreadsNext]_threadsVars => TInv' BY ThreadsAssumption, TInvStep
<1>3. TInv => StatsReady BY DEF TInv, Main, Threading, StatsReady
<1> QED BY <1>1, <1>2, <1>3, PTL DEF ThreadsSpec
=============================================================================
