----------------------------- MODULE DnsioProofs -----------------------------
(***************************************************************************)
(* Proofs about the DNS listener threads: a TCP listener with any number   *)
(* of connections, any client limit and any message sizes, and a UDP       *)
(* listener with any number of slots.                                      *)
(*                                                                         *)
(* AcceptAccounting is inductive once it also says that a thread that is   *)
(* not up neither accepts nor holds connections (Quiet).  The types of a   *)
(* connection need the handlers' outcome sets unfolded one call at a time: *)
(* the lemmas follow the calls of the code.  IdleBounded rests on the      *)
(* timer's age being the time since the last response (Clocks), and        *)
(* OnlyWholeQueries on what each state of a connection has read (Frames).  *)
(*                                                                         *)
(* The second part is about a UDP listener: every response of a batch      *)
(* of mainloop_mmsg is sent once or counted once as failed, for every      *)
(* udp_recv_width, every number of packets received, every subset of them  *)
(* that is answered and every way in which sendmmsg() stops early.  The    *)
(* argument is about the window of entries of dgrams[] that are still to   *)
(* be handled, dgptr..dgptr+pkts-1.  It stays inside the array, names no   *)
(* slot twice, and separates the slots: those in the window have had       *)
(* nothing done for them, those outside are settled.  Squeezing moves the  *)
(* window's right end, and the loop variable i divides what was looked at  *)
(* from what was not; sending moves its left end.                          *)
(***************************************************************************)
EXTENDS DnsioTcp, DnsioUdp, FiniteSetTheorems, TLAPS

Quiet == listener # "up" => ~accept /\ Open = {}

IInv == TypeOK /\ AcceptAccounting /\ Quiet

-----------------------------------------------------------------------------
(* Types of what the handlers leave behind.                                *)

LEMMA FreedType == Freed \in ConnRec
BY TcpAssumption DEF Freed, ConnRec, State

\* Updates of a connection record, one lemma for each group of fields that the
\* handlers assign together.
LEMMA UpdateWritten ==
    ASSUME NEW d \in ConnRec, NEW st \in State, NEW w \in BOOLEAN, NEW r \in BOOLEAN,
           NEW s \in Nat, NEW sd \in Nat, NEW a \in 0..Timeout,
           NEW idl \in 0..(Timeout + 1)
    PROVE  [d EXCEPT !.state = st, !.write = w, !.read = r, !.size = s,
                     !.size_done = sd, !.age = a, !.idle = idl] \in ConnRec
BY DEF ConnRec

LEMMA UpdateProcess ==
    ASSUME NEW d \in ConnRec, NEW r \in BOOLEAN, NEW st \in State, NEW s \in Nat,
           NEW sd \in Nat
    PROVE  [d EXCEPT !.read = r, !.state = st, !.size = s, !.size_done = sd] \in ConnRec
BY DEF ConnRec

LEMMA UpdateFields ==
    ASSUME NEW d \in ConnRec, NEW b \in BOOLEAN
    PROVE  /\ [d EXCEPT !.write = b] \in ConnRec
           /\ [d EXCEPT !.read = b] \in ConnRec
           /\ [d EXCEPT !.whole = b] \in ConnRec
BY DEF ConnRec

LEMMA UpdateDone ==
    ASSUME NEW d \in ConnRec, NEW n \in Nat
    PROVE  /\ [d EXCEPT !.size_done = n] \in ConnRec
           /\ \A b \in BOOLEAN : [d EXCEPT !.size_done = n, !.write = b] \in ConnRec
           /\ \A st \in State : [d EXCEPT !.size = n, !.state = st] \in ConnRec
BY DEF ConnRec

LEMMA UpdateClock ==
    ASSUME NEW d \in ConnRec, NEW a \in 0..Timeout, NEW idl \in 0..(Timeout + 1)
    PROVE  /\ [d EXCEPT !.age = a, !.idle = idl] \in ConnRec
           /\ [d EXCEPT !.age = a, !.idle = idl].open = d.open
BY DEF ConnRec

\* The constants those updates assign.
LEMMA Values ==
    /\ 0 \in Nat /\ 0 \in 0..Timeout /\ 0 \in 0..(Timeout + 1)
    /\ "READING_INITIAL" \in State /\ "READING_MORE" \in State /\ "WRITING" \in State
    /\ TRUE \in BOOLEAN /\ FALSE \in BOOLEAN
BY TcpAssumption DEF State

LEMMA Counters == \A d \in ConnRec : d.size \in Nat /\ d.size_done \in Nat
BY DEF ConnRec

LEMMA AfterWriteType ==
    ASSUME NEW d \in ConnRec, NEW e \in AfterWrite(d)
    PROVE  e \in ConnRec
<1>1. Written(d) \in ConnRec
  BY UpdateWritten, Values, Zenon DEF Written
<1>2. [d EXCEPT !.write = TRUE] \in ConnRec
  BY UpdateFields, Values, Zenon
<1>3. ASSUME NEW n \in Nat
      PROVE  [d EXCEPT !.size_done = @ + n, !.write = TRUE] \in ConnRec
  <2>1. d.size_done + n \in Nat
    BY Counters
  <2>2. QED
    BY <2>1, UpdateDone, Values, Zenon
<1>4. \A n \in 1..(d.size - d.size_done - 1) : n \in Nat
  BY Counters
<1>5. \/ e = Freed \/ e = Written(d) \/ e = [d EXCEPT !.write = TRUE]
      \/ \E n \in 1..(d.size - d.size_done - 1) :
           e = [d EXCEPT !.size_done = @ + n, !.write = TRUE]
  BY Zenon DEF AfterWrite
<1>6. QED
  BY <1>1, <1>2, <1>3, <1>4, <1>5, FreedType, Zenon

LEMMA ProcessType ==
    ASSUME NEW d \in ConnRec, NEW e \in Process(d)
    PROVE  e \in ConnRec
<1> DEFINE q == [d EXCEPT !.whole = @ /\ d.size >= 2 /\ d.size_done >= d.size]
           w(r) == [q EXCEPT !.read = FALSE, !.state = "WRITING", !.size = r + 2,
                             !.size_done = 0]
<1>1. q \in ConnRec
  <2>1. (d.whole /\ d.size >= 2 /\ d.size_done >= d.size) \in BOOLEAN
    OBVIOUS
  <2>2. QED
    BY <2>1, UpdateFields, Zenon
<1>2. ASSUME NEW r \in Nat PROVE w(r) \in ConnRec
  <2> HIDE DEF q
  <2>1. r + 2 \in Nat
    OBVIOUS
  <2>2. QED
    BY <1>1, <2>1, UpdateProcess, Values, Zenon
<1>3. e = Freed \/ \E r \in 1..MaxResp : e \in AfterWrite(w(r))
  BY Zenon DEF Process
<1>4. \A r \in 1..MaxResp : r \in Nat
  BY TcpAssumption
<1> HIDE DEF q, w
<1>5. QED
  BY <1>2, <1>3, <1>4, FreedType, AfterWriteType, Zenon

LEMMA FramedType ==
    ASSUME NEW d \in ConnRec, NEW e \in Framed(d)
    PROVE  e \in ConnRec
<1>1. NeedMore(d) \in ConnRec
  BY UpdateFields, Values, Zenon DEF NeedMore
<1>2. QED
  BY <1>1, ProcessType, Zenon DEF Framed

LEMMA ReceivedType ==
    ASSUME NEW d \in ConnRec, NEW e \in Received(d)
    PROVE  e \in ConnRec
<1> DEFINE f(s) == [d EXCEPT !.size = s, !.state = "READING_MORE"]
<1>1. ASSUME NEW s \in Nat PROVE f(s) \in ConnRec
  BY UpdateDone, Values, Zenon
<1>2. e = Freed \/ (\E s \in 2..RecvSize : e \in Framed(f(s))) \/ e \in Framed(d)
  BY Zenon DEF Received
<1>3. \A s \in 2..RecvSize : s \in Nat
  BY TcpAssumption
<1> HIDE DEF f
<1>4. QED
  BY <1>1, <1>2, <1>3, FreedType, FramedType, Zenon

LEMMA AfterReadType ==
    ASSUME NEW d \in ConnRec, NEW e \in AfterRead(d)
    PROVE  e \in ConnRec
<1> DEFINE g(n) == [d EXCEPT !.size_done = @ + n]
<1>1. ASSUME NEW n \in Nat PROVE g(n) \in ConnRec
  <2>1. d.size_done + n \in Nat
    BY Counters
  <2>2. QED
    BY <2>1, UpdateDone, Zenon
<1>2. NeedMore(d) \in ConnRec
  BY UpdateFields, Values, Zenon DEF NeedMore
<1>3. e = Freed \/ e = NeedMore(d) \/ \E n \in Segment(d) : e \in Received(g(n))
  BY Zenon DEF AfterRead
<1>4. \A n \in Segment(d) : n \in Nat
  <2>1. \A n \in 1..wanted(d) : n \in Nat
    BY Counters, TcpAssumption DEF wanted
  <2>2. QED
    BY <2>1, Zenon DEF Segment
<1> HIDE DEF g
<1>5. QED
  BY <1>1, <1>2, <1>3, <1>4, FreedType, ReceivedType, Zenon

-----------------------------------------------------------------------------
(* The accounting of connections.                                          *)

LEMMA OpenFinite == IsFiniteSet(Open) /\ Cardinality(Open) \in Nat
BY TcpAssumption, FS_Subset, FS_CardinalityType DEF Open

\* Leaving slot c as d adds c to, or removes it from, the live connections.
LEMMA LeaveOpen ==
    ASSUME TypeOK, NEW c \in Conn, NEW d \in ConnRec, conn' = [conn EXCEPT ![c] = d]
    PROVE  /\ conn' \in [Conn -> ConnRec]
           /\ Open' = IF d.open THEN Open \cup {c} ELSE Open \ {c}
           /\ c \in Open <=> conn[c].open
<1>1. conn' \in [Conn -> ConnRec]
  BY DEF TypeOK
<1>2. \A x \in Conn : conn'[x] = IF x = c THEN d ELSE conn[x]
  BY DEF TypeOK
<1>3. QED
  BY <1>1, <1>2 DEF Open

\* A handler of a live connection keeps the accounting.
LEMMA LiveStep ==
    ASSUME IInv, NEW c \in Conn, conn[c].open, NEW d \in ConnRec,
           Leave(c, d, num_conn_watchers, accept), UNCHANGED listener
    PROVE  IInv'
<1>1. /\ conn' = [conn EXCEPT ![c] = d] /\ listener' = listener
      /\ num_conn_watchers' = IF d.open THEN num_conn_watchers ELSE num_conn_watchers - 1
      /\ accept' = IF ~d.open /\ num_conn_watchers = MaxClients THEN TRUE ELSE accept
  BY DEF Leave
<1>2. /\ conn' \in [Conn -> ConnRec] /\ c \in Open
      /\ Open' = IF d.open THEN Open \cup {c} ELSE Open \ {c}
  BY <1>1, LeaveOpen DEF IInv
<1>3. Cardinality(Open') = IF d.open THEN Cardinality(Open) ELSE Cardinality(Open) - 1
  <2>1. d.open => Open' = Open
    BY <1>2
  <2>2. ~d.open => Cardinality(Open') = Cardinality(Open) - 1
    BY <1>2, OpenFinite, FS_RemoveElement
  <2>3. QED
    BY <2>1, <2>2
<1>4. Cardinality(Open) >= 1
  <2>1. Open # {}
    BY <1>2
  <2>2. QED
    BY <2>1, OpenFinite, FS_EmptySet
<1>5. listener = "up"
  BY <1>2 DEF IInv, Quiet
<1>6. /\ num_conn_watchers = Cardinality(Open) /\ num_conn_watchers \in 0..MaxClients
      /\ accept <=> num_conn_watchers < MaxClients
      /\ accept \in BOOLEAN /\ MaxClients \in Nat
  BY <1>5, TcpAssumption DEF IInv, AcceptAccounting, TypeOK
<1>7. num_conn_watchers' \in 0..MaxClients /\ num_conn_watchers' = Cardinality(Open')
  BY <1>1, <1>3, <1>4, <1>6
<1>8. accept' \in BOOLEAN /\ (accept' <=> num_conn_watchers' < MaxClients)
  <2>1. CASE d.open
    <3>1. num_conn_watchers' = num_conn_watchers /\ accept' = accept
      BY <1>1, <2>1, Zenon
    <3>2. QED
      BY <1>6, <3>1, Zenon
  <2>2. CASE ~d.open
    <3>1. num_conn_watchers' < MaxClients
      BY <1>1, <1>4, <1>6, <2>2
    <3>2. num_conn_watchers # MaxClients => num_conn_watchers < MaxClients
      BY <1>6
    <3>3. accept' \in BOOLEAN /\ accept'
      BY <1>1, <1>6, <2>2, <3>2, Zenon
    <3>4. QED
      BY <3>1, <3>3, Zenon
  <2>3. QED
    BY <2>1, <2>2, Zenon
<1>9. num_conn_watchers' <= MaxClients
  BY <1>6, <1>7
<1>10. QED
  BY <1>1, <1>2, <1>5, <1>7, <1>8, <1>9, Zenon DEF IInv, TypeOK, AcceptAccounting, Quiet

LEMMA InvInit == Init => IInv
<1> SUFFICES ASSUME Init PROVE IInv
  OBVIOUS
<1>1. TypeOK
  <2>1. 0 \in 0..MaxClients
    BY TcpAssumption
  <2>2. conn \in [Conn -> ConnRec]
    BY FreedType DEF Init
  <2>3. QED
    BY <2>1, <2>2 DEF Init, TypeOK
<1>2. Open = {}
  BY DEF Init, Open, Freed
<1>3. QED
  BY <1>1, <1>2, FS_EmptySet, TcpAssumption DEF Init, IInv, AcceptAccounting, Quiet

LEMMA InvNext == IInv /\ [Next]_vars => IInv'
<1> SUFFICES ASSUME IInv, [Next]_vars PROVE IInv'
  OBVIOUS
<1>1. CASE UNCHANGED <<num_conn_watchers, conn>> /\ (Up \/ UNCHANGED accept) /\ listener # "up"
  <2>1. Open = {} /\ ~accept /\ num_conn_watchers = 0 /\ Open' = Open
    BY <1>1, FS_EmptySet DEF IInv, Quiet, AcceptAccounting, Open
  <2>2. CASE Up
    BY <1>1, <2>1, <2>2, FS_EmptySet, TcpAssumption DEF Up, IInv, TypeOK, AcceptAccounting, Quiet
  <2>3. CASE UNCHANGED accept /\ listener' \in {"dead", "fatal", "late"}
    BY <1>1, <2>1, <2>3, FS_EmptySet, TcpAssumption DEF IInv, TypeOK, AcceptAccounting, Quiet
  <2>4. CASE UNCHANGED accept /\ listener' = listener
    BY <1>1, <2>1, <2>4, FS_EmptySet, TcpAssumption DEF IInv, TypeOK, AcceptAccounting, Quiet
  <2>5. tcp_dns_listen_setup \/ late_bind \/ UNCHANGED vars =>
          Up \/ (UNCHANGED accept /\ listener' \in {"dead", "fatal", "late"})
             \/ (UNCHANGED accept /\ listener' = listener)
    BY DEF tcp_dns_listen_setup, late_bind, vars
  <2>6. CASE tcp_dns_listen_setup \/ late_bind \/ UNCHANGED vars
    BY <2>2, <2>3, <2>4, <2>5, <2>6
  <2>7. ~Tick /\ \A c \in Conn : /\ ~accept_handler(c) /\ ~tcp_read_handler(c)
                                 /\ ~tcp_write_handler(c) /\ ~tcp_timeout_handler(c)
    BY <2>1 DEF Tick, accept_handler, tcp_read_handler, tcp_write_handler,
                tcp_timeout_handler, Open
  <2>8. QED
    BY <2>6, <2>7 DEF Next
<1>2. CASE tcp_dns_listen_setup \/ late_bind
  BY <1>1, <1>2 DEF tcp_dns_listen_setup, late_bind, Up
<1>3. ASSUME NEW c \in Conn, accept_handler(c) PROVE IInv'
  <2> DEFINE n == num_conn_watchers + 1
  <2>1. [Freed EXCEPT !.open = TRUE] \in ConnRec
    BY FreedType DEF ConnRec
  <2>2. PICK d \in AfterRead([Freed EXCEPT !.open = TRUE]) :
          Leave(c, d, n, accept /\ n # MaxClients)
    BY <1>3 DEF accept_handler
  <2>3. /\ conn' = [conn EXCEPT ![c] = d] /\ listener' = listener
        /\ num_conn_watchers' = IF d.open THEN n ELSE n - 1
        /\ accept' = IF ~d.open /\ n = MaxClients THEN TRUE ELSE accept /\ n # MaxClients
    BY <1>3, <2>2 DEF Leave, accept_handler
  <2>4. d \in ConnRec
    BY <2>1, <2>2, AfterReadType
  <2>5. /\ conn' \in [Conn -> ConnRec] /\ c \notin Open
        /\ Open' = IF d.open THEN Open \cup {c} ELSE Open \ {c}
    BY <1>3, <2>3, <2>4, LeaveOpen DEF IInv, accept_handler
  <2>6. Cardinality(Open') = IF d.open THEN Cardinality(Open) + 1 ELSE Cardinality(Open)
    <3>1. ~d.open => Open' = Open
      BY <2>5
    <3>2. d.open => Cardinality(Open') = Cardinality(Open) + 1
      BY <2>5, OpenFinite, FS_AddElement
    <3>3. QED
      BY <3>1, <3>2
  <2>7. listener = "up" /\ accept
    BY <1>3 DEF accept_handler, IInv, Quiet
  <2>8. /\ num_conn_watchers = Cardinality(Open) /\ num_conn_watchers \in 0..MaxClients
        /\ num_conn_watchers < MaxClients /\ MaxClients \in Nat
    BY <2>7, TcpAssumption DEF IInv, AcceptAccounting, TypeOK
  <2>9. num_conn_watchers' \in 0..MaxClients /\ num_conn_watchers' = Cardinality(Open')
    BY <2>3, <2>6, <2>8
  <2>10. accept' \in BOOLEAN /\ (accept' <=> num_conn_watchers' < MaxClients)
    <3>1. CASE d.open
      <4>1. num_conn_watchers' = n /\ (n < MaxClients <=> n # MaxClients)
        BY <2>3, <2>8, <3>1
      <4>2. accept' = (accept /\ n # MaxClients)
        BY <2>3, <3>1, Zenon
      <4>3. QED
        BY <2>7, <4>1, <4>2, Zenon
    <3>2. CASE ~d.open
      <4>1. num_conn_watchers' = num_conn_watchers
        BY <2>3, <2>8, <3>2
      <4>2. accept' \in BOOLEAN /\ accept'
        BY <2>3, <2>7, <3>2, Zenon
      <4>3. QED
        BY <2>8, <4>1, <4>2, Zenon
    <3>3. QED
      BY <3>1, <3>2, Zenon
  <2>11. num_conn_watchers' <= MaxClients
    BY <2>8, <2>9
  <2>12. QED
    BY <2>3, <2>5, <2>7, <2>9, <2>10, <2>11, Zenon DEF IInv, TypeOK, AcceptAccounting, Quiet
<1>4. ASSUME NEW c \in Conn, tcp_read_handler(c) PROVE IInv'
  <2>1. PICK d \in AfterRead(conn[c]) : Leave(c, d, num_conn_watchers, accept)
    BY <1>4 DEF tcp_read_handler
  <2>2. d \in ConnRec
    BY <2>1, AfterReadType DEF IInv, TypeOK
  <2>3. QED
    BY <1>4, <2>1, <2>2, LiveStep DEF tcp_read_handler
<1>5. ASSUME NEW c \in Conn, tcp_write_handler(c) PROVE IInv'
  <2>1. PICK d \in AfterWrite(conn[c]) : Leave(c, d, num_conn_watchers, accept)
    BY <1>5 DEF tcp_write_handler
  <2>2. d \in ConnRec
    BY <2>1, AfterWriteType DEF IInv, TypeOK
  <2>3. QED
    BY <1>5, <2>1, <2>2, LiveStep DEF tcp_write_handler
<1>6. ASSUME NEW c \in Conn, tcp_timeout_handler(c) PROVE IInv'
  BY <1>6, FreedType, LiveStep DEF tcp_timeout_handler
<1>7. CASE Tick
  <2> DEFINE older(r) == [r EXCEPT !.age = @ + 1, !.idle = IF @ > Timeout THEN @ ELSE @ + 1]
  <2>1. /\ conn' = [c \in Conn |-> IF conn[c].open THEN older(conn[c]) ELSE conn[c]]
        /\ UNCHANGED <<listener, accept, num_conn_watchers>>
        /\ \A c \in Conn : conn[c].open => conn[c].age < Timeout
    BY <1>7 DEF Tick, Open
  <2>2. ASSUME NEW r \in ConnRec, r.age < Timeout
        PROVE  older(r) \in ConnRec /\ older(r).open = r.open
    <3>1. r.age + 1 \in 0..Timeout
      BY <2>2, TcpAssumption DEF ConnRec
    <3>2. (IF r.idle > Timeout THEN r.idle ELSE r.idle + 1) \in 0..(Timeout + 1)
      BY TcpAssumption DEF ConnRec
    <3>3. QED
      <4>1. \A a \in 0..Timeout : \A idl \in 0..(Timeout + 1) :
              /\ [r EXCEPT !.age = a, !.idle = idl] \in ConnRec
              /\ [r EXCEPT !.age = a, !.idle = idl].open = r.open
        BY UpdateClock, Zenon
      <4>2. QED
        BY <3>1, <3>2, <4>1, Zenon
  <2>3. conn' \in [Conn -> ConnRec] /\ \A c \in Conn : conn'[c].open = conn[c].open
    <3> HIDE DEF older
    <3>1. QED
      BY <2>1, <2>2 DEF IInv, TypeOK
  <2>4. Open' = Open
    BY <2>3 DEF Open
  <2>5. QED
    BY <2>1, <2>3, <2>4 DEF IInv, TypeOK, AcceptAccounting, Quiet
<1>8. CASE UNCHANGED vars
  BY <1>8 DEF vars, IInv, TypeOK, AcceptAccounting, Quiet, Open
<1>9. QED
  BY <1>2, <1>3, <1>4, <1>5, <1>6, <1>7, <1>8 DEF Next

LEMMA Inductive == Spec => []IInv
BY InvInit, InvNext, PTL DEF Spec

\* Type correctness: in particular no connection is counted beyond the limit.
THEOREM TypeCorrect == Spec => []TypeOK
<1>1. IInv => TypeOK
  BY DEF IInv
<1>2. QED
  BY Inductive, <1>1, PTL

\* For every client limit: the counter is the number of live connections, and
\* the thread accepts exactly while it is below tcp_clients_per_socket.
THEOREM AccountingAlways == Spec => []AcceptAccounting
<1>1. IInv => AcceptAccounting
  BY DEF IInv
<1>2. QED
  BY Inductive, <1>1, PTL

-----------------------------------------------------------------------------
(* The timeout.                                                            *)

\* Nothing but accept and a complete response restarts the timer.
Clock(d) == d.idle = d.age
Clocks == \A c \in Conn : Clock(conn[c])

LEMMA AfterWriteClock ==
    ASSUME NEW d \in ConnRec, Clock(d), NEW e \in AfterWrite(d)
    PROVE  Clock(e)
<1>1. Clock(Freed) BY DEF Clock, Freed
<1>2. Clock(Written(d)) BY DEF Clock, Written, ConnRec
<1>3. Clock([d EXCEPT !.write = TRUE]) BY DEF Clock, ConnRec
<1>4. ASSUME NEW n \in Int PROVE Clock([d EXCEPT !.size_done = @ + n, !.write = TRUE])
  BY DEF Clock, ConnRec
<1>5. \A n \in 1..(d.size - d.size_done - 1) : n \in Int
  BY Counters
<1>6. QED
  BY <1>1, <1>2, <1>3, <1>4, <1>5, Zenon DEF AfterWrite

LEMMA ProcessClock ==
    ASSUME NEW d \in ConnRec, Clock(d), NEW e \in Process(d)
    PROVE  Clock(e)
<1> DEFINE q == [d EXCEPT !.whole = @ /\ d.size >= 2 /\ d.size_done >= d.size]
           w(r) == [q EXCEPT !.read = FALSE, !.state = "WRITING", !.size = r + 2,
                             !.size_done = 0]
<1>1. q \in ConnRec /\ Clock(q)
  <2>1. (d.whole /\ d.size >= 2 /\ d.size_done >= d.size) \in BOOLEAN
    OBVIOUS
  <2>2. \A b \in BOOLEAN : [d EXCEPT !.whole = b] \in ConnRec /\ Clock([d EXCEPT !.whole = b])
    BY UpdateFields DEF ConnRec, Clock
  <2>3. QED
    BY <2>1, <2>2, Zenon
<1>2. ASSUME NEW r \in Nat PROVE w(r) \in ConnRec /\ Clock(w(r))
  <2> HIDE DEF q
  <2>1. r + 2 \in Nat
    OBVIOUS
  <2>2. w(r) \in ConnRec
    BY <1>1, <2>1, UpdateProcess, Values, Zenon
  <2>3. Clock(w(r))
    BY <1>1 DEF Clock, ConnRec
  <2>4. QED
    BY <2>2, <2>3
<1>3. e = Freed \/ \E r \in 1..MaxResp : e \in AfterWrite(w(r))
  BY Zenon DEF Process
<1>4. \A r \in 1..MaxResp : r \in Nat
  BY TcpAssumption
<1>5. Clock(Freed)
  BY DEF Clock, Freed
<1> HIDE DEF q, w
<1>6. QED
  BY <1>2, <1>3, <1>4, <1>5, AfterWriteClock, Zenon

LEMMA AfterReadClock ==
    ASSUME NEW d \in ConnRec, Clock(d), NEW e \in AfterRead(d)
    PROVE  Clock(e)
<1>1. \A x \in ConnRec : Clock(x) => \A y \in Framed(x) : Clock(y)
  <2>1. \A x \in ConnRec : Clock(x) => Clock(NeedMore(x))
    BY DEF Clock, NeedMore, ConnRec
  <2>2. QED
    BY <2>1, ProcessClock, Zenon DEF Framed
<1>2. Clock(Freed) /\ Clock(NeedMore(d))
  BY DEF Clock, Freed, NeedMore, ConnRec
<1>3. \A x \in ConnRec : Clock(x) => \A y \in Received(x) : Clock(y)
  <2> SUFFICES ASSUME NEW x \in ConnRec, Clock(x), NEW y \in Received(x) PROVE Clock(y)
    OBVIOUS
  <2> DEFINE f(s) == [x EXCEPT !.size = s, !.state = "READING_MORE"]
  <2>1. ASSUME NEW s \in Nat PROVE f(s) \in ConnRec /\ Clock(f(s))
    <3>1. f(s) \in ConnRec
      BY UpdateDone, Values, Zenon
    <3>2. Clock(f(s))
      BY DEF Clock, ConnRec
    <3>3. QED
      BY <3>1, <3>2
  <2>2. y = Freed \/ (\E s \in 2..RecvSize : y \in Framed(f(s))) \/ y \in Framed(x)
    BY Zenon DEF Received
  <2>3. \A s \in 2..RecvSize : s \in Nat
    BY TcpAssumption
  <2> HIDE DEF f
  <2>4. QED
    BY <1>1, <1>2, <2>1, <2>2, <2>3, Zenon
<1> DEFINE g(n) == [d EXCEPT !.size_done = @ + n]
<1>4. ASSUME NEW n \in Nat PROVE g(n) \in ConnRec /\ Clock(g(n))
  <2>1. d.size_done + n \in Nat
    BY Counters
  <2>2. g(n) \in ConnRec
    BY <2>1, UpdateDone, Zenon
  <2>3. Clock(g(n))
    BY DEF Clock, ConnRec
  <2>4. QED
    BY <2>2, <2>3
<1>5. e = Freed \/ e = NeedMore(d) \/ \E n \in Segment(d) : e \in Received(g(n))
  BY Zenon DEF AfterRead
<1>6. \A n \in Segment(d) : n \in Nat
  BY Counters, TcpAssumption DEF Segment, wanted
<1> HIDE DEF g
<1>7. QED
  BY <1>2, <1>3, <1>4, <1>5, <1>6, Zenon

\* A connection goes on as d, the others as they are.
LEMMA LeaveClocks ==
    ASSUME TypeOK, Clocks, NEW c \in Conn, NEW d, Clock(d), conn' = [conn EXCEPT ![c] = d]
    PROVE  Clocks'
BY DEF TypeOK, Clocks, Clock

LEMMA ClocksNext == TypeOK /\ Clocks /\ [Next]_vars => Clocks'
<1> SUFFICES ASSUME TypeOK, Clocks, [Next]_vars PROVE Clocks'
  OBVIOUS
<1>1. CASE UNCHANGED conn
  BY <1>1 DEF Clocks, Clock
<1>2. ASSUME NEW c \in Conn, accept_handler(c) PROVE Clocks'
  <2>1. PICK d \in AfterRead([Freed EXCEPT !.open = TRUE]) : conn' = [conn EXCEPT ![c] = d]
    BY <1>2 DEF accept_handler, Leave
  <2>2. [Freed EXCEPT !.open = TRUE] \in ConnRec /\ Clock([Freed EXCEPT !.open = TRUE])
    BY FreedType DEF ConnRec, Clock, Freed
  <2>3. QED
    BY <2>1, <2>2, AfterReadClock, LeaveClocks
<1>3. ASSUME NEW c \in Conn, tcp_read_handler(c) PROVE Clocks'
  <2>1. PICK d \in AfterRead(conn[c]) : conn' = [conn EXCEPT ![c] = d]
    BY <1>3 DEF tcp_read_handler, Leave
  <2>2. conn[c] \in ConnRec /\ Clock(conn[c])
    BY DEF TypeOK, Clocks
  <2>3. QED
    BY <2>1, <2>2, AfterReadClock, LeaveClocks
<1>4. ASSUME NEW c \in Conn, tcp_write_handler(c) PROVE Clocks'
  <2>1. PICK d \in AfterWrite(conn[c]) : conn' = [conn EXCEPT ![c] = d]
    BY <1>4 DEF tcp_write_handler, Leave
  <2>2. conn[c] \in ConnRec /\ Clock(conn[c])
    BY DEF TypeOK, Clocks
  <2>3. QED
    BY <2>1, <2>2, AfterWriteClock, LeaveClocks
<1>5. ASSUME NEW c \in Conn, tcp_timeout_handler(c) PROVE Clocks'
  <2>1. conn' = [conn EXCEPT ![c] = Freed] /\ Clock(Freed)
    BY <1>5 DEF tcp_timeout_handler, Leave, Clock, Freed
  <2>2. QED
    BY <2>1, LeaveClocks
<1>6. CASE Tick
  <2>1. ASSUME NEW c \in Conn PROVE Clock(conn'[c])
    <3>1. conn[c] \in ConnRec /\ Clock(conn[c])
      BY DEF TypeOK, Clocks
    <3>2. CASE conn[c].open
      <4>1. conn'[c] = [conn[c] EXCEPT !.age = @ + 1, !.idle = IF @ > Timeout THEN @ ELSE @ + 1]
            /\ conn[c].age < Timeout
        BY <1>6, <3>2 DEF Tick, Open
      <4>2. QED
        BY <3>1, <4>1, TcpAssumption DEF ConnRec, Clock
    <3>3. CASE ~conn[c].open
      BY <1>6, <3>1, <3>3 DEF Tick
    <3>4. QED
      BY <3>2, <3>3
  <2>2. QED
    BY <2>1 DEF Clocks, Clock
<1>7. QED
  BY <1>1, <1>2, <1>3, <1>4, <1>5, <1>6 DEF Next, vars, tcp_dns_listen_setup, late_bind, Up

\* For every timeout and any pace of the client: no connection is older than
\* tcp_timeout since it was accepted or since its last complete response.
THEOREM IdleBoundedAlways == Spec => []IdleBounded
<1>1. Init => Clocks
  BY DEF Init, Clocks, Clock, Freed
<1>2. TypeOK /\ Clocks => IdleBounded
  BY TcpAssumption DEF TypeOK, ConnRec, Clocks, Clock, IdleBounded, Open
<1>3. QED
  BY TypeCorrect, ClocksNext, <1>1, <1>2, PTL DEF Spec

-----------------------------------------------------------------------------
(* Framing.                                                                *)

\* Whoever is still waiting for the length of a query has read nothing of it;
\* whoever waits for the rest knows a length of at least the length field; and
\* only a connection with a response to write is written to.
Frame(d) ==
    /\ d.whole
    /\ d.state = "READING_INITIAL" => d.size = 0 /\ d.size_done = 0
    /\ d.state = "READING_MORE" => d.size >= 2
    /\ d.state = "WRITING" => ~d.read
    /\ d.state # "WRITING" => ~d.write
Frames == \A c \in Conn : Frame(conn[c])

LEMMA FreedFrame == Frame(Freed)
BY DEF Frame, Freed

LEMMA AfterWriteFrame ==
    ASSUME NEW d \in ConnRec, Frame(d), d.state = "WRITING", NEW e \in AfterWrite(d)
    PROVE  Frame(e)
<1>1. Frame(Written(d))
  BY DEF Frame, Written, ConnRec
<1>2. Frame([d EXCEPT !.write = TRUE])
  BY DEF Frame, ConnRec
<1>3. ASSUME NEW n \in Int PROVE Frame([d EXCEPT !.size_done = @ + n, !.write = TRUE])
  BY DEF Frame, ConnRec
<1>4. \A n \in 1..(d.size - d.size_done - 1) : n \in Int
  BY Counters
<1>5. QED
  BY <1>1, <1>2, <1>3, <1>4, FreedFrame, Zenon DEF AfterWrite

\* A query is processed only when all its bytes are there.
LEMMA ProcessFrame ==
    ASSUME NEW d \in ConnRec, d.whole, d.size >= 2, d.size_done >= d.size, ~d.write,
           NEW e \in Process(d)
    PROVE  Frame(e)
<1> DEFINE q == [d EXCEPT !.whole = @ /\ d.size >= 2 /\ d.size_done >= d.size]
           w(r) == [q EXCEPT !.read = FALSE, !.state = "WRITING", !.size = r + 2,
                             !.size_done = 0]
<1>1. q \in ConnRec /\ q.whole
  <2>1. d.whole /\ d.size >= 2 /\ d.size_done >= d.size
    OBVIOUS
  <2>2. q = [d EXCEPT !.whole = TRUE]
    BY <2>1
  <2>3. [d EXCEPT !.whole = TRUE] \in ConnRec /\ [d EXCEPT !.whole = TRUE].whole
    BY DEF ConnRec
  <2>4. QED
    BY <2>2, <2>3, Zenon
<1>2. ASSUME NEW r \in Nat PROVE w(r) \in ConnRec /\ Frame(w(r)) /\ w(r).state = "WRITING"
  <2> HIDE DEF q
  <2>1. r + 2 \in Nat
    OBVIOUS
  <2>2. w(r) \in ConnRec
    BY <1>1, <2>1, UpdateProcess, Values, Zenon
  <2>3. Frame(w(r)) /\ w(r).state = "WRITING"
    BY <1>1 DEF Frame, ConnRec
  <2>4. QED
    BY <2>2, <2>3
<1>3. e = Freed \/ \E r \in 1..MaxResp : e \in AfterWrite(w(r))
  BY Zenon DEF Process
<1>4. \A r \in 1..MaxResp : r \in Nat
  BY TcpAssumption
<1> HIDE DEF q, w
<1>5. QED
  BY <1>2, <1>3, <1>4, FreedFrame, AfterWriteFrame, Zenon

LEMMA FramedFrame ==
    ASSUME NEW d \in ConnRec, d.whole, d.state = "READING_MORE", d.size >= 2, ~d.write,
           NEW e \in Framed(d)
    PROVE  Frame(e)
<1>1. Frame(NeedMore(d))
  BY DEF Frame, NeedMore, ConnRec
<1>2. CASE d.size_done < d.size
  BY <1>1, <1>2, Zenon DEF Framed
<1>3. CASE ~(d.size_done < d.size)
  <2>1. e \in Process(d)
    BY <1>3, Zenon DEF Framed
  <2>2. d.size_done >= d.size
    BY <1>3, Counters
  <2>3. QED
    BY <2>1, <2>2, ProcessFrame
<1>4. QED
  BY <1>2, <1>3

\* With unsplit length fields a read leaves a sound frame behind.
LEMMA AfterReadFrame ==
    ASSUME OneByteSegments = FALSE, NEW d \in ConnRec, Frame(d), d.state # "WRITING",
           NEW e \in AfterRead(d)
    PROVE  Frame(e)
<1> DEFINE g(n) == [d EXCEPT !.size_done = @ + n]
<1>1. e = Freed \/ e = NeedMore(d) \/ \E n \in Segment(d) : e \in Received(g(n))
  BY Zenon DEF AfterRead
<1>2. Frame(NeedMore(d))
  BY DEF Frame, NeedMore, ConnRec
<1>3. ASSUME NEW n \in Segment(d), e \in Received(g(n)) PROVE Frame(e)
  <2>1. n \in Nat /\ (n > 1 \/ d.state = "READING_MORE")
    BY Counters, TcpAssumption DEF Segment, wanted
  <2>2. d.size_done + n \in Nat
    BY <2>1, Counters
  <2>3. g(n) \in ConnRec
    BY <2>2, UpdateDone, Zenon
  <2>4. /\ g(n).whole /\ ~g(n).write /\ g(n).state = d.state
        /\ g(n).size = d.size /\ g(n).size_done = d.size_done + n
    BY DEF Frame, ConnRec
  <2> HIDE DEF g
  <2>5. CASE d.state = "READING_MORE"
    <3>1. e \in Framed(g(n))
      BY <1>3, <2>4, <2>5 DEF Received
    <3>2. d.size >= 2
      BY <2>5 DEF Frame
    <3>3. QED
      BY <2>3, <2>4, <2>5, <3>1, <3>2, FramedFrame
  <2>6. CASE d.state = "READING_INITIAL"
    <3> DEFINE f(s) == [g(n) EXCEPT !.size = s, !.state = "READING_MORE"]
    <3>1. g(n).size_done > 1
      BY <2>1, <2>4, <2>6 DEF Frame
    <3>2. e = Freed \/ \E s \in 2..RecvSize : e \in Framed(f(s))
      BY <1>3, <2>4, <2>6, <3>1, Zenon DEF Received
    <3>3. ASSUME NEW s \in 2..RecvSize
          PROVE  /\ f(s) \in ConnRec /\ f(s).whole /\ f(s).state = "READING_MORE"
                 /\ f(s).size >= 2 /\ ~f(s).write
      <4>1. s \in Nat /\ s >= 2
        BY TcpAssumption
      <4>2. f(s) \in ConnRec
        BY <2>3, <4>1, UpdateDone, Values, Zenon
      <4>3. f(s).whole /\ f(s).state = "READING_MORE" /\ f(s).size >= 2 /\ ~f(s).write
        BY <2>3, <2>4, <4>1 DEF ConnRec
      <4>4. QED
        BY <4>2, <4>3
    <3> HIDE DEF f
    <3>4. QED
      BY <3>2, <3>3, FreedFrame, FramedFrame, Zenon
  <2>7. QED
    BY <2>5, <2>6 DEF ConnRec, State
<1>4. QED
  BY <1>1, <1>2, <1>3, FreedFrame

LEMMA LeaveFrames ==
    ASSUME TypeOK, Frames, NEW c \in Conn, NEW d, Frame(d), conn' = [conn EXCEPT ![c] = d]
    PROVE  Frames'
<1>1. ASSUME NEW x \in Conn PROVE Frame(conn'[x])
  <2>1. conn'[x] = IF x = c THEN d ELSE conn[x]
    BY DEF TypeOK
  <2>2. QED
    BY <2>1 DEF Frames
<1>2. QED
  BY <1>1 DEF Frames, Frame

LEMMA FramesNext ==
    ASSUME OneByteSegments = FALSE, TypeOK, Frames, [Next]_vars
    PROVE  Frames'
<1>1. CASE UNCHANGED conn
  BY <1>1 DEF Frames, Frame
<1>2. ASSUME NEW c \in Conn, accept_handler(c) PROVE Frames'
  <2>1. PICK d \in AfterRead([Freed EXCEPT !.open = TRUE]) : conn' = [conn EXCEPT ![c] = d]
    BY <1>2 DEF accept_handler, Leave
  <2>2. /\ [Freed EXCEPT !.open = TRUE] \in ConnRec /\ Frame([Freed EXCEPT !.open = TRUE])
        /\ [Freed EXCEPT !.open = TRUE].state # "WRITING"
    BY FreedType DEF ConnRec, Frame, Freed
  <2>3. Frame(d)
    BY <2>1, <2>2, AfterReadFrame, Zenon
  <2>4. QED
    BY <2>1, <2>3, LeaveFrames
<1>3. ASSUME NEW c \in Conn, tcp_read_handler(c) PROVE Frames'
  <2>1. PICK d \in AfterRead(conn[c]) : conn' = [conn EXCEPT ![c] = d]
    BY <1>3 DEF tcp_read_handler, Leave
  <2>2. conn[c] \in ConnRec /\ Frame(conn[c]) /\ conn[c].read
    BY <1>3 DEF TypeOK, Frames, tcp_read_handler
  <2>3. conn[c].state # "WRITING"
    BY <2>2 DEF Frame
  <2>4. Frame(d)
    BY <2>1, <2>2, <2>3, AfterReadFrame
  <2>5. QED
    BY <2>1, <2>4, LeaveFrames
<1>4. ASSUME NEW c \in Conn, tcp_write_handler(c) PROVE Frames'
  <2>1. PICK d \in AfterWrite(conn[c]) : conn' = [conn EXCEPT ![c] = d]
    BY <1>4 DEF tcp_write_handler, Leave
  <2>2. conn[c] \in ConnRec /\ Frame(conn[c]) /\ conn[c].write
    BY <1>4 DEF TypeOK, Frames, tcp_write_handler
  <2>3. conn[c].state = "WRITING"
    BY <2>2 DEF Frame
  <2>4. Frame(d)
    BY <2>1, <2>2, <2>3, AfterWriteFrame
  <2>5. QED
    BY <2>1, <2>4, LeaveFrames
<1>5. ASSUME NEW c \in Conn, tcp_timeout_handler(c) PROVE Frames'
  <2>1. conn' = [conn EXCEPT ![c] = Freed]
    BY <1>5 DEF tcp_timeout_handler, Leave
  <2>2. QED
    BY <2>1, FreedFrame, LeaveFrames
<1>6. CASE Tick
  <2>1. ASSUME NEW c \in Conn PROVE Frame(conn'[c])
    <3>1. conn[c] \in ConnRec /\ Frame(conn[c])
      BY DEF TypeOK, Frames
    <3> DEFINE idl == IF conn[c].idle > Timeout THEN conn[c].idle ELSE conn[c].idle + 1
    <3>2. conn'[c] = conn[c] \/ conn'[c] = [conn[c] EXCEPT !.age = conn[c].age + 1, !.idle = idl]
      BY <1>6, Zenon DEF Tick
    <3> HIDE DEF idl
    <3>3. Frame([conn[c] EXCEPT !.age = conn[c].age + 1, !.idle = idl])
      BY <3>1 DEF ConnRec, Frame
    <3>4. QED
      BY <3>1, <3>2, <3>3
  <2>2. QED
    BY <2>1 DEF Frames, Frame
<1>7. QED
  BY <1>1, <1>2, <1>3, <1>4, <1>5, <1>6 DEF Next, vars, tcp_dns_listen_setup, late_bind, Up

\* If the two bytes of the length arrive together, no byte of a query is taken
\* for its end and no response is made from an incomplete query, whatever the
\* sizes of the segments after that.
THEOREM WholeQueriesAlways ==
    ASSUME OneByteSegments = FALSE
    PROVE  Spec => []OnlyWholeQueries
<1>1. Init => Frames
  BY FreedFrame DEF Init, Frames
<1>2. TypeOK /\ Frames /\ [Next]_vars => Frames'
  BY FramesNext
<1>3. Frames => OnlyWholeQueries
  BY DEF Frames, Frame, OnlyWholeQueries
<1>4. QED
  BY TypeCorrect, <1>1, <1>2, <1>3, PTL DEF Spec

-----------------------------------------------------------------------------
(* A UDP listener.                                                         *)

\* The type of everything but the flag mmsg.
Ranges ==
    /\ pc \in {"setup", "late", "dead", "fatal", "recv", "compact", "send"}
    /\ dgrams \in [Slot -> Slot] /\ owed \subseteq Slot
    /\ pkts \in 0..Width /\ i \in 1..(Width + 1) /\ dgptr \in 1..(Width + 1)
    /\ sent \in [Slot -> Nat] /\ failed \in [Slot -> Nat]
    /\ sendfail \in Nat /\ recvd \in 0..Width

Flag == mmsg \in BOOLEAN

Window == dgptr..(dgptr + pkts - 1)

InWindow(s) == \E k \in Window : dgrams[k] = s

Settled(s) == sent[s] + failed[s] = IF s \in owed THEN 1 ELSE 0

\* The window stays inside dgrams[] and names no slot twice.
WindowSound ==
    pc \in {"compact", "send"} =>
        /\ dgptr + pkts <= Width + 1
        /\ \A j, k \in Window : dgrams[j] = dgrams[k] => j = k

\* While the batch is squeezed nothing has been sent, every slot that is owed a
\* response is in the window, and the entries before i are all owed one.
Squeezing ==
    pc = "compact" =>
        /\ dgptr = 1 /\ i <= pkts + 1
        /\ \A k \in Slot : k < i => dgrams[k] \in owed
        /\ \A s \in owed : InWindow(s)
        /\ \A s \in Slot : sent[s] = 0 /\ failed[s] = 0

\* While it is sent, the window holds slots that are owed a response and had
\* none, and all the others are settled.
Sending ==
    pc = "send" =>
        /\ \A k \in Window : dgrams[k] \in owed /\ sent[dgrams[k]] = 0 /\ failed[dgrams[k]] = 0
        /\ \A s \in Slot : InWindow(s) \/ Settled(s)

AtRest == pc \in {"setup", "late", "recv"} => \A s \in Slot : Settled(s)

FailedSlots == {s \in Slot : failed[s] = 1}

FailCount ==
    /\ \A s \in Slot : failed[s] \in {0, 1}
    /\ sendfail = Cardinality(FailedSlots)

Batch == Ranges /\ WindowSound /\ Squeezing /\ Sending /\ AtRest /\ FailCount

-----------------------------------------------------------------------------
LEMMA SlotRange ==
  ASSUME WidthOk
  PROVE  \A k : k \in Slot <=> k \in Nat /\ 1 <= k /\ k <= Width
BY DEF Slot, WidthOk

LEMMA FailedFinite ==
  ASSUME WidthOk
  PROVE  IsFiniteSet(FailedSlots) /\ Cardinality(FailedSlots) \in Nat
<1>1. IsFiniteSet(Slot) BY FS_Interval DEF Slot, WidthOk
<1>2. IsFiniteSet(FailedSlots) BY <1>1, FS_Subset DEF FailedSlots
<1> QED BY <1>2, FS_CardinalityType

LEMMA NoneFailed ==
  ASSUME failed' = [s \in Slot |-> 0]
  PROVE  Cardinality(FailedSlots') = 0
<1>1. FailedSlots' = {} BY DEF FailedSlots
<1> QED BY <1>1, FS_EmptySet

LEMMA BatchInit ==
  ASSUME WidthOk, UdpInit
  PROVE  Batch
<1> USE DEF UdpInit, WidthOk
<1>1. FailedSlots = {} BY DEF FailedSlots
<1>2. Cardinality(FailedSlots) = 0 BY <1>1, FS_EmptySet
<1>3. Ranges BY SlotRange DEF Ranges
<1>4. WindowSound /\ Squeezing /\ Sending BY DEF WindowSound, Squeezing, Sending
<1>5. AtRest BY DEF AtRest, Settled
<1> QED BY <1>2, <1>3, <1>4, <1>5 DEF Batch, FailCount

\* One datagram at a time: the single slot is settled in the same step.
LEMMA MainloopBatch ==
  ASSUME WidthOk, Batch, mainloop
  PROVE  Batch'
<1> USE DEF WidthOk
<1>1. PICK r \in SUBSET {1}, ok \in BOOLEAN :
         /\ owed' = r /\ recvd' = 1
         /\ sent' = [s \in Slot |-> IF s \in r /\ ok THEN 1 ELSE 0]
         /\ failed' = [s \in Slot |-> IF s \in r /\ ~ok THEN 1 ELSE 0]
         /\ sendfail' = IF r # {} /\ ~ok THEN 1 ELSE 0
  BY DEF mainloop
<1>2. pc = "recv" /\ UNCHANGED <<pc, dgrams, pkts, i, dgptr>> BY DEF mainloop
<1>3. 1 \in Slot BY DEF Slot
<1>4. Ranges' BY <1>1, <1>2, <1>3 DEF Batch, Ranges
<1>5. (WindowSound /\ Squeezing /\ Sending)' BY <1>2 DEF WindowSound, Squeezing, Sending
<1>6. AtRest' BY <1>1 DEF AtRest, Settled
<1>7. FailedSlots' = IF r # {} /\ ~ok THEN {1} ELSE {}
  <2>1. CASE r # {} /\ ~ok
    <3>1. \A s \in Slot : failed'[s] = IF s = 1 THEN 1 ELSE 0 BY <1>1, <1>3, <2>1
    <3> QED BY <1>3, <2>1, <3>1 DEF FailedSlots
  <2>2. CASE ~(r # {} /\ ~ok)
    <3>1. \A s \in Slot : failed'[s] # 1 BY <1>1, <2>2
    <3> QED BY <2>2, <3>1 DEF FailedSlots
  <2> QED BY <2>1, <2>2
<1>8. sendfail' = Cardinality(FailedSlots')
  BY <1>1, <1>7, FS_EmptySet, FS_Singleton
<1>9. FailCount' BY <1>1, <1>8 DEF FailCount
<1> QED BY <1>4, <1>5, <1>6, <1>9 DEF Batch

LEMMA RecvBatch ==
  ASSUME WidthOk, Batch, NEW n \in Slot, NEW r \in SUBSET (1..n), recvmmsg(n, r)
  PROVE  Batch'
<1> USE SlotRange DEF WidthOk
<1>1. /\ dgrams' = [s \in Slot |-> s] /\ recvd' = n /\ pkts' = n /\ owed' = r
      /\ sent' = [s \in Slot |-> 0] /\ failed' = [s \in Slot |-> 0] /\ sendfail' = 0
      /\ i' = 1 /\ dgptr' = 1 /\ pc' = "compact"
  BY DEF recvmmsg
<1>2. Ranges' BY <1>1 DEF Batch, Ranges
<1>3. WindowSound' BY <1>1 DEF WindowSound, Window
<1>4. Squeezing' BY <1>1 DEF Squeezing, InWindow, Window
<1>5. (Sending /\ AtRest)' BY <1>1 DEF Sending, AtRest
<1>6. FailCount' BY <1>1, NoneFailed DEF FailCount
<1> QED BY <1>2, <1>3, <1>4, <1>5, <1>6 DEF Batch

\* The entries behind i move up by one; the one that is lost is owed nothing.
LEMMA SqueezeBatch ==
  ASSUME WidthOk, Batch, Squeeze
  PROVE  Batch'
<1> USE SlotRange DEF WidthOk
<1>1. /\ pc = "compact" /\ i <= pkts /\ dgrams[i] \notin owed
      /\ dgrams' = [s \in Slot |-> IF s >= i /\ s < pkts THEN dgrams[s + 1] ELSE dgrams[s]]
      /\ pkts' = pkts - 1
      /\ UNCHANGED <<pc, i, owed, dgptr, sent, failed, sendfail, recvd>>
  BY DEF Squeeze
<1>2. Ranges BY DEF Batch
<1>3. dgptr = 1 /\ i \in 1..pkts BY <1>1, <1>2 DEF Batch, Squeezing, Ranges
<1>4. Ranges' BY <1>1, <1>2, <1>3 DEF Ranges
<1>5. \A k \in 1..(pkts - 1) : dgrams'[k] = IF k >= i THEN dgrams[k + 1] ELSE dgrams[k]
  BY <1>1, <1>2 DEF Ranges
<1>6. WindowSound'
  <2>1. \A j, k \in 1..pkts : dgrams[j] = dgrams[k] => j = k
    BY <1>1, <1>2, <1>3 DEF Batch, WindowSound, Window, Ranges
  <2>2. \A j, k \in 1..(pkts - 1) : dgrams'[j] = dgrams'[k] => j = k
    BY <1>2, <1>3, <1>5, <2>1 DEF Ranges
  <2>3. Window' = 1..(pkts - 1) /\ dgptr' + pkts' <= Width + 1
    BY <1>1, <1>2, <1>3 DEF Window, Ranges
  <2> QED BY <2>2, <2>3 DEF WindowSound
<1>7. Squeezing'
  <2>1. \A k \in Slot : k < i => dgrams'[k] \in owed
    BY <1>1, <1>2, <1>3 DEF Batch, Squeezing, Ranges
  <2>2. ASSUME NEW s \in owed PROVE \E k \in 1..(pkts - 1) : dgrams'[k] = s
    <3>1. PICK k \in 1..pkts : dgrams[k] = s
      BY <1>1, <1>2, <1>3 DEF Batch, Squeezing, InWindow, Window, Ranges
    <3>2. k # i BY <1>1, <3>1
    <3>3. CASE k < i
      <4>1. k \in 1..(pkts - 1) /\ dgrams'[k] = s BY <3>1, <3>3, <1>2, <1>3, <1>5 DEF Ranges
      <4> QED BY <4>1
    <3>4. CASE k > i
      <4>1. k - 1 \in 1..(pkts - 1) /\ k - 1 >= i /\ (k - 1) + 1 = k
        BY <3>1, <3>4, <1>2, <1>3 DEF Ranges
      <4>2. dgrams'[k - 1] = s BY <3>1, <4>1, <1>5
      <4> QED BY <4>1, <4>2
    <3> QED BY <3>2, <3>3, <3>4, <1>2, <1>3 DEF Ranges
  <2> QED BY <1>1, <1>2, <1>3, <2>1, <2>2 DEF Batch, Squeezing, InWindow, Window, Ranges
<1>8. (Sending /\ AtRest)' BY <1>1 DEF Sending, AtRest
<1>9. FailCount' BY <1>1 DEF Batch, FailCount, FailedSlots
<1> QED BY <1>4, <1>6, <1>7, <1>8, <1>9 DEF Batch

LEMMA KeepBatch ==
  ASSUME WidthOk, Batch, Keep
  PROVE  Batch'
<1> USE SlotRange DEF WidthOk
<1>1. /\ pc = "compact" /\ i <= pkts /\ dgrams[i] \in owed /\ i' = i + 1
      /\ UNCHANGED <<pc, dgrams, owed, pkts, dgptr, sent, failed, sendfail, recvd>>
  BY DEF Keep
<1>2. Ranges' BY <1>1 DEF Batch, Ranges
<1>3. WindowSound' BY <1>1 DEF Batch, WindowSound, Window
<1>4. Squeezing' BY <1>1 DEF Batch, Squeezing, InWindow, Window, Ranges
<1>5. (Sending /\ AtRest)' BY <1>1 DEF Sending, AtRest
<1>6. FailCount' BY <1>1 DEF Batch, FailCount, FailedSlots
<1> QED BY <1>2, <1>3, <1>4, <1>5, <1>6 DEF Batch

\* Everything left is owed a response, and everything owed one is left.
LEMMA EndCompactBatch ==
  ASSUME WidthOk, Batch, EndCompact
  PROVE  Batch'
<1> USE SlotRange DEF WidthOk
<1>1. pc = "compact" /\ i > pkts /\ pc' = "send" /\ UNCHANGED batch
  BY DEF EndCompact
<1>2. Ranges' BY <1>1 DEF Batch, Ranges, batch
<1>3. WindowSound' BY <1>1 DEF Batch, WindowSound, Window, batch
<1>4. (Squeezing /\ AtRest)' BY <1>1 DEF Squeezing, AtRest
<1>5. Sending'
  <2>1. \A k \in Window : k \in Slot /\ k < i
    BY <1>1 DEF Batch, Squeezing, WindowSound, Window, Ranges
  <2>2. \A k \in Window : dgrams[k] \in owed /\ dgrams[k] \in Slot
    BY <1>1, <2>1 DEF Batch, Squeezing, Ranges
  <2>3. \A s \in Slot : InWindow(s) \/ Settled(s)
    BY <1>1 DEF Batch, Squeezing, Settled
  <2> QED BY <1>1, <2>2, <2>3 DEF Batch, Squeezing, Sending, InWindow, Settled, Window, batch
<1>6. FailCount' BY <1>1 DEF Batch, FailCount, FailedSlots, batch
<1> QED BY <1>2, <1>3, <1>4, <1>5, <1>6 DEF Batch

LEMMA SendAllBatch ==
  ASSUME WidthOk, Batch, SendAll
  PROVE  Batch'
<1> USE SlotRange DEF WidthOk
<1>1. /\ pc = "send" /\ pkts > 0 /\ sent' = Sent(pkts) /\ pkts' = 0
      /\ UNCHANGED <<pc, dgrams, owed, i, dgptr, failed, sendfail, recvd>>
  BY DEF SendAll
<1>2. Ranges BY DEF Batch
<1>3. \A s \in Slot : s \in Leaving(pkts) <=> InWindow(s)
  BY DEF Leaving, InWindow, Window
<1>4. \A s \in Slot : sent'[s] = IF InWindow(s) THEN sent[s] + 1 ELSE sent[s]
  BY <1>1, <1>3 DEF Sent
<1>5. Ranges' BY <1>1, <1>2, <1>4 DEF Ranges, Sent
<1>6. WindowSound' BY <1>1, <1>2 DEF WindowSound, Window, Ranges
<1>7. (Squeezing /\ AtRest)' BY <1>1 DEF Squeezing, AtRest
<1>8. Sending'
  <2>1. Window' = {} BY <1>1, <1>2 DEF Window, Ranges
  <2>2. \A s \in Slot : InWindow(s) => s \in owed /\ sent[s] = 0 /\ failed[s] = 0
    BY <1>1 DEF Batch, Sending, InWindow
  <2>3. \A s \in Slot : Settled(s)'
    BY <1>1, <1>4, <2>2 DEF Batch, Sending, Settled
  <2> QED BY <2>1, <2>3 DEF Sending
<1>9. FailCount' BY <1>1 DEF Batch, FailCount, FailedSlots
<1> QED BY <1>5, <1>6, <1>7, <1>8, <1>9 DEF Batch

\* The n entries before the failed one are sent, it is counted, and the window
\* starts behind it.
LEMMA SendSomeBatch ==
  ASSUME WidthOk, Batch, NEW n \in 0..(Width - 1), SendSome(n)
  PROVE  Batch'
<1> USE SlotRange DEF WidthOk
<1>1. /\ pc = "send" /\ n < pkts /\ sent' = Sent(n)
      /\ failed' = [failed EXCEPT ![dgrams[dgptr + n]] = @ + 1]
      /\ sendfail' = sendfail + 1 /\ dgptr' = dgptr + n + 1 /\ pkts' = pkts - 1 - n
      /\ UNCHANGED <<pc, dgrams, owed, i, recvd>>
  BY DEF SendSome
<1>2. Ranges BY DEF Batch
<1> DEFINE x == dgrams[dgptr + n]
<1>3. dgptr + n \in Window /\ dgptr + n \in Slot /\ x \in Slot
  BY <1>1, <1>2 DEF Batch, WindowSound, Window, Ranges
<1>4. \A k \in Window : k \in Slot
  BY <1>1, <1>2 DEF Batch, WindowSound, Window, Ranges
<1>5. x \in owed /\ sent[x] = 0 /\ failed[x] = 0
  BY <1>1, <1>3 DEF Batch, Sending
<1>6. Ranges'
  <2>1. sent' \in [Slot -> Nat] BY <1>1, <1>2 DEF Sent, Ranges
  <2>2. failed' \in [Slot -> Nat] BY <1>1, <1>2, <1>3 DEF Ranges
  <2>3. dgptr' \in 1..(Width + 1) /\ pkts' \in 0..Width
    BY <1>1, <1>2 DEF Batch, WindowSound, Ranges
  <2> QED BY <1>1, <1>2, <2>1, <2>2, <2>3 DEF Ranges
<1>7. Window' = {k \in Window : k > dgptr + n}
  BY <1>1, <1>2 DEF Window, Ranges
<1>8. \A j, k \in Window : dgrams[j] = dgrams[k] => j = k
  BY <1>1 DEF Batch, WindowSound
<1>9. WindowSound'
  BY <1>1, <1>2, <1>7, <1>8 DEF Batch, WindowSound, Ranges
<1>10. (Squeezing /\ AtRest)' BY <1>1 DEF Squeezing, AtRest
<1>11. \A k \in Window : dgrams[k] \in Leaving(n) <=> k < dgptr + n
  <2>1. \A k \in Window : k < dgptr + n => k \in dgptr..(dgptr + n - 1)
    BY <1>2 DEF Window, Ranges
  <2>2. \A j \in dgptr..(dgptr + n - 1) : j \in Window /\ j < dgptr + n
    BY <1>1, <1>2 DEF Window, Ranges
  <2> QED BY <1>8, <2>1, <2>2 DEF Leaving
<1>12. \A s \in Leaving(n) : InWindow(s)
  <2>1. \A j \in dgptr..(dgptr + n - 1) : j \in Window
    BY <1>1, <1>2 DEF Window, Ranges
  <2> QED BY <2>1 DEF Leaving, InWindow
<1>13. \A s \in Slot : sent'[s] = IF s \in Leaving(n) THEN sent[s] + 1 ELSE sent[s]
  BY <1>1 DEF Sent
<1>14. \A s \in Slot : failed'[s] = IF s = x THEN 1 ELSE failed[s]
  BY <1>1, <1>2, <1>5 DEF Ranges
<1>15. Sending'
  <2>1. ASSUME NEW k \in Window, k > dgptr + n
        PROVE  dgrams[k] \in owed /\ sent'[dgrams[k]] = 0 /\ failed'[dgrams[k]] = 0
    <3>1. dgrams[k] \in owed /\ sent[dgrams[k]] = 0 /\ failed[dgrams[k]] = 0
      BY <1>1 DEF Batch, Sending
    <3>2. dgrams[k] \in Slot BY <1>2, <1>4 DEF Ranges
    <3>3. dgrams[k] # x BY <1>3, <1>4, <1>8, <2>1
    <3>4. dgrams[k] \notin Leaving(n) BY <1>2, <1>4, <1>11, <2>1 DEF Ranges
    <3> QED BY <3>1, <3>2, <3>3, <3>4, <1>13, <1>14
  <2>2. ASSUME NEW s \in Slot, ~InWindow(s)' PROVE Settled(s)'
    <3>1. CASE InWindow(s)
      <4>1. PICK k \in Window : dgrams[k] = s BY <3>1 DEF InWindow
      <4>2. k <= dgptr + n
        BY <1>1, <1>2, <1>4, <1>7, <2>2, <4>1 DEF InWindow, Ranges
      <4>3. s \in owed /\ sent[s] = 0 /\ failed[s] = 0 BY <1>1, <4>1 DEF Batch, Sending
      <4>4. CASE k = dgptr + n
        <5>1. s = x /\ s \notin Leaving(n) BY <1>2, <1>4, <1>11, <4>1, <4>4 DEF Ranges
        <5> QED BY <5>1, <4>3, <1>1, <1>13, <1>14 DEF Settled
      <4>5. CASE k < dgptr + n
        <5>1. s # x /\ s \in Leaving(n) BY <1>2, <1>3, <1>4, <1>8, <1>11, <4>1, <4>5 DEF Ranges
        <5> QED BY <5>1, <4>3, <1>1, <1>13, <1>14 DEF Settled
      <4> QED BY <4>2, <4>4, <4>5, <1>2, <1>4 DEF Ranges
    <3>2. CASE ~InWindow(s)
      <4>1. Settled(s) BY <1>1, <3>2 DEF Batch, Sending
      <4>2. s # x /\ s \notin Leaving(n) BY <1>3, <1>12, <3>2 DEF InWindow
      <4> QED BY <4>1, <4>2, <1>1, <1>13, <1>14 DEF Settled
    <3> QED BY <3>1, <3>2
  <2>3. \A k \in Window' : k \in Window /\ k > dgptr + n /\ dgrams'[k] = dgrams[k] /\ owed' = owed
    BY <1>1, <1>7
  <2>4. \A k \in Window' : dgrams'[k] \in owed' /\ sent'[dgrams'[k]] = 0 /\ failed'[dgrams'[k]] = 0
    BY <2>1, <2>3
  <2> QED BY <2>2, <2>4 DEF Sending
<1>16. FailCount'
  <2>1. FailedSlots' = FailedSlots \cup {x} BY <1>3, <1>14 DEF FailedSlots
  <2>2. x \notin FailedSlots BY <1>5 DEF FailedSlots
  <2>3. Cardinality(FailedSlots') = Cardinality(FailedSlots) + 1
    BY <2>1, <2>2, FailedFinite, FS_AddElement
  <2>4. \A s \in Slot : failed'[s] \in {0, 1} BY <1>14 DEF Batch, FailCount
  <2> QED BY <1>1, <2>3, <2>4 DEF Batch, FailCount
<1> QED BY <1>6, <1>9, <1>10, <1>15, <1>16 DEF Batch

LEMMA EndSendBatch ==
  ASSUME WidthOk, Batch, EndSend
  PROVE  Batch'
<1> USE SlotRange DEF WidthOk
<1>1. pc = "send" /\ pkts = 0 /\ pc' = "recv" /\ UNCHANGED batch
  BY DEF EndSend
<1>2. Ranges' BY <1>1 DEF Batch, Ranges, batch
<1>3. (WindowSound /\ Squeezing /\ Sending)' BY <1>1 DEF WindowSound, Squeezing, Sending
<1>4. \A s \in Slot : Settled(s)
  <2>1. Window = {} BY <1>1 DEF Batch, Ranges, Window
  <2> QED BY <1>1, <2>1 DEF Batch, Sending, InWindow
<1>5. AtRest' BY <1>1, <1>4 DEF AtRest, Settled, batch
<1>6. FailCount' BY <1>1 DEF Batch, FailCount, FailedSlots, batch
<1> QED BY <1>2, <1>3, <1>5, <1>6 DEF Batch

\* Binding leaves the batch alone.
LEMMA SetupBatch ==
  ASSUME WidthOk, Batch, udp_sock_setup \/ udp_late_bind
  PROVE  Batch'
<1>1. /\ pc \in {"setup", "late"} /\ pc' \in {"recv", "fatal", "late", "dead"}
      /\ UNCHANGED batch
  BY DEF Batch, Ranges, udp_sock_setup, udp_late_bind
<1>2. Ranges' BY <1>1 DEF Batch, Ranges, batch
<1>3. (WindowSound /\ Squeezing /\ Sending)' BY <1>1 DEF WindowSound, Squeezing, Sending
<1>4. AtRest' BY <1>1 DEF Batch, AtRest, Settled, batch
<1>5. FailCount' BY <1>1 DEF Batch, FailCount, FailedSlots, batch
<1> QED BY <1>2, <1>3, <1>4, <1>5 DEF Batch

LEMMA BatchNext ==
  ASSUME WidthOk, Batch, [UdpNext]_udpVars
  PROVE  Batch'
<1>1. CASE UNCHANGED udpVars
  BY <1>1 DEF udpVars, Batch, Ranges, WindowSound, Squeezing, Sending, AtRest, FailCount,
              Window, InWindow, Settled, FailedSlots
<1> QED
  BY <1>1, SetupBatch, MainloopBatch, RecvBatch, SqueezeBatch, KeepBatch, EndCompactBatch,
     SendAllBatch, SendSomeBatch, EndSendBatch DEF UdpNext

\* The indices of mainloop_mmsg stay inside dgrams[] and the counters inside
\* their ranges, for every udp_recv_width.
THEOREM UdpTypeCorrect == UdpSpec => []UdpTypeOK
<1>1. UdpInit => Flag BY DEF UdpInit, Flag
<1>2. Flag /\ [UdpNext]_udpVars => Flag'
  <2> SUFFICES ASSUME Flag, [UdpNext]_udpVars PROVE Flag' OBVIOUS
  <2>1. CASE udp_sock_setup
    <3>1. mmsg' = FALSE \/ mmsg' = (Width > 1) BY <2>1 DEF udp_sock_setup
    <3>2. (Width > 1) \in BOOLEAN BY UdpAssumption DEF WidthOk
    <3> QED BY <3>1, <3>2 DEF Flag
  <2>2. CASE UNCHANGED mmsg BY <2>2 DEF Flag
  <2> QED
    BY <2>1, <2>2, Zenon DEF UdpNext, udpVars, udp_late_bind, mainloop, recvmmsg, Squeeze, Keep,
       EndCompact, SendAll, SendSome, EndSend
<1>3. Batch => Ranges BY DEF Batch
<1>4. Ranges /\ Flag => UdpTypeOK BY DEF Ranges, Flag, UdpTypeOK
<1>5. UdpInit => Batch BY UdpAssumption, BatchInit
<1>6. Batch /\ [UdpNext]_udpVars => Batch' BY UdpAssumption, BatchNext
<1> QED BY <1>1, <1>2, <1>3, <1>4, <1>5, <1>6, PTL DEF UdpSpec

(***************************************************************************)
(* When the thread goes back to recvmsg() or recvmmsg(), every query of    *)
(* the batch that was owed a response had it sent exactly once or counted  *)
(* exactly once as failed, and no other query had either, for every        *)
(* udp_recv_width and every sequence of partial sendmmsg() calls.          *)
(***************************************************************************)
THEOREM BatchAccountedAlways == UdpSpec => []BatchAccounted
<1>1. Batch => BatchAccounted
  BY DEF Batch, AtRest, Settled, FailCount, FailedSlots, BatchAccounted
<1>2. UdpInit => Batch BY UdpAssumption, BatchInit
<1>3. Batch /\ [UdpNext]_udpVars => Batch' BY UdpAssumption, BatchNext
<1> QED BY <1>1, <1>2, <1>3, PTL DEF UdpSpec
=============================================================================
