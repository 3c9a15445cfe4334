------------------------------ MODULE DnsioTcp ------------------------------
(***************************************************************************)
(* One TCP DNS listener thread (gdnsd/dnsio_tcp.c): its listening socket,  *)
(* the accept watcher, and the connections it serves on its event loop.    *)
(*                                                                         *)
(* A callback runs to completion, and after accept() or a complete query   *)
(* it calls the next handler directly, so a handler is described by the    *)
(* set of connection states it may leave behind.  This is the build with   *)
(* TCP_DEFER_ACCEPT (Linux).  Time is counted in ticks: a timer fires when *)
(* its age has reached Timeout, before time goes on.                       *)
(***************************************************************************)
EXTENDS Naturals, FiniteSets

CONSTANTS Conn,              \* connection slots of the model
          MaxClients,        \* tcp_clients_per_socket
          RecvSize,          \* DNS_RECV_SIZE
          MaxResp,           \* largest response process_dns_query returns
          Timeout,           \* tcp_timeout, in ticks
          LateBind,          \* late_bind_secs is configured
          OneByteSegments    \* may the first byte of a query arrive alone?

ASSUME TcpAssumption ==
    /\ IsFiniteSet(Conn)
    /\ MaxClients \in Nat \ {0}
    /\ RecvSize \in Nat /\ RecvSize >= 2
    /\ MaxResp \in Nat /\ Timeout \in Nat \ {0}
    /\ LateBind \in BOOLEAN /\ OneByteSegments \in BOOLEAN

VARIABLES listener,   \* "setup", "late" (unbound), "up", "dead" or "fatal"
          accept,     \* accept_watcher is active
          num_conn_watchers,
          conn        \* tcpdns_conn_t of every slot

vars == <<listener, accept, num_conn_watchers, conn>>

State == {"READING_INITIAL", "READING_MORE", "WRITING"}

ConnRec == [open : BOOLEAN, state : State, size : Nat, size_done : Nat,
            read : BOOLEAN, write : BOOLEAN,
            age : 0..Timeout,     \* of the timeout watcher
            idle : 0..(Timeout + 1),  \* history: ticks since accept or a response
            whole : BOOLEAN]      \* history: only complete queries were processed

Freed == [open |-> FALSE, state |-> "READING_INITIAL", size |-> 0, size_done |-> 0,
          read |-> FALSE, write |-> FALSE, age |-> 0, idle |-> 0, whole |-> TRUE]

TypeOK ==
    /\ listener \in {"setup", "late", "up", "dead", "fatal"}
    /\ accept \in BOOLEAN
    /\ num_conn_watchers \in 0..MaxClients
    /\ conn \in [Conn -> ConnRec]

Init ==
    /\ listener = "setup" /\ accept = FALSE /\ num_conn_watchers = 0
    /\ conn = [c \in Conn |-> Freed]

Open == {c \in Conn : conn[c].open}

-----------------------------------------------------------------------------
(* tcp_write_handler: the states it may leave connection d in.             *)

\* The whole response is out: restart the timer and read the next query.
Written(d) ==
    [d EXCEPT !.state = "READING_INITIAL", !.write = FALSE, !.read = TRUE,
              !.size = 0, !.size_done = 0, !.age = 0, !.idle = 0]

AfterWrite(d) ==
    {Freed, Written(d), [d EXCEPT !.write = TRUE]}       \* error, all, EAGAIN
      \cup {[d EXCEPT !.size_done = @ + n, !.write = TRUE] :
               n \in 1..(d.size - d.size_done - 1)}

(* tcp_read_handler *)

\* process_dns_query() on the bytes read, then the first attempt to write.
Process(d) ==
    LET q == [d EXCEPT !.whole = @ /\ d.size >= 2 /\ d.size_done >= d.size]
    IN  {Freed} \cup                                     \* no response
        UNION {AfterWrite([q EXCEPT !.read = FALSE, !.state = "WRITING",
                                    !.size = r + 2, !.size_done = 0]) :
                  r \in 1..MaxResp}

\* (Mutant) Every segment restarts the timer.
MutNeedMore(d) == [d EXCEPT !.read = TRUE, !.age = 0]

NeedMore(d) == [d EXCEPT !.read = TRUE]

\* (Mutant) A query is taken for complete one byte early.
MutFramed(d) == IF d.size_done + 1 < d.size THEN {NeedMore(d)} ELSE Process(d)

Framed(d) == IF d.size_done < d.size THEN {NeedMore(d)} ELSE Process(d)

\* With the first two bytes the length of the query is known.
Received(d) ==
    IF d.state = "READING_INITIAL" /\ d.size_done > 1
    THEN {Freed} \cup                                    \* oversized
         UNION {Framed([d EXCEPT !.size = s, !.state = "READING_MORE"]) : s \in 2..RecvSize}
    ELSE Framed(d)

wanted(d) == (IF d.state = "READING_INITIAL" THEN RecvSize ELSE d.size) - d.size_done

Segment(d) ==
    {n \in 1..wanted(d) : n > 1 \/ OneByteSegments \/ d.state = "READING_MORE"}

AfterRead(d) ==
    {Freed, NeedMore(d)}                                 \* end of file or error, EAGAIN
      \cup UNION {Received([d EXCEPT !.size_done = @ + n]) : n \in Segment(d)}

-----------------------------------------------------------------------------
(* Handlers.                                                               *)

\* (Mutant) cleanup_conn_watchers compares after the decrement.
MutLeave(c, d, num, acc) ==
    /\ conn' = [conn EXCEPT ![c] = d]
    /\ num_conn_watchers' = IF d.open THEN num ELSE num - 1
    /\ accept' = IF ~d.open /\ num - 1 = MaxClients THEN TRUE ELSE acc

\* Connection c goes on as d.  cleanup_conn_watchers frees it when d is closed,
\* and restarts the accept watcher if the thread was at its limit.
Leave(c, d, num, acc) ==
    /\ conn' = [conn EXCEPT ![c] = d]
    /\ num_conn_watchers' = IF d.open THEN num ELSE num - 1
    /\ accept' = IF ~d.open /\ num = MaxClients THEN TRUE ELSE acc

\* accept() succeeds; with TCP_DEFER_ACCEPT the query is read at once.
accept_handler(c) ==
    /\ accept /\ ~conn[c].open
    /\ \E d \in AfterRead([Freed EXCEPT !.open = TRUE]) :
          Leave(c, d, num_conn_watchers + 1,
                accept /\ num_conn_watchers + 1 # MaxClients)
    /\ UNCHANGED listener

tcp_read_handler(c) ==
    /\ conn[c].open /\ conn[c].read
    /\ \E d \in AfterRead(conn[c]) : Leave(c, d, num_conn_watchers, accept)
    /\ UNCHANGED listener

tcp_write_handler(c) ==
    /\ conn[c].open /\ conn[c].write
    /\ \E d \in AfterWrite(conn[c]) : Leave(c, d, num_conn_watchers, accept)
    /\ UNCHANGED listener

\* (Mutant) The timed-out connection is logged but not freed.
Muttcp_timeout_handler(c) ==
    /\ conn[c].open /\ conn[c].age = Timeout
    /\ UNCHANGED vars

tcp_timeout_handler(c) ==
    /\ conn[c].open /\ conn[c].age = Timeout
    /\ Leave(c, Freed, num_conn_watchers, accept)
    /\ UNCHANGED listener

Tick ==
    /\ Open # {} /\ \A c \in Open : conn[c].age < Timeout
    /\ conn' = [c \in Conn |-> IF conn[c].open
                               THEN [conn[c] EXCEPT !.age = @ + 1,
                                       !.idle = IF @ > Timeout THEN @ ELSE @ + 1]
                               ELSE conn[c]]
    /\ UNCHANGED <<listener, accept, num_conn_watchers>>

-----------------------------------------------------------------------------
(* tcp_dns_listen_setup and the start of the thread.                       *)

Up == listener' = "up" /\ accept' = TRUE /\ UNCHANGED <<num_conn_watchers, conn>>

tcp_dns_listen_setup ==
    /\ listener = "setup"
    /\ \/ Up
       \/ /\ listener' \in {"fatal"} \cup (IF LateBind THEN {"late"} ELSE {})
          /\ UNCHANGED <<accept, num_conn_watchers, conn>>

\* The late bind succeeds, or fails for another reason than EADDRNOTAVAIL and
\* the thread exits, or listen() fails and ends the process.
late_bind ==
    /\ listener = "late"
    /\ \/ Up
       \/ /\ listener' \in {"dead", "fatal"}
          /\ UNCHANGED <<accept, num_conn_watchers, conn>>

Next ==
    \/ tcp_dns_listen_setup
    \/ late_bind
    \/ \E c \in Conn : \/ accept_handler(c)
                       \/ tcp_read_handler(c)
                       \/ tcp_write_handler(c)
                       \/ tcp_timeout_handler(c)
    \/ Tick

Spec == Init /\ [][Next]_vars

\* Time passes, and the event loop runs expired timers.
FairSpec ==
    Spec /\ WF_vars(Tick) /\ \A c \in Conn : WF_vars(tcp_timeout_handler(c))

-----------------------------------------------------------------------------
(* Properties.                                                             *)

\* num_conn_watchers is the number of live connections, and the listener
\* accepts exactly while it is below tcp_clients_per_socket: a slot freed on
\* any path (end of file, error, timeout, no response, even inside accept)
\* lets the next client in, and the limit is never passed.
AcceptAccounting ==
    /\ num_conn_watchers = Cardinality(Open)
    /\ num_conn_watchers <= MaxClients
    /\ listener = "up" => (accept <=> num_conn_watchers < MaxClients)

\* gdnsd.config.pod on tcp_timeout: idle connections are shut down.  Only a
\* completely written response restarts the clock, so a client that sends or
\* takes its bytes one by one does not hold a slot for longer.
IdleBounded == \A c \in Open : conn[c].idle <= Timeout

\* A slot is never held forever without a response.
SlotsTurnOver == \A c \in Conn : []<>(~conn[c].open \/ conn[c].age = 0)

\* gdnsd.config.pod on tcp_timeout: what restarts the clock is "receiving and
\* responding to a valid query": no response is made from an incomplete one.
OnlyWholeQueries == \A c \in Conn : conn[c].whole
=============================================================================
