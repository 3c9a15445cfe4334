------------------------------- MODULE Statio -------------------------------
(***************************************************************************)
(* The HTTP stats listener (gdnsd/statio.c), served by the main thread's   *)
(* event loop.  As in DnsioTcp a handler is described by the set of        *)
(* connection states it may leave behind, and time by ticks.               *)
(*                                                                         *)
(* A response is a header and a body in two buffers, sent by writev().     *)
(* Bytes have addresses: the header starts at 0 and the body at BODY, so   *)
(* that every byte sent can be compared with the one that was due.         *)
(***************************************************************************)
EXTENDS Naturals, FiniteSets

CONSTANTS Conn,            \* connection slots of the model
          Listener,        \* the listening sockets, lsocks[]
          MaxClients,      \* max_http_clients
          REQ,             \* bytes of the request that matter (8 in the code)
          Sizes,           \* header and body lengths: html, csv or 404
          BODY,            \* address of the body
          Timeout          \* http_timeout, in ticks

ASSUME StatioAssumption ==
    /\ IsFiniteSet(Conn) /\ IsFiniteSet(Listener)
    /\ MaxClients \in Nat \ {0} /\ REQ \in Nat \ {0} /\ Timeout \in Nat \ {0}
    /\ BODY \in Nat /\ Sizes \subseteq (1..BODY) \X (Nat \ {0})

VARIABLES accept,     \* listeners whose accept watcher is active
          num_conn_watchers,
          conn        \* http_data_t of every slot

vars == <<accept, num_conn_watchers, conn>>

State == {"READING_REQ", "WRITING_RES", "READING_JUNK"}
Iovec == [base : Nat, len : Nat]

ConnRec == [open : BOOLEAN, state : State, read_done : 0..(REQ - 1),
            read : BOOLEAN, write : BOOLEAN, iovcnt : {1, 2}, iov0 : Iovec, iov1 : Iovec,
            age : 0..Timeout,           \* of the timeout watcher
            size : Sizes \cup {<<0, 0>>},  \* history: the response being sent
            out : Nat, good : BOOLEAN,  \* history: bytes sent, all of them the ones due
            head : BOOLEAN]             \* history: those of the header, at least

Empty == [base |-> 0, len |-> 0]

Freed == [open |-> FALSE, state |-> "READING_REQ", read_done |-> 0, read |-> FALSE,
          write |-> FALSE, iovcnt |-> 2, iov0 |-> Empty, iov1 |-> Empty, age |-> 0,
          size |-> <<0, 0>>, out |-> 0, good |-> TRUE, head |-> TRUE]

TypeOK ==
    /\ accept \subseteq Listener
    /\ num_conn_watchers \in 0..MaxClients
    /\ conn \in [Conn -> ConnRec]

\* statio_start has started the accept watchers.
Init ==
    /\ accept = Listener /\ num_conn_watchers = 0
    /\ conn = [c \in Conn |-> Freed]

Open == {c \in Conn : conn[c].open}

-----------------------------------------------------------------------------
(* write_cb: the states it may leave connection d in.                      *)

\* The byte due after p bytes.
Due(d, p) == IF p < d.size[1] THEN p ELSE BODY + (p - d.size[1])

\* The address of byte j (from 0) of what writev() is given.
Given(d, j) ==
    IF d.iovcnt = 1 THEN d.iov1.base + j
    ELSE IF j < d.iov0.len THEN d.iov0.base + j ELSE d.iov1.base + (j - d.iov0.len)

available(d) == IF d.iovcnt = 1 THEN d.iov1.len ELSE d.iov0.len + d.iov1.len

tosend(d) == IF d.iovcnt = 1 THEN d.iov0.len ELSE d.iov0.len + d.iov1.len

\* writev() takes n bytes.
Writev(d, n) ==
    [d EXCEPT !.out = @ + n,
              !.good = @ /\ \A j \in 0..(n - 1) : Given(d, j) = Due(d, d.out + j),
              !.head = @ /\ \A j \in 0..(n - 1) :
                              d.out + j < d.size[1] => Given(d, j) = Due(d, d.out + j)]

\* (Mutant) A partial header is sent again from its start.
MutAdvance(d, n) ==
    IF n < d.iov0.len
    THEN [d EXCEPT !.iov0.len = @ - n]
    ELSE [d EXCEPT !.iov1 = [base |-> d.iov0.base + (n - d.iov0.len),
                             len |-> @.len - (n - d.iov0.len)],
                   !.iovcnt = 1]

\* The bookkeeping after a partial write, as the code has it: the rest of the
\* body is taken from outbufs[0].iov_base.
Advance(d, n) ==
    IF n < d.iov0.len
    THEN [d EXCEPT !.iov0 = [base |-> @.base + n, len |-> @.len - n]]
    ELSE [d EXCEPT !.iov1 = [base |-> d.iov0.base + (n - d.iov0.len),
                             len |-> @.len - (n - d.iov0.len)],
                   !.iovcnt = 1]

Linger(d) == [d EXCEPT !.state = "READING_JUNK", !.write = FALSE, !.read = TRUE]

\* The socket takes any number of bytes.
Accepted(d) == 1..available(d)

AfterWrite(d) ==
    {Freed, d}                                           \* error, EAGAIN
      \cup {IF n = tosend(d) THEN Linger(Writev(d, n)) ELSE Advance(Writev(d, n), n) :
               n \in Accepted(d)}

-----------------------------------------------------------------------------
(* read_cb                                                                 *)

\* process_http_query fills the two buffers, and the response is written next.
Respond(d, s) ==
    [d EXCEPT !.state = "WRITING_RES", !.read_done = 0, !.read = FALSE, !.write = TRUE,
              !.iov0 = [base |-> 0, len |-> s[1]], !.iov1 = [base |-> BODY, len |-> s[2]],
              !.size = s]

\* (Mutant) Every byte of a request restarts the timeout.
MutReadReq(d) ==
    {Freed, d} \cup
    {[d EXCEPT !.read_done = @ + n, !.age = 0] : n \in 0..(REQ - 1 - d.read_done)} \cup
    {Respond(d, s) : s \in Sizes}

\* Error or EAGAIN; an end of file (n = 0) or a part of the request; all of it.
ReadReq(d) ==
    {Freed, d} \cup
    {[d EXCEPT !.read_done = @ + n] : n \in 0..(REQ - 1 - d.read_done)} \cup
    {Respond(d, s) : s \in Sizes}

\* Draining: end of file or error, or more junk.
AfterRead(d) == IF d.state = "READING_JUNK" THEN {Freed, d} ELSE ReadReq(d)

-----------------------------------------------------------------------------
(* Callbacks.                                                              *)

\* (Mutant) Only the listener with a free slot is watched again.
MutLeave(c, d, num, acc) ==
    /\ conn' = [conn EXCEPT ![c] = d]
    /\ num_conn_watchers' = IF d.open THEN num ELSE num - 1
    /\ accept' = IF ~d.open /\ num = MaxClients THEN {CHOOSE l \in Listener : TRUE} ELSE acc

\* Connection c goes on as d; cleanup_conn_watchers frees it when d is closed,
\* and restarts all the accept watchers if the limit had been reached.
Leave(c, d, num, acc) ==
    /\ conn' = [conn EXCEPT ![c] = d]
    /\ num_conn_watchers' = IF d.open THEN num ELSE num - 1
    /\ accept' = IF ~d.open /\ num = MaxClients THEN Listener ELSE acc

\* accept() succeeds; at the limit all the accept watchers are stopped.  With
\* TCP_DEFER_ACCEPT the request is read at once.
accept_cb(l, c) ==
    /\ l \in accept /\ ~conn[c].open
    /\ \E d \in AfterRead([Freed EXCEPT !.open = TRUE, !.read = TRUE]) :
          Leave(c, d, num_conn_watchers + 1,
                IF num_conn_watchers + 1 = MaxClients THEN {} ELSE accept)

read_cb(c) ==
    /\ conn[c].open /\ conn[c].read
    /\ \E d \in AfterRead(conn[c]) : Leave(c, d, num_conn_watchers, accept)

write_cb(c) ==
    /\ conn[c].open /\ conn[c].write
    /\ \E d \in AfterWrite(conn[c]) : Leave(c, d, num_conn_watchers, accept)

timeout_cb(c) ==
    /\ conn[c].open /\ conn[c].age = Timeout
    /\ Leave(c, Freed, num_conn_watchers, accept)

Tick ==
    /\ Open # {} /\ \A c \in Open : conn[c].age < Timeout
    /\ conn' = [c \in Conn |-> IF conn[c].open THEN [conn[c] EXCEPT !.age = @ + 1]
                               ELSE conn[c]]
    /\ UNCHANGED <<accept, num_conn_watchers>>

Next ==
    \/ \E l \in Listener, c \in Conn : accept_cb(l, c)
    \/ \E c \in Conn : read_cb(c) \/ write_cb(c) \/ timeout_cb(c)
    \/ Tick

Spec == Init /\ [][Next]_vars

\* Time passes, and the event loop runs expired timers.
FairSpec == Spec /\ WF_vars(Tick) /\ \A c \in Conn : WF_vars(timeout_cb(c))

-----------------------------------------------------------------------------
(* Properties.                                                             *)

\* num_conn_watchers is the number of live connections over all listeners, and
\* either all of them accept or, at max_http_clients, none does: no path that
\* frees a connection leaves a listener deaf, and the limit is shared.
AcceptAccounting ==
    /\ num_conn_watchers = Cardinality(Open)
    /\ accept = IF num_conn_watchers < MaxClients THEN Listener ELSE {}

\* For every sequence of partial writes: the header goes out first, every byte
\* of it once and in order, and nobody lingers without it.  And as long as no
\* write has stopped at the end of the header or in the body (the two buffers
\* are still in use), the rest is in order as well and complete when lingering.
SentInOrder ==
    \A c \in Open :
        /\ conn[c].head
        /\ conn[c].state = "READING_JUNK" => conn[c].out >= conn[c].size[1]
        /\ conn[c].iovcnt = 2 =>
             /\ conn[c].good
             /\ conn[c].state = "READING_JUNK" => conn[c].out = conn[c].size[1] + conn[c].size[2]

\* The comment at junk_buffer: "we send the response and then linger draining
\* the remaining input": whoever is lingering has been sent the complete header
\* and body, every byte once and in order.
ResponseIntact ==
    \A c \in Open : conn[c].state = "READING_JUNK" =>
        conn[c].good /\ conn[c].out = conn[c].size[1] + conn[c].size[2]

\* No client, however slow, holds one of the max_http_clients slots for good.
SlotsTurnOver == \A c \in Conn : []<>(~conn[c].open)
=============================================================================
