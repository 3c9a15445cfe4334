------------------------------ MODULE DnsioUdp ------------------------------
(***************************************************************************)
(* One UDP DNS listener thread (gdnsd/dnsio_udp.c): binding its socket,    *)
(* and its endless loop.  With udp_recv_width > 1 the loop works on        *)
(* batches: recvmmsg() fills up to Width slots, process_dns_query() makes  *)
(* a response in each, or none; slots without one are squeezed out of      *)
(* dgrams[], and sendmmsg() is called until every response has been sent   *)
(* or has failed.  The pointers in dgrams[] are modelled by the number of  *)
(* the slot whose buffer and client address they point to.  A failed       *)
(* recvmsg() or recvmmsg() only counts recvfail and is a stuttering step.  *)
(***************************************************************************)
EXTENDS Naturals, FiniteSets

CONSTANTS Width,      \* udp_recv_width
          UdpLateBind    \* late_bind_secs is configured

WidthOk == Width \in Nat \ {0}

ASSUME UdpAssumption == WidthOk /\ UdpLateBind \in BOOLEAN

Slot == 1..Width

VARIABLES pc,       \* the thread's control point
          mmsg,     \* the batch loop is used
          dgrams,   \* dgrams[i]: the slot it points to
          owed,     \* slots of the batch whose iov_len is not 0 after processing
          pkts, i,  \* the loop variables
          dgptr,    \* index of the first entry of dgrams[] not yet sent
          sent,     \* per slot: responses that left for its client this batch
          failed,   \* per slot: sendfail increments logged for it this batch
          sendfail, \* increments of stats->p.udp.sendfail this batch
          recvd     \* packets received in this batch

udpVars == <<pc, mmsg, dgrams, owed, pkts, i, dgptr, sent, failed, sendfail, recvd>>

batch == <<dgrams, owed, pkts, i, dgptr, sent, failed, sendfail, recvd>>

UdpTypeOK ==
    /\ pc \in {"setup", "late", "dead", "fatal", "recv", "compact", "send"}
    /\ mmsg \in BOOLEAN /\ dgrams \in [Slot -> Slot] /\ owed \subseteq Slot
    /\ pkts \in 0..Width /\ i \in 1..(Width + 1) /\ dgptr \in 1..(Width + 1)
    /\ sent \in [Slot -> Nat] /\ failed \in [Slot -> Nat]
    /\ sendfail \in Nat /\ recvd \in 0..Width

UdpInit ==
    /\ pc = "setup" /\ mmsg = FALSE
    /\ dgrams = [s \in Slot |-> s] /\ owed = {} /\ pkts = 0 /\ i = 1 /\ dgptr = 1
    /\ sent = [s \in Slot |-> 0] /\ failed = [s \in Slot |-> 0]
    /\ sendfail = 0 /\ recvd = 0

-----------------------------------------------------------------------------
(* udp_sock_setup and the start of the thread.                             *)

\* udp_recv_width becomes 1 on a system without sendmmsg().
udp_sock_setup ==
    /\ pc = "setup"
    /\ mmsg' \in {FALSE, Width > 1}
    /\ pc' \in {"recv", "fatal"} \cup (IF UdpLateBind THEN {"late"} ELSE {})
    /\ UNCHANGED batch

\* The late bind succeeds, or fails for another reason than EADDRNOTAVAIL and
\* the thread exits.
udp_late_bind ==
    /\ pc = "late"
    /\ pc' \in {"recv", "dead"}
    /\ UNCHANGED <<mmsg, batch>>

-----------------------------------------------------------------------------
(* mainloop: one datagram at a time.                                       *)

mainloop ==
    /\ pc = "recv" /\ ~mmsg
    /\ \E r \in SUBSET {1}, ok \in BOOLEAN :
          /\ owed' = r /\ recvd' = 1
          /\ sent' = [s \in Slot |-> IF s \in r /\ ok THEN 1 ELSE 0]
          /\ failed' = [s \in Slot |-> IF s \in r /\ ~ok THEN 1 ELSE 0]
          /\ sendfail' = IF r # {} /\ ~ok THEN 1 ELSE 0
    /\ UNCHANGED <<pc, mmsg, dgrams, pkts, i, dgptr>>

-----------------------------------------------------------------------------
(* mainloop_mmsg                                                           *)

\* The slots are set up, recvmmsg() returns n packets, and process_dns_query()
\* leaves a response in the slots of r.
recvmmsg(n, r) ==
    /\ pc = "recv" /\ mmsg
    /\ dgrams' = [s \in Slot |-> s]
    /\ recvd' = n /\ pkts' = n /\ owed' = r
    /\ sent' = [s \in Slot |-> 0] /\ failed' = [s \in Slot |-> 0] /\ sendfail' = 0
    /\ i' = 1 /\ dgptr' = 1
    /\ pc' = "compact"
    /\ UNCHANGED mmsg

\* Entry i has no response: memmove() the ones behind it over it.
Squeeze ==
    /\ pc = "compact" /\ i <= pkts /\ dgrams[i] \notin owed
    /\ dgrams' = [s \in Slot |-> IF s >= i /\ s < pkts THEN dgrams[s + 1] ELSE dgrams[s]]
    /\ pkts' = pkts - 1
    /\ UNCHANGED <<pc, mmsg, i, owed, dgptr, sent, failed, sendfail, recvd>>

Keep ==
    /\ pc = "compact" /\ i <= pkts /\ dgrams[i] \in owed
    /\ i' = i + 1
    /\ UNCHANGED <<pc, mmsg, dgrams, owed, pkts, dgptr, sent, failed, sendfail, recvd>>

EndCompact ==
    /\ pc = "compact" /\ i > pkts
    /\ pc' = "send"
    /\ UNCHANGED <<mmsg, batch>>

\* The first n entries from dgptr leave.
Leaving(n) == {dgrams[k] : k \in dgptr..(dgptr + n - 1)}

Sent(n) == [s \in Slot |-> IF s \in Leaving(n) THEN sent[s] + 1 ELSE sent[s]]

\* sendmmsg() sends all that is left.
SendAll ==
    /\ pc = "send" /\ pkts > 0
    /\ sent' = Sent(pkts)
    /\ pkts' = 0
    /\ UNCHANGED <<pc, mmsg, dgrams, owed, i, dgptr, failed, sendfail, recvd>>

\* (Mutant) Only the failed entry is skipped, not the ones sent before it.
MutSendSome(n) ==
    /\ pc = "send" /\ n < pkts
    /\ sent' = Sent(n)
    /\ failed' = [failed EXCEPT ![dgrams[dgptr + n]] = @ + 1]
    /\ sendfail' = sendfail + 1
    /\ dgptr' = dgptr + 1
    /\ pkts' = pkts - 1 - n
    /\ UNCHANGED <<pc, mmsg, dgrams, owed, i, recvd>>

\* sendmmsg() stops at the entry behind the first n (-1 is returned for n = 0):
\* skip the n sent ones and the failed one.
SendSome(n) ==
    /\ pc = "send" /\ n < pkts
    /\ sent' = Sent(n)
    /\ failed' = [failed EXCEPT ![dgrams[dgptr + n]] = @ + 1]
    /\ sendfail' = sendfail + 1
    /\ dgptr' = dgptr + n + 1
    /\ pkts' = pkts - 1 - n
    /\ UNCHANGED <<pc, mmsg, dgrams, owed, i, recvd>>

EndSend ==
    /\ pc = "send" /\ pkts = 0
    /\ pc' = "recv"
    /\ UNCHANGED <<mmsg, batch>>

UdpNext ==
    \/ udp_sock_setup
    \/ udp_late_bind
    \/ mainloop
    \/ \E n \in Slot : \E r \in SUBSET (1..n) : recvmmsg(n, r)
    \/ Squeeze
    \/ Keep
    \/ EndCompact
    \/ SendAll
    \/ \E n \in 0..(Width - 1) : SendSome(n)
    \/ EndSend

UdpSpec == UdpInit /\ [][UdpNext]_udpVars

-----------------------------------------------------------------------------
(* Properties.                                                             *)

\* When the thread waits for packets again, every query that was owed a
\* response had it sent exactly once or logged exactly once as failed, every
\* other one had neither, and the sendfail counter moved by the failures.
BatchAccounted ==
    pc = "recv" =>
        /\ \A s \in Slot : sent[s] + failed[s] = IF s \in owed THEN 1 ELSE 0
        /\ sendfail = Cardinality({s \in Slot : failed[s] = 1})

=============================================================================
