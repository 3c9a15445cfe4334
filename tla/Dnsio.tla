------------------------------- MODULE Dnsio -------------------------------
(***************************************************************************)
(* One of the I/O threads that start_threads creates for a listen address: *)
(* it runs dnsio_udp_start or dnsio_tcp_start, and the two share nothing   *)
(* that the properties of either speak of.                                 *)
(***************************************************************************)
EXTENDS DnsioTcp, DnsioUdp

VARIABLE start     \* the start routine that the thread was created with

DnsioInit == Init /\ UdpInit /\ start \in {"dnsio_udp_start", "dnsio_tcp_start"}

DnsioNext ==
    \/ start = "dnsio_tcp_start" /\ Next /\ UNCHANGED <<start, udpVars>>
    \/ start = "dnsio_udp_start" /\ UdpNext /\ UNCHANGED <<start, vars>>

\* Time passes, and the event loop of a TCP thread runs expired timers.
DnsioSpec ==
    /\ DnsioInit /\ [][DnsioNext]_<<start, vars, udpVars>>
    /\ WF_vars(Tick) /\ \A c \in Conn : WF_vars(tcp_timeout_handler(c))

=============================================================================
