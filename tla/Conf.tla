-------------------------------- MODULE Conf --------------------------------
(***************************************************************************)
(* What conf.c makes of the listen options: the addresses of the DNS       *)
(* listeners with their settings, and the numbers of their threads.  An    *)
(* address is a host and a port.  A setup is a record of the options:      *)
(*   form      "default", "array" or "hash": how listen is given           *)
(*   specs     the listen addresses: [host, port, disable_tcp, late, ok]   *)
(*   ifaces    the host's interfaces: [family, host]                       *)
(*   dns_port, disable_tcp, late_bind_secs: the global defaults            *)
(*   ok        no option is out of range, of a wrong type or unknown       *)
(* An option that is not given is Unset.                                   *)
(***************************************************************************)
EXTENDS Naturals, Sequences, FiniteSets, SequencesExt

CONSTANT Unset

OrDefault(opt, default) == IF opt = Unset THEN default ELSE opt

make_addr(spec, def_port) == [host |-> spec.host, port |-> OrDefault(spec.port, def_port)]

DnsAddr(addr, disable_tcp, late) ==
    [addr |-> addr, tcp_disabled |-> disable_tcp, late_bind_secs |-> late]

dns_addr_is_dupe(addrs, a) == \E i \in DOMAIN addrs : addrs[i].addr = a

\* One interface: others than IP, unspecified addresses and repetitions are skipped.
AddInterface(c, addrs, if) ==
    LET a == make_addr([host |-> if.host, port |-> Unset], c.dns_port)
    IN  IF if.family \notin {"4", "6"} \/ if.host = "any" \/ dns_addr_is_dupe(addrs, a) THEN addrs
        ELSE Append(addrs, DnsAddr(a, c.disable_tcp, c.late_bind_secs))

\* Settings of single addresses; late_bind_secs has no other default than 0 there.
process_listen(c) ==
    CASE c.form = "default" -> FoldLeft(LAMBDA s, f : AddInterface(c, s, f), <<>>, c.ifaces)
      [] c.form = "array" -> [i \in DOMAIN c.specs |->
             DnsAddr(make_addr(c.specs[i], c.dns_port), c.disable_tcp, c.late_bind_secs)]
      [] c.form = "hash" -> [i \in DOMAIN c.specs |->
             DnsAddr(make_addr(c.specs[i], c.dns_port),
                      OrDefault(c.specs[i].disable_tcp, c.disable_tcp), OrDefault(c.specs[i].late, 0))]

ConfFatal(c) ==
    \/ ~c.ok
    \/ c.form = "default" /\ process_listen(c) = <<>>
    \/ c.form # "default" /\ \E i \in DOMAIN c.specs : ~c.specs[i].ok

\* How many of the first i addresses have a TCP listener.
TcpUpTo(addrs, i) == Cardinality({j \in 1..i : ~addrs[j].tcp_disabled})

\* (Mutant) TCP listeners are numbered by their address.
Mutassign_thread_nums(addrs) ==
    [i \in DOMAIN addrs |->
        [udp |-> i, tcp |-> IF addrs[i].tcp_disabled THEN 0 ELSE Len(addrs) + i]]

\* Numbers from 1: UDP listeners first, then those of TCP that there are.
assign_thread_nums(addrs) ==
    [i \in DOMAIN addrs |->
        [udp |-> i, tcp |-> IF addrs[i].tcp_disabled THEN 0 ELSE Len(addrs) + TcpUpTo(addrs, i)]]

num_io_threads(addrs) == Len(addrs) + TcpUpTo(addrs, Len(addrs))
=============================================================================
