----------------------------- MODULE MCThreads ------------------------------
(* Listen options in each of their forms: two interfaces of an IP family    *)
(* among others; two addresses, one without TCP and one that may bind late, *)
(* next to a global late_bind_secs that does not count; and refused ones.   *)
EXTENDS Threads

CONSTANT unset

Spec0 == [host |-> "h1", port |-> unset, disable_tcp |-> unset, late |-> unset, ok |-> TRUE]
Plain ==
    [form |-> "default", specs |-> <<>>, ifaces |-> <<>>, dns_port |-> 53, disable_tcp |-> FALSE,
     late_bind_secs |-> 0, ok |-> TRUE, root |-> TRUE, caps |-> TRUE]

Interfaces ==
    [Plain EXCEPT !.ifaces = << [family |-> "other", host |-> "h0"], [family |-> "4", host |-> "h1"],
                                [family |-> "6", host |-> "any"], [family |-> "4", host |-> "h1"],
                                [family |-> "6", host |-> "h2"] >>]
Hash ==
    [Plain EXCEPT !.form = "hash", !.late_bind_secs = 5,
                  !.specs = << [Spec0 EXCEPT !.disable_tcp = TRUE],
                               [Spec0 EXCEPT !.host = "h2", !.port = 5353, !.late = 1] >>]
Array ==
    [Plain EXCEPT !.form = "array", !.late_bind_secs = 5, !.specs = << Spec0 >>]

Refused ==
    { [Plain EXCEPT !.ifaces = << [family |-> "4", host |-> "any"] >>],
      [Array EXCEPT !.specs = << Spec0, [Spec0 EXCEPT !.ok = FALSE] >>],
      [Hash EXCEPT !.ok = FALSE] }

MCSetups == {Interfaces, Hash, Array, [Array EXCEPT !.root = FALSE], [Array EXCEPT !.caps = FALSE]} \cup Refused
=============================================================================
