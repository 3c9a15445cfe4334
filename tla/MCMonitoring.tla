---------------------------- MODULE MCMonitoring ----------------------------
(* Six words: two resources share one monitored service, a service with the *)
(* smallest thresholds monio_add_servicetypes accepts is polled by a plugin *)
(* that may skip polls, two words share an IPv6 service that is forced up,  *)
(* and one has a fixed state.                                               *)
EXTENDS Monitoring

CONSTANTS p1, p2, p3, p4, p5, p6

Word(p, svc) == [ptr |-> p, svc |-> svc]
MCRegs == << Word(p1, <<"a", "web">>), Word(p4, <<"v6", "web">>), Word(p6, <<"a", "danger">>),
             Word(p2, <<"a", "web">>), Word(p3, <<"b", "edge">>), Word(p5, <<"v6", "web">>) >>
MCLossy == {<<"b", "edge">>}
MCUp   == [t \in SvcType |-> IF t = "web" THEN 2 ELSE 1]
MCOk   == [t \in SvcType |-> IF t = "web" THEN 2 ELSE 1]
MCDown == [t \in SvcType |-> IF t = "web" THEN 3 ELSE 1]
=============================================================================
