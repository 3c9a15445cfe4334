------------------------------ MODULE MCMonio ------------------------------
(* Two addresses (one IPv6), three service types with different thresholds *)
(* (one at the smallest values monio_add_servicetypes accepts) and three   *)
(* state words: enough for a shared manager next to a second one.          *)
EXTENDS MonioRefinement

MCUp   == [t \in SvcType |-> IF t = "default" THEN 3 ELSE 1]
MCOk   == [t \in SvcType |-> IF t = "default" THEN 2 ELSE 1]
MCDown == [t \in SvcType |-> CASE t = "default" -> 3 [] t = "web" -> 2 [] OTHER -> 1]
=============================================================================
