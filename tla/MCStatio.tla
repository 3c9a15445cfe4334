------------------------------ MODULE MCStatio ------------------------------
(* A page with a header longer than its body, and one the other way round. *)
EXTENDS Statio

MCSizes == {<<3, 2>>, <<2, 3>>}
=============================================================================
