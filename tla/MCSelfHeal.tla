------------------------------ MODULE MCSelfHeal ------------------------------
(* Small instances of SelfHeal: batches of three and two paths. *)
EXTENDS SelfHeal

Batches == {<<1, 3>>, <<4, 5>>}
=============================================================================
