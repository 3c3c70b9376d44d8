------------------------------ MODULE MC_PqInsert ------------------------------
(* Instances of PqInsert for model checking. *)
EXTENDS PqInsert
=============================================================================
