------------------------------ MODULE MC_Servers ------------------------------
(* Instances of Servers for model checking. *)
EXTENDS Servers
=============================================================================
