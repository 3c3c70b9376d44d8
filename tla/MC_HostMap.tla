------------------------------ MODULE MC_HostMap ------------------------------
(* Instances of HostMap for model checking. *)
EXTENDS HostMap
=============================================================================
