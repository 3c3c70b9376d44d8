------------------------------ MODULE MC_PidFile ------------------------------
(* Instances of PidFile for model checking. *)
EXTENDS PidFile, TLC

Symmetry == Permutations(Clients) \cup Permutations(Others)
=============================================================================
