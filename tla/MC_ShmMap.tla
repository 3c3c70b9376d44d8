------------------------------ MODULE MC_ShmMap ------------------------------
(* Instances of ShmMap for model checking. *)
EXTENDS ShmMap, TLC

Symmetry == Permutations(Readers)
NoFaults == {}
=============================================================================
