----------------------------- MODULE MC_Pipeline -----------------------------
(* Instances of Pipeline for model checking. *)
EXTENDS Pipeline
=============================================================================
