------------------------------ MODULE MC_JobTags ------------------------------
(* Instances of JobTags for model checking. *)
EXTENDS JobTags
=============================================================================
