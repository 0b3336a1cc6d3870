-------------------------- MODULE MCCommandPipeline --------------------------
(***************************************************************************)
(* Instances of CommandPipeline for TLC.  The configurations give the      *)
(* bounds; HTTP threads are interchangeable, and so are keys.              *)
(***************************************************************************)
EXTENDS CommandPipeline, TLC

Symmetry == Permutations(Submitters) \cup Permutations(Keys)
=============================================================================
