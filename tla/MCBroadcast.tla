------------------------------ MODULE MCBroadcast ------------------------------
(***************************************************************************)
(* Instances of Broadcast for TLC.  Databases are interchangeable.         *)
(***************************************************************************)
EXTENDS Broadcast, TLC

Symmetry == Permutations(Dbs)
=============================================================================
