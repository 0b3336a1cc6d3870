------------------------------- MODULE MCStorage -------------------------------
(***************************************************************************)
(* Instances of Storage for TLC.                                           *)
(***************************************************************************)
EXTENDS Storage, TLC

CONSTANTS n1, n2, e1

Symmetry == Permutations(Workers)

Everything == {Options}
JustPurge  == {{"purge_nodes"}}
JustPaths  == {{"gc_fact_paths"}}

OfKinds(kinds) == {c \in Command : c.kind \in kinds}

\* Everything may arrive for one node; a second is only deactivated, so that
\* a purge has more to choose from than its batch limit.  The factsets with
\* paths, and the older reports, are those of an environment; a plan's report
\* is the newer.
ForOneNode  == {c \in Command : /\ c.node = n1
                                /\ c.kind = "facts" => (c.env = e1 <=> c.paths # {})
                                /\ c.kind = "report" => (c.env = e1 <=> c.time = 1)
                                /\ c.plan => c.time = 2}
ForTwoNodes == ForOneNode \cup {c \in OfKinds({"deactivate"}) : c.node = n2 /\ c.time = 1}

CatalogsAndDeactivations == OfKinds({"catalog", "deactivate"})
Factsets                 == OfKinds({"facts"})
=============================================================================
