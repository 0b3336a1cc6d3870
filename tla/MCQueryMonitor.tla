--------------------------- MODULE MCQueryMonitor ---------------------------
(***************************************************************************)
(* Instances of QueryMonitor for TLC.                                      *)
(* Requests, channels and backends are interchangeable.                    *)
(***************************************************************************)
EXTENDS QueryMonitor, TLC

Symmetry == Permutations(Queries) \cup Permutations(Channels) \cup Permutations(Pids)
=============================================================================
