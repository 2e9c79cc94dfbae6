------------------------------ MODULE MCGrouping ------------------------------
(***************************************************************************)
(* A small instance of Grouping for TLC.                                   *)
(***************************************************************************)
EXTENDS Grouping, TLC

\* No definition singles out a cluster
Interchangeable == Permutations(Clusters)

=============================================================================
