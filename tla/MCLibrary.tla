------------------------------ MODULE MCLibrary ------------------------------
(***************************************************************************)
(* Small instances of Library for TLC.                                     *)
(***************************************************************************)
EXTENDS Library, TLC

\* No definition singles out an id, a stream or an owner
Interchangeable ==
  Permutations(ClusterIds) \cup Permutations(Streams) \cup Permutations(Owners)

\* Bounds the search: states with more samples are checked, not extended
FewSamples == Cardinality(occ) <= 4

=============================================================================
