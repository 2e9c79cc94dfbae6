---------------------------- MODULE MCFacesService ----------------------------
(***************************************************************************)
(* Small instances of FacesService for TLC.                                *)
(***************************************************************************)
EXTENDS FacesService, TLC

\* Nothing singles out an id, an owner, a stream, a name or a thread
Interchangeable ==
  UNION {Permutations(C) : C \in {ClusterIds, Owners, Streams, Names, Threads}}

\* Bounds the search: states with more samples are checked, not extended
FewSamples == Cardinality(occ) <= 3

=============================================================================
