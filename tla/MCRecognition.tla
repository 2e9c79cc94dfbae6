---------------------------- MODULE MCRecognition ----------------------------
(***************************************************************************)
(* A small instance of Recognition for TLC.                                *)
(***************************************************************************)
EXTENDS Recognition, TLC

\* Cosines: the first and the third 0, the second 0.71 to both; the means that
\* runs form bring in others, between the two thresholds too
Faces == {<<1, 0, 1>>, <<1, 1, 1>>, <<0, 1, 1>>}

Interchangeable == Permutations(Workers)

\* Bounds the search: two different faces in the first sampled frame, one in
\* the second; a frame that cannot be read gives the shorter videos
ThreeFaces == \A s \in Streams :
  /\ Len(video[<<s, 0>>]) = 2 /\ video[<<s, 0>>][1] # video[<<s, 0>>][2]
  /\ Len(video[<<s, 1>>]) = 0
  /\ Len(video[<<s, 2>>]) = 1

\* States with more samples are checked, not extended
FewSamples == Cardinality(occ) <= 2

=============================================================================
