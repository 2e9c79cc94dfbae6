------------------------------- MODULE Grouping -------------------------------
(***************************************************************************)
(* build_similarity_groups: greedy cliques of people whose centroids are   *)
(* similar, for the people list and for merging duplicates.  One step per  *)
(* person visited and per candidate looked at.                             *)
(*                                                                         *)
(* A similarity is a number on a scale of whole percents; of the centroids *)
(* nothing else matters.  Where the code's sort keys tie, the order of the *)
(* list it was given decides, which is any order here.                     *)
(***************************************************************************)
EXTENDS SimilarityGroups, Integers

CONSTANTS Clusters,     \* those with a centroid that appear in a video
          Similarities, \* the similarities two of them can have
          SampleCounts,
          Threshold,    \* SIMILARITY_THRESHOLD
          NoSeed

ASSUME SimilarityAssumption ==
  /\ Similarities \subseteq Int /\ Threshold \in Int /\ SampleCounts \subseteq Nat
  /\ NoSeed \notin Clusters /\ IsFiniteSet(Clusters)

VARIABLES sims,       \* similarity of each pair
          known,      \* is_named and sample_count of each cluster
          unvisited,  \* the part of order the outer loop has still to do
          assigned,
          seed,       \* i of the outer loop, NoSeed between two of them
          neighbors,  \* candidates of the inner loop not looked at yet
          clique,
          groups      \* set of [rep, members]; members includes the rep

vars == <<sims, known, unvisited, assigned, seed, neighbors, clique, groups>>

Pairs == {p \in SUBSET Clusters : Cardinality(p) = 2}

Sim(i, j) == sims[{i, j}]

\* similar, with its diagonal cleared
Similar(i, j) == i # j /\ Sim(i, j) >= Threshold

Degree(i) == Cardinality({j \in Clusters : Similar(i, j)})

\* Whether (degree, is_named, sample_count) of i is at least that of j
Ahead(i, j) ==
  \/ Degree(i) > Degree(j)
  \/ /\ Degree(i) = Degree(j)
     /\ \/ known[i].named /\ ~known[j].named
        \/ known[i].named = known[j].named /\ known[i].samples >= known[j].samples

Init == /\ sims \in [Pairs -> Similarities]
        /\ known \in [Clusters -> [named : BOOLEAN, samples : SampleCounts]]
        /\ unvisited = Clusters
        /\ assigned = {}
        /\ seed = NoSeed
        /\ neighbors = {}
        /\ clique = {}
        /\ groups = {}

\* The outer loop takes the next person; without neighbors it goes on
Visit(i) ==
  LET free == {j \in Clusters : Similar(i, j)} \ assigned IN
  /\ seed = NoSeed
  /\ i \in unvisited
  /\ \A j \in unvisited : Ahead(i, j)
  /\ unvisited' = unvisited \ {i}
  /\ \/ /\ i \in assigned \/ free = {}
        /\ UNCHANGED <<seed, neighbors, clique>>
     \/ /\ i \notin assigned /\ free # {}
        /\ seed' = i
        /\ neighbors' = free
        /\ clique' = {i}
  /\ UNCHANGED <<sims, known, assigned, groups>>

\* Mutant: a candidate is compared with the seed only
FitsSeed(j) == ~(known[j].named /\ \E k \in clique : known[k].named)

\* Mutant: a second named person is let in
FitsNamed(j) == \A k \in clique : Sim(j, k) >= Threshold

\* Mutant: a pair at the threshold counts as similar here and not there
FitsAbove(j) == /\ ~(known[j].named /\ \E k \in clique : known[k].named)
                /\ \A k \in clique : Sim(j, k) > Threshold

\* No second named person, and similar to every member so far
Fits(j) == /\ ~(known[j].named /\ \E k \in clique : known[k].named)
           /\ \A k \in clique : Sim(j, k) >= Threshold

\* The inner loop looks at the candidate nearest to the seed
Consider(j) ==
  /\ j \in neighbors
  /\ \A k \in neighbors : Sim(seed, k) <= Sim(seed, j)
  /\ neighbors' = neighbors \ {j}
  /\ clique' = clique \cup {k \in {j} : Fits(k)}
  /\ UNCHANGED <<sims, known, unvisited, assigned, seed, groups>>

\* Mutant: the members of a clique stay available
CloseUnassigned ==
  /\ seed # NoSeed /\ neighbors = {}
  /\ \/ Cardinality(clique) < 2 /\ UNCHANGED groups
     \/ /\ Cardinality(clique) >= 2
        /\ \E rep \in GroupTargets(known, clique) :
             groups' = groups \cup {[rep |-> rep, members |-> clique]}
  /\ seed' = NoSeed
  /\ clique' = {}
  /\ UNCHANGED <<sims, known, unvisited, assigned, neighbors>>

\* After the last candidate: a clique of one is dropped, any other one is a
\* group, represented by max(named, sample_count)
Close ==
  /\ seed # NoSeed /\ neighbors = {}
  /\ \/ Cardinality(clique) < 2 /\ UNCHANGED <<assigned, groups>>
     \/ /\ Cardinality(clique) >= 2
        /\ assigned' = assigned \cup clique
        /\ \E rep \in GroupTargets(known, clique) :
             groups' = groups \cup {[rep |-> rep, members |-> clique]}
  /\ seed' = NoSeed
  /\ clique' = {}
  /\ UNCHANGED <<sims, known, unvisited, neighbors>>

Next == (\E i \in Clusters : Visit(i) \/ Consider(i)) \/ Close

Spec == Init /\ [][Next]_vars

Done == unvisited = {} /\ seed = NoSeed

(***************************************************************************)
(* What the groups promise.                                                *)
(***************************************************************************)

\* The loops keep their variables among the clusters, and with each other:
\* assigned is who is in a group, a clique being grown holds its seed.
GroupingTypeOK ==
  /\ sims \in [Pairs -> Similarities]
  /\ known \in [Clusters -> [named : BOOLEAN, samples : SampleCounts]]
  /\ unvisited \subseteq Clusters
  /\ assigned \subseteq Clusters
  /\ seed \in Clusters \cup {NoSeed}
  /\ neighbors \subseteq Clusters
  /\ clique \subseteq Clusters
  /\ groups \subseteq [rep : Clusters, members : SUBSET Clusters]
  /\ \A c \in Clusters : c \in assigned <=> \E g \in groups : c \in g.members
  /\ IF seed = NoSeed THEN clique = {} /\ neighbors = {}
     ELSE seed \in clique /\ clique \cap assigned = {}

\* What the routes rely on: at any time the groups found are disjoint, hold
\* at most one named person, and name as representative the person that
\* merge-duplicates must merge into.
GroupsAsPromised ==
  /\ {g.members : g \in groups} \in Groupings(known, Clusters)
  /\ \A g \in groups : g.rep \in GroupTargets(known, g.members)
  /\ \A g, h \in groups : g.members = h.members => g = h

\* "this keeps every pair, and therefore every member relative to the rep, at
\* or above the threshold": no chain A~B~C puts strangers into one group.
GroupsAreCliques ==
  \A g \in groups : \A i, j \in g.members : i # j => Sim(i, j) >= Threshold

\* The greedy order misses nobody it should not: two similar people who both
\* end up in no group are both named.
LeftoversNamed ==
  Done => \A i, j \in Clusters \ assigned : Similar(i, j) => known[i].named /\ known[j].named

=============================================================================
