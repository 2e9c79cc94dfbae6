---------------------------- MODULE GroupingProofs ----------------------------
(***************************************************************************)
(* For every set of people, every similarity of their centroids and every  *)
(* threshold: the greedy loops of build_similarity_groups return what the  *)
(* routes rely on, and leave nobody out that they should not.              *)
(***************************************************************************)
EXTENDS Grouping, FiniteSetTheorems, TLAPS

OneName(S) == \A c, k \in S : known[c].named /\ known[k].named => c = k

AllSimilar(S) == \A i, j \in S : i # j => Sim(i, j) >= Threshold

\* The groups found so far
GroupsSound ==
  \A g \in groups : /\ Cardinality(g.members) >= 2
                    /\ OneName(g.members)
                    /\ AllSimilar(g.members)
                    /\ g.rep \in GroupTargets(known, g.members)

\* A person is in one group only
GroupsApart == \A g, h \in groups : g = h \/ g.members \cap h.members = {}

\* The clique being grown
CliqueSound == /\ OneName(clique)
               /\ AllSimilar(clique)
               /\ \A j \in neighbors : j \notin clique /\ j \notin assigned /\ Similar(seed, j)

\* A candidate that was refused while the seed was alone is named like it
RefusedNamed ==
  seed # NoSeed /\ clique = {seed} =>
    \A j \in Clusters \ (assigned \cup neighbors) :
      Similar(seed, j) => known[seed].named /\ known[j].named

\* So is whoever is still similar to somebody the outer loop has left behind
LeftNamed ==
  \A i \in Clusters \ (unvisited \cup assigned \cup {seed}), j \in Clusters \ assigned :
    Similar(i, j) => known[i].named /\ known[j].named

GroupingInv == /\ GroupingTypeOK /\ GroupsSound /\ GroupsApart
               /\ CliqueSound /\ RefusedNamed /\ LeftNamed

\* A pair is symmetric.
LEMMA SimSymmetric == \A i, j : Sim(i, j) = Sim(j, i)
BY DEF Sim

\* A clique that is not a group consists of its seed.
LEMMA LoneSeed ==
  ASSUME GroupingTypeOK, seed # NoSeed, ~(Cardinality(clique) >= 2)
  PROVE  clique = {seed}
<1> USE DEF GroupingTypeOK
<1>1. IsFiniteSet(clique)
  BY SimilarityAssumption, FS_Subset
<1>2. Cardinality(clique) \in Nat
  BY <1>1, FS_CardinalityType
<1>3. Cardinality(clique) # 0
  BY <1>1, FS_EmptySet
<1>4. Cardinality(clique) = 1
  BY <1>2, <1>3
<1>5. \E x : clique = {x}
  BY <1>1, <1>4, FS_Singleton
<1> QED
  BY <1>5

LEMMA InitGrouping == Init => GroupingInv
<1> SUFFICES ASSUME Init PROVE GroupingInv
  OBVIOUS
<1> USE DEF Init
<1>1. GroupingTypeOK
  BY SimilarityAssumption DEF GroupingTypeOK
<1>2. GroupsSound /\ GroupsApart
  BY DEF GroupsSound, GroupsApart
<1>3. CliqueSound
  BY DEF CliqueSound, OneName, AllSimilar
<1>4. RefusedNamed /\ LeftNamed
  BY DEF RefusedNamed, LeftNamed
<1> QED
  BY <1>1, <1>2, <1>3, <1>4 DEF GroupingInv

\* The outer loop takes the next person.
LEMMA VisitPreserves ==
  ASSUME GroupingInv, NEW i \in Clusters, Visit(i)
  PROVE  GroupingInv'
<1> USE DEF GroupingInv
<1> DEFINE free == {j \in Clusters : Similar(i, j)} \ assigned
<1>0. /\ seed = NoSeed /\ clique = {} /\ neighbors = {}
      /\ UNCHANGED <<sims, known, assigned, groups>>
      /\ unvisited' = unvisited \ {i}
  BY DEF Visit, GroupingTypeOK
<1>1. \A j, k : Similar(j, k)' <=> Similar(j, k)
  BY <1>0 DEF Similar, Sim
<1>2. GroupsSound' /\ GroupsApart'
  BY <1>0 DEF GroupsSound, GroupsApart, OneName, AllSimilar, Sim, GroupTargets
<1>3. CASE (i \in assigned \/ free = {}) /\ UNCHANGED <<seed, neighbors, clique>>
  <2>1. UNCHANGED <<seed, neighbors, clique>>
    BY <1>3 DEF Visit
  <2>2. GroupingTypeOK'
    BY <1>0, <2>1 DEF GroupingTypeOK
  <2>3. CliqueSound' /\ RefusedNamed'
    BY <1>0, <2>1 DEF CliqueSound, RefusedNamed, OneName, AllSimilar
  <2>4. LeftNamed'
    BY <1>0, <1>1, <1>3, <2>1 DEF LeftNamed
  <2> QED
    BY <1>2, <2>2, <2>3, <2>4
<1>4. CASE i \notin assigned /\ free # {}
  <2>1. seed' = i /\ neighbors' = free /\ clique' = {i}
    BY <1>4 DEF Visit
  <2>2. i # NoSeed
    BY SimilarityAssumption
  <2>3. GroupingTypeOK'
    BY <1>0, <1>4, <2>1, <2>2 DEF GroupingTypeOK
  <2>4. CliqueSound'
    BY <1>0, <1>1, <2>1 DEF CliqueSound, OneName, AllSimilar, Similar
  <2>5. RefusedNamed'
    BY <1>0, <1>1, <2>1 DEF RefusedNamed
  <2>6. LeftNamed'
    BY <1>0, <1>1, <2>1, SimilarityAssumption DEF LeftNamed
  <2> QED
    BY <1>2, <2>3, <2>4, <2>5, <2>6
<1> QED
  BY <1>3, <1>4 DEF Visit

\* The inner loop looks at a candidate.
LEMMA ConsiderPreserves ==
  ASSUME GroupingInv, NEW j \in Clusters, Consider(j)
  PROVE  GroupingInv'
<1> USE DEF GroupingInv
<1>0. /\ seed # NoSeed /\ j \in neighbors /\ j \notin clique /\ j \notin assigned
      /\ Similar(seed, j)
      /\ neighbors' = neighbors \ {j}
      /\ UNCHANGED <<sims, known, unvisited, assigned, seed, groups>>
  BY DEF Consider, GroupingTypeOK, CliqueSound
<1>1. \A k, m : Similar(k, m)' <=> Similar(k, m)
  BY <1>0 DEF Similar, Sim
<1>2. GroupsSound' /\ GroupsApart'
  BY <1>0, SMTT(20) DEF GroupsSound, GroupsApart, OneName, AllSimilar, Sim, GroupTargets
<1>3. LeftNamed'
  BY <1>0, <1>1 DEF LeftNamed
<1>4. CASE Fits(j)
  <2>1. clique' = clique \cup {j}
    BY <1>4 DEF Consider
  <2>2. GroupingTypeOK'
    BY <1>0, <2>1 DEF GroupingTypeOK
  <2>3. OneName(clique)'
    BY <1>0, <1>4, <2>1 DEF OneName, Fits, CliqueSound
  <2>4. AllSimilar(clique)'
    BY <1>0, <1>4, <2>1, SimSymmetric DEF AllSimilar, Fits, CliqueSound, Sim
  <2>5. CliqueSound'
    BY <1>0, <1>1, <2>1, <2>3, <2>4 DEF CliqueSound
  <2>6. seed \in clique
    BY <1>0 DEF GroupingTypeOK
  <2>7. RefusedNamed'
    BY <1>0, <2>1, <2>6 DEF RefusedNamed
  <2> QED
    BY <1>2, <1>3, <2>2, <2>5, <2>7
<1>5. CASE ~Fits(j)
  <2>1. clique' = clique
    BY <1>5 DEF Consider
  <2>2. GroupingTypeOK'
    BY <1>0, <2>1 DEF GroupingTypeOK
  <2>3. CliqueSound'
    BY <1>0, <1>1, <2>1 DEF CliqueSound, OneName, AllSimilar, Sim
  <2>4. clique = {seed} => known[seed].named /\ known[j].named
    BY <1>0, <1>5, SimSymmetric DEF Fits, Similar
  <2>5. RefusedNamed'
    BY <1>0, <1>1, <2>1, <2>4 DEF RefusedNamed
  <2> QED
    BY <1>2, <1>3, <2>2, <2>3, <2>5
<1> QED
  BY <1>4, <1>5

\* The inner loop is done.
LEMMA ClosePreserves ==
  ASSUME GroupingInv, Close
  PROVE  GroupingInv'
<1> USE DEF GroupingInv
<1>0. /\ seed # NoSeed /\ seed \in clique /\ clique \cap assigned = {} /\ neighbors = {}
      /\ seed' = NoSeed /\ clique' = {}
      /\ UNCHANGED <<sims, known, unvisited, neighbors>>
  BY DEF Close, GroupingTypeOK
<1>1. \A k, m : Similar(k, m)' <=> Similar(k, m)
  BY <1>0 DEF Similar, Sim
<1>2. CliqueSound' /\ RefusedNamed'
  BY <1>0 DEF CliqueSound, RefusedNamed, OneName, AllSimilar
<1>3. CASE ~(Cardinality(clique) >= 2)
  <2>1. clique = {seed}
    BY <1>0, <1>3, LoneSeed
  <2>2. UNCHANGED <<assigned, groups>>
    BY <1>3 DEF Close
  <2>3. GroupingTypeOK'
    BY <1>0, <2>2 DEF GroupingTypeOK
  <2>4. GroupsSound' /\ GroupsApart'
    BY <1>0, <2>2 DEF GroupsSound, GroupsApart, OneName, AllSimilar, Sim, GroupTargets
  <2>5. LeftNamed'
    BY <1>0, <1>1, <2>1, <2>2 DEF LeftNamed, RefusedNamed
  <2> QED
    BY <1>2, <2>3, <2>4, <2>5
<1>4. CASE Cardinality(clique) >= 2
  <2>0. Cardinality(clique) \in Nat
    BY SimilarityAssumption, FS_Subset, FS_CardinalityType DEF GroupingTypeOK
  <2>1. PICK rep \in GroupTargets(known, clique) :
          groups' = groups \cup {[rep |-> rep, members |-> clique]}
    BY <1>4, <2>0 DEF Close
  <2>2. assigned' = assigned \cup clique
    BY <1>4, <2>0 DEF Close
  <2> DEFINE new == [rep |-> rep, members |-> clique]
  <2>3. new.rep = rep /\ new.members = clique /\ rep \in clique
    BY DEF GroupTargets
  <2>4. GroupingTypeOK'
    <3>1. new \in [rep : Clusters, members : SUBSET Clusters]
      BY <2>3 DEF GroupingTypeOK
    <3>2. \A c \in Clusters : c \in assigned' <=> \E g \in groups' : c \in g.members
      BY <2>1, <2>2, <2>3 DEF GroupingTypeOK
    <3> QED
      BY <1>0, <2>1, <2>2, <3>1, <3>2, SimilarityAssumption DEF GroupingTypeOK
  <2>5. GroupsSound'
    <3>1. \A g \in groups : /\ Cardinality(g.members) >= 2
                            /\ OneName(g.members)'
                            /\ AllSimilar(g.members)'
                            /\ g.rep \in GroupTargets(known', g.members)
      BY <1>0 DEF GroupsSound, OneName, AllSimilar, Sim, GroupTargets
    <3>2. /\ Cardinality(new.members) >= 2
          /\ \A c, k \in new.members : known'[c].named /\ known'[k].named => c = k
          /\ \A i, k \in new.members : i # k => Sim(i, k)' >= Threshold
          /\ new.rep \in GroupTargets(known', new.members)
      BY <1>0, <1>4, <2>3 DEF CliqueSound, OneName, AllSimilar, Sim
    <3> QED
      BY <2>1, <3>1, <3>2 DEF GroupsSound, OneName, AllSimilar
  <2>6. GroupsApart'
    <3>1. \A g \in groups : g.members \cap clique = {}
      BY <1>0 DEF GroupingTypeOK
    <3> QED
      BY <2>1, <2>3, <3>1 DEF GroupsApart
  <2>7. LeftNamed'
    BY <1>0, <1>1, <2>2 DEF LeftNamed
  <2> QED
    BY <1>2, <2>4, <2>5, <2>6, <2>7
<1> QED
  BY <1>3, <1>4

LEMMA StepGrouping == GroupingInv /\ [Next]_vars => GroupingInv'
<1> SUFFICES ASSUME GroupingInv, [Next]_vars PROVE GroupingInv'
  OBVIOUS
<1>1. ASSUME NEW i \in Clusters, Visit(i) PROVE GroupingInv'
  BY <1>1, VisitPreserves
<1>2. ASSUME NEW j \in Clusters, Consider(j) PROVE GroupingInv'
  BY <1>2, ConsiderPreserves
<1>3. CASE Close
  BY <1>3, ClosePreserves
<1>4. CASE UNCHANGED vars
  <2> USE <1>4 DEF vars, GroupingInv
  <2>1. GroupingTypeOK'
    BY DEF GroupingTypeOK
  <2>2. GroupsSound'
    BY DEF GroupsSound, OneName, AllSimilar, Sim, GroupTargets
  <2>3. GroupsApart'
    BY DEF GroupsApart
  <2>4. CliqueSound'
    BY DEF CliqueSound, OneName, AllSimilar, Similar, Sim
  <2>5. RefusedNamed' /\ LeftNamed'
    BY DEF RefusedNamed, LeftNamed, Similar, Sim
  <2> QED
    BY <2>1, <2>2, <2>3, <2>4, <2>5
<1> QED
  BY <1>1, <1>2, <1>3, <1>4 DEF Next

LEMMA AlwaysGroupingInv == Spec => []GroupingInv
BY InitGrouping, StepGrouping, PTL DEF Spec

\* The loop variables of build_similarity_groups stay within the people it was
\* given and agree with each other: assigned is who is in a group.
THEOREM GroupingTyped == Spec => []GroupingTypeOK
<1>1. GroupingInv => GroupingTypeOK
  BY DEF GroupingInv
<1> QED
  BY AlwaysGroupingInv, <1>1, PTL

\* build_similarity_groups finds one of the groupings the routes are modelled
\* with: disjoint, at most one named person in each, represented by the person
\* that merge-duplicates keeps.
THEOREM GroupsKeepPromise == Spec => []GroupsAsPromised
<1>1. GroupingInv => GroupsAsPromised
  <2> SUFFICES ASSUME GroupingInv PROVE GroupsAsPromised
    OBVIOUS
  <2> USE DEF GroupingInv
  <2>1. \A g \in groups : g.members \in SUBSET Clusters
    BY DEF GroupingTypeOK
  <2>2. \A g \in groups : g.members # {}
    BY FS_EmptySet DEF GroupsSound
  <2>3. \A g, h \in groups : g.members = h.members => g = h
    BY <2>2 DEF GroupsApart
  <2>4. {g.members : g \in groups} \in Groupings(known, Clusters)
    BY <2>1 DEF Groupings, GroupsSound, GroupsApart, OneName
  <2> QED
    BY <2>3, <2>4 DEF GroupsAsPromised, GroupsSound
<1> QED
  BY AlwaysGroupingInv, <1>1, PTL

\* No group chains strangers together: every two of its members are at or
\* above the threshold, whatever the similarities are.
THEOREM GroupsStayCliques == Spec => []GroupsAreCliques
<1>1. GroupingInv => GroupsAreCliques
  BY DEF GroupingInv, GroupsSound, AllSimilar, GroupsAreCliques
<1> QED
  BY AlwaysGroupingInv, <1>1, PTL

\* The greedy order overlooks nobody: two similar people who are left without
\* a group are both named, and merging them is not to be suggested.
THEOREM LeftoversAreNamed == Spec => []LeftoversNamed
<1>1. GroupingInv => LeftoversNamed
  BY SimilarityAssumption DEF GroupingInv, LeftNamed, LeftoversNamed, Done, GroupingTypeOK
<1> QED
  BY AlwaysGroupingInv, <1>1, PTL

=============================================================================
