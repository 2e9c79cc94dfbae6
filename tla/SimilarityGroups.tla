-------------------------- MODULE SimilarityGroups --------------------------
(***************************************************************************)
(* What the routes rely on of build_similarity_groups: the groups of       *)
(* look-alike people it can return, and whom a group is merged into.       *)
(* known maps each cluster to what was read of it.  Grouping is the        *)
(* algorithm that finds the groups.                                        *)
(***************************************************************************)
EXTENDS Naturals, FiniteSets

\* Disjoint groups among C, of two or more and with at most one named member
Groupings(known, C) ==
  LET groups == {g \in SUBSET C : /\ Cardinality(g) >= 2
                                  /\ \A c, k \in g : known[c].named /\ known[k].named => c = k}
  IN {G \in SUBSET groups : \A g, h \in G : g = h \/ g \cap h = {}}

\* Mutant: the member with the most samples, named or not
GroupTargetsBySamples(known, g) == {c \in g : \A k \in g : known[k].samples <= known[c].samples}

\* The named member of a group, else one with the most samples
GroupTargets(known, g) ==
  LET named == {c \in g : known[c].named}
      best  == IF named # {} THEN named ELSE g
  IN {c \in best : \A k \in best : known[k].samples <= known[c].samples}

=============================================================================
