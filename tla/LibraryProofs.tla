---------------------------- MODULE LibraryProofs ----------------------------
(***************************************************************************)
(* Proofs about Library, for every value of its constants.  The inductive  *)
(* invariant is LibraryInv: the typing, the finiteness of the occurrence   *)
(* table (counting needs it), and the two facts that tie the tables        *)
(* together.                                                               *)
(***************************************************************************)
EXTENDS Library, FiniteSetTheorems, WellFoundedInduction, TLAPS

OccFinite == IsFiniteSet(occ)

\* A non-empty set of numbers has a least one.
LEMMA LeastNatural ==
  ASSUME NEW T \in SUBSET Nat, T # {}
  PROVE  \E m \in T : \A k \in T : m <= k
<1> DEFINE less == OpToRel(<, Nat)
<1>1. PICK m \in T : \A k \in T : <<k, m>> \notin less
  <2>1. IsWellFoundedOn(less, Nat)
    BY NatLessThanWellFounded
  <2> HIDE DEF less
  <2>2. QED
    BY <2>1, WFMin
<1>2. \A k \in T : <<k, m>> \notin less => m <= k
  BY DEF OpToRel
<1>3. QED
  BY <1>1, <1>2

(***************************************************************************)
(* What the helpers return.                                                *)
(***************************************************************************)

\* new is rs with the ids of C counted over the occurrences os.
CountedRows(new, D, rs, os, C) ==
  /\ new \in [D -> Row]
  /\ \A c \in D : new[c].owner = rs[c].owner /\ new[c].name = rs[c].name
  /\ \A c \in D : c \in C => new[c].samples = Cardinality(OccOf(os, c))
  /\ \A c \in D : c \notin C => new[c] = rs[c]

\* new is rs without the ids of C.
RemainingRows(new, D, rs, C) ==
  /\ new \in [D \ C -> Row]
  /\ \A c \in D \ C : new[c] = rs[c]

\* The count UPDATE keeps every row, its owner and its name, and gives the
\* listed ids the number of their occurrences.
LEMMA RecountFacts ==
  ASSUME NEW D, NEW rs \in [D -> Row], NEW os, IsFiniteSet(os), NEW C
  PROVE  CountedRows(Recount(rs, os, C), D, rs, os, C)
<1>1. DOMAIN Recount(rs, os, C) = D
  BY DEF Recount
<1>2. ASSUME NEW c \in D
      PROVE  /\ Recount(rs, os, C)[c] \in Row
             /\ Recount(rs, os, C)[c].owner = rs[c].owner
             /\ Recount(rs, os, C)[c].name = rs[c].name
             /\ c \in C => Recount(rs, os, C)[c].samples = Cardinality(OccOf(os, c))
             /\ c \notin C => Recount(rs, os, C)[c] = rs[c]
  <2>1. Cardinality(OccOf(os, c)) \in Nat
    BY FS_Subset, FS_CardinalityType DEF OccOf
  <2>2. rs[c] \in Row
    OBVIOUS
  <2>3. Recount(rs, os, C)[c] = IF c \in C
                                THEN [rs[c] EXCEPT !.samples = Cardinality(OccOf(os, c))]
                                ELSE rs[c]
    BY DEF Recount
  <2>4. QED
    BY <2>1, <2>2, <2>3 DEF Row
<1>3. Recount(rs, os, C) = [c \in D |-> Recount(rs, os, C)[c]]
  BY DEF Recount
<1>4. QED
  BY <1>1, <1>2, <1>3 DEF CountedRows

\* Deleting rows leaves the others as they are.
LEMMA WithoutFacts ==
  ASSUME NEW D, NEW rs \in [D -> Row], NEW C
  PROVE  RemainingRows(Without(rs, C), D, rs, C)
BY DEF Without, RemainingRows

\* A finite table has finitely many rows of a cluster and of a stream.
LEMMA PartsFinite ==
  ASSUME NEW os, IsFiniteSet(os), NEW k
  PROVE  /\ IsFiniteSet(OccOf(os, k)) /\ Cardinality(OccOf(os, k)) \in Nat
         /\ IsFiniteSet(OccIn(os, k)) /\ Cardinality(OccIn(os, k)) \in Nat
<1>1. OccOf(os, k) \subseteq os /\ OccIn(os, k) \subseteq os
  BY DEF OccOf, OccIn
<1>2. QED
  BY <1>1, FS_Subset, FS_CardinalityType

\* One append writes finitely many samples, all of the caller's stream.
LEMMA FreshFacts ==
  ASSUME NEW o \in Owners, NEW s \in Streams,
         NEW items \in SUBSET (ClusterIds \X SampleTimes)
  PROVE  /\ Fresh(o, s, items) \subseteq Sample
         /\ IsFiniteSet(Fresh(o, s, items))
         /\ \A x \in Fresh(o, s, items) :
              x.stream = s /\ x.owner = o /\ \E i \in items : x.cluster = i[1]
<1> DEFINE row(i) == [stream |-> s, cluster |-> i[1], t |-> i[2], owner |-> o]
           new == {j \in items : \A x \in occ : <<x.stream, x.cluster, x.t>> # <<s, j[1], j[2]>>}
           image == {row(i) : i \in new}
<1>1. Fresh(o, s, items) = image
  BY DEF Fresh
<1>2. \A i \in items : row(i) \in Sample
  BY TimesAssumption DEF Sample
<1>3. IsFiniteSet(items)
  BY FiniteAssumption, FS_Product, FS_Subset
<1>4. IsFiniteSet(new)
  BY <1>3, FS_Subset
<1>5. IsFiniteSet(image)
  <2> DEFINE g == [i \in new |-> row(i)]
  <2>1. g \in Surjection(new, image)
    BY DEF Surjection
  <2>2. QED
    BY <1>4, <2>1, FS_Surjection
<1>6. QED
  BY <1>1, <1>2, <1>5

\* Slots are ticks.
LEMMA SlotsNat == ASSUME TypeOK, OccFinite PROVE Slots \subseteq Nat
BY FS_CardinalityType DEF Slots, TypeOK, Sample, OccFinite

TypeInv == TypeOK /\ OccFinite

(***************************************************************************)
(* What the transactions that count do to the tables.  Counted(c): the     *)
(* step leaves c with the number of its occurrences, or leaves both the    *)
(* number and the occurrences alone.                                       *)
(***************************************************************************)

Counted(c) == \/ rows'[c].samples = Cardinality(OccOf(occ', c))
              \/ rows'[c].samples = rows[c].samples /\ OccOf(occ', c) = OccOf(occ, c)

SameIdentity(c) == rows'[c].owner = rows[c].owner /\ rows'[c].name = rows[c].name

\* upsert_cluster brings one cluster to life, under an id nobody has held.
LEMMA UpsertEffect ==
  ASSUME TypeInv, NEW o, NEW v, NEW id, Upsert(o, v, id)
  PROVE  /\ id \notin minted /\ minted' = minted \cup {id}
         /\ Live' = Live \cup {id} /\ ~rows'[id].crop
         /\ \A c \in Live : rows'[c] = rows[c]
<1>1. id \notin Live
  BY DEF Upsert, TypeInv, TypeOK
<1>2. QED
  BY <1>1 DEF Upsert, Live

\* append_stream_occurrences adds the fresh samples and counts every cluster
\* that received one, when they are all the owner's it is called with.
LEMMA AppendEffect ==
  ASSUME TypeInv, NEW o \in Owners, NEW s \in Streams,
         NEW items \in SUBSET (ClusterIds \X SampleTimes), AppendSamples(o, s, items),
         \A i \in items : Owned(i[1], o)
  PROVE  /\ occ' = occ \cup Fresh(o, s, items)
         /\ IsFiniteSet(occ') /\ occ' \subseteq Sample
         /\ rows' \in [Live -> Row] /\ Live' = Live
         /\ \A c \in Live : SameIdentity(c) /\ Counted(c)
<1> DEFINE touched == {c \in Live : rows[c].owner = o /\ OccIn(OccOf(occ', c), s) # {}}
<1>1. occ' = occ \cup Fresh(o, s, items) /\ rows' = Recount(rows, occ', touched)
  BY DEF AppendSamples
<1>2. IsFiniteSet(occ') /\ occ' \subseteq Sample
  BY <1>1, FreshFacts, FS_Union DEF TypeInv, TypeOK, OccFinite
<1>3. rows \in [Live -> Row]
  BY DEF TypeInv, TypeOK
<1>4. CountedRows(rows', Live, rows, occ', touched)
  <2> HIDE DEF touched
  <2> QED
    BY <1>1, <1>2, <1>3, RecountFacts
<1>5. ASSUME NEW c \in Live \ touched PROVE OccOf(occ', c) = OccOf(occ, c)
  <2>1. ASSUME NEW x \in Fresh(o, s, items), x.cluster = c PROVE FALSE
    <3>1. x.stream = s /\ Owned(c, o)
      BY <2>1, FreshFacts
    <3>2. x \in OccIn(OccOf(occ', c), s)
      BY <1>1, <2>1, <3>1 DEF OccIn, OccOf
    <3>3. QED
      BY <3>1, <3>2 DEF Owned
  <2>2. QED
    BY <1>1, <2>1 DEF OccOf
<1>6. Live' = Live
  BY <1>4 DEF Live, CountedRows
<1>7. QED
  <2> HIDE DEF touched
  <2> QED
    BY <1>1, <1>2, <1>4, <1>5, <1>6 DEF Counted, CountedRows, SameIdentity

\* detach_cluster_from_stream removes the samples of the pair, and the cluster
\* exactly when that leaves it without any.
LEMMA DetachEffect ==
  ASSUME TypeInv, NEW c \in ClusterIds, NEW s \in Streams, NEW o \in Owners, Detach(c, s, o),
         NEW kept, kept = {x \in occ : ~(x.cluster = c /\ x.stream = s /\ x.owner = o)}
  PROVE  /\ Live' \subseteq Live /\ Live \ Live' \subseteq {c}
         /\ rows' \in [Live' -> Row]
         /\ occ' = Referenced(kept, Live') /\ IsFiniteSet(occ')
         /\ \A k \in Live' : SameIdentity(k) /\ Counted(k)
         /\ c \in Live' => rows'[c].samples # 0
         /\ c \notin Live' => OccOf(kept, c) = {}
<1> DEFINE counts == Recount(rows, kept, {c})
           gone   == {k \in {c} : counts[k].samples = 0}
<1>1. rows' = Without(counts, gone) /\ occ' = Referenced(kept, Live \ gone) /\ c \in Live
  BY DEF Detach, Owned
<1>2. IsFiniteSet(kept) /\ IsFiniteSet(occ')
  BY <1>1, FS_Subset DEF TypeInv, OccFinite, Referenced
<1>3. CountedRows(counts, Live, rows, kept, {c})
  <2>1. rows \in [Live -> Row]
    BY DEF TypeInv, TypeOK
  <2>2. QED
    BY <1>2, <2>1, RecountFacts
<1>4. RemainingRows(rows', Live, counts, gone)
  <2> HIDE DEF counts, gone
  <2>1. counts \in [Live -> Row]
    BY <1>3 DEF CountedRows
  <2>2. QED
    BY <1>1, <2>1, WithoutFacts
<1>5. Live' = Live \ gone
  BY <1>4 DEF Live, RemainingRows
<1> HIDE DEF counts
<1> USE DEF CountedRows, RemainingRows
<1>6. ASSUME NEW k \in Live' PROVE SameIdentity(k) /\ Counted(k)
  <2>1. OccOf(occ', k) = OccOf(kept, k)
    BY <1>1, <1>5 DEF OccOf, Referenced
  <2>2. k # c => OccOf(kept, k) = OccOf(occ, k)
    BY DEF OccOf
  <2>3. QED
    BY <1>3, <1>4, <1>5, <2>1, <2>2 DEF SameIdentity, Counted
<1>7. c \notin Live' => OccOf(kept, c) = {}
  BY <1>1, <1>2, <1>3, <1>5, PartsFinite, FS_EmptySet
<1>8. QED
  BY <1>1, <1>2, <1>3, <1>4, <1>5, <1>6, <1>7

\* cascade_stream removes the stream's samples, and the clusters among theirs
\* that are left without any.
LEMMA CascadeEffect ==
  ASSUME TypeInv, NEW s \in Streams, Cascade(s),
         NEW kept, kept = occ \ OccIn(occ, s)
  PROVE  /\ Live' \subseteq Live
         /\ rows' \in [Live' -> Row]
         /\ occ' = Referenced(kept, Live') /\ IsFiniteSet(occ')
         /\ \A c \in Live' : SameIdentity(c) /\ Counted(c)
         /\ \A c \in Live' : OccOf(kept, c) # OccOf(occ, c) => rows'[c].samples # 0
         /\ \A c \in Live' : OccOf(kept, c) = OccOf(occ, c) => rows'[c] = rows[c]
         /\ \A c \in Live \ Live' : OccOf(kept, c) = {}
<1> DEFINE touched == {x.cluster : x \in OccIn(occ, s)}
           counts  == Recount(rows, kept, touched)
           gone    == {c \in touched \cap Live : counts[c].samples = 0}
<1>1. rows' = Without(counts, gone) /\ occ' = Referenced(kept, Live \ gone)
  BY DEF Cascade
<1>2. IsFiniteSet(kept) /\ IsFiniteSet(occ')
  BY <1>1, FS_Subset DEF TypeInv, OccFinite, Referenced
<1>3. CountedRows(counts, Live, rows, kept, touched)
  <2>1. rows \in [Live -> Row]
    BY DEF TypeInv, TypeOK
  <2> HIDE DEF touched
  <2>2. QED
    BY <1>2, <2>1, RecountFacts
<1>4. RemainingRows(rows', Live, counts, gone)
  <2> HIDE DEF counts, gone
  <2>1. counts \in [Live -> Row]
    BY <1>3 DEF CountedRows
  <2>2. QED
    BY <1>1, <2>1, WithoutFacts
<1>5. Live' = Live \ gone
  BY <1>4 DEF Live, RemainingRows
<1> HIDE DEF counts
<1> USE DEF CountedRows, RemainingRows
<1>6. \A c : c \in touched <=> OccOf(kept, c) # OccOf(occ, c)
  BY DEF OccOf, OccIn
<1>7. ASSUME NEW c \in Live' PROVE SameIdentity(c) /\ Counted(c)
  <2>1. OccOf(occ', c) = OccOf(kept, c)
    BY <1>1, <1>5 DEF OccOf, Referenced
  <2>2. QED
    BY <1>3, <1>4, <1>5, <1>6, <2>1 DEF SameIdentity, Counted
<1>8. \A c \in Live \ Live' : OccOf(kept, c) = {}
  BY <1>2, <1>3, <1>5, PartsFinite, FS_EmptySet
<1>9. QED
  BY <1>1, <1>2, <1>3, <1>4, <1>5, <1>6, <1>7, <1>8

\* The samples a merge writes for those it moves.
Moved(sources) == {x \in occ : x.cluster \in sources}

Put(f, x, target, o) == [stream |-> x.stream, cluster |-> target, t |-> f[x], owner |-> o]

Merged(f, target, sources, o) ==
  (occ \ Moved(sources)) \cup {Put(f, x, target, o) : x \in Moved(sources)}

\* merge_clusters deletes the sources and puts each of their samples on the
\* target; only the target is counted.
LEMMA MergeEffect ==
  ASSUME TypeInv, NEW o \in Owners, NEW target \in ClusterIds,
         NEW sources \in SUBSET ClusterIds, Merge(o, target, sources)
  PROVE  /\ Live' = Live \ sources /\ target \in Live'
         /\ rows' \in [Live' -> Row] /\ IsFiniteSet(occ') /\ occ' \subseteq Sample
         /\ \A c \in Live' : SameIdentity(c) /\ Counted(c)
         /\ \E f \in [Moved(sources) -> Slots] :
              /\ IsPlacement(f, Moved(sources), target)
              /\ occ' = Referenced(Merged(f, target, sources, o), Live')
<1> DEFINE moved == Moved(sources)
<1>1. rows \in [Live -> Row] /\ IsFiniteSet(occ) /\ occ \subseteq Sample
  BY DEF TypeInv, TypeOK, OccFinite
<1>2. PICK f \in [moved -> Slots] :
        LET kept == (occ \ moved) \cup {Put(f, x, target, o) : x \in moved}
        IN /\ IsPlacement(f, moved, target)
           /\ occ' = Referenced(kept, Live \ sources)
           /\ rows' = Without(Recount(rows, kept, {target}), sources)
  BY DEF Merge, Moved, Put
<1> DEFINE put == {Put(f, x, target, o) : x \in moved}
           kept == (occ \ moved) \cup put
<1>3. target \in Live \ sources
  BY DEF Merge, Owned
<1>4. put \subseteq Sample
  BY <1>1, SlotsNat DEF Sample, Put, Moved, TypeInv
<1>5. IsFiniteSet(put)
  <2> DEFINE g == [x \in moved |-> Put(f, x, target, o)]
  <2>1. g \in Surjection(moved, put)
    BY DEF Surjection
  <2>2. IsFiniteSet(moved)
    BY <1>1, FS_Subset DEF Moved
  <2>3. QED
    BY <2>1, <2>2, FS_Surjection
<1>6. IsFiniteSet(kept) /\ kept \subseteq Sample
  <2>1. IsFiniteSet(occ \ moved)
    BY <1>1, FS_Difference
  <2>2. QED
    BY <1>1, <1>4, <1>5, <2>1, FS_Union
<1>7. occ' \subseteq kept /\ IsFiniteSet(occ')
  BY <1>2, <1>6, FS_Subset DEF Referenced
<1> DEFINE counts == Recount(rows, kept, {target})
<1>8. CountedRows(counts, Live, rows, kept, {target})
  <2> HIDE DEF kept
  <2> QED
    BY <1>1, <1>6, RecountFacts
<1>9. RemainingRows(rows', Live, counts, sources)
  <2>1. rows' = Without(counts, sources)
    BY <1>2
  <2>2. counts \in [Live -> Row]
    BY <1>8 DEF CountedRows
  <2> HIDE DEF counts
  <2>3. QED
    BY <2>1, <2>2, WithoutFacts
<1>10. Live' = Live \ sources
  BY <1>9 DEF Live, RemainingRows
<1> HIDE DEF counts
<1> USE DEF CountedRows, RemainingRows
<1>11. ASSUME NEW c \in Live' PROVE SameIdentity(c) /\ Counted(c)
  <2>1. OccOf(occ', c) = OccOf(kept, c)
    BY <1>2, <1>10 DEF OccOf, Referenced
  <2>2. c # target => OccOf(kept, c) = OccOf(occ, c)
    BY <1>10 DEF OccOf, Put, Moved
  <2>3. QED
    BY <1>3, <1>8, <1>9, <1>10, <2>1, <2>2 DEF SameIdentity, Counted
<1>12. occ' = Referenced(Merged(f, target, sources, o), Live')
  BY <1>2, <1>10 DEF Merged
<1>13. QED
  BY <1>2, <1>3, <1>6, <1>7, <1>9, <1>10, <1>11, <1>12

(***************************************************************************)
(* Typing.                                                                 *)
(***************************************************************************)

\* The empty library is well typed.
LEMMA TypeInit == LibraryInit => TypeInv
BY FS_EmptySet DEF LibraryInit, TypeInv, TypeOK, OccFinite, Live

\* Every transaction keeps the columns in their domains.
LEMMA TypeStep == TypeInv /\ [LibraryNext]_libvars => TypeInv'
<1> SUFFICES ASSUME TypeOK, OccFinite, [LibraryNext]_libvars PROVE TypeOK' /\ OccFinite'
  BY DEF TypeInv
<1> USE DEF TypeOK, OccFinite
<1>1. /\ rows \in [Live -> Row] /\ IsFiniteSet(occ)
      /\ occ \subseteq Sample /\ minted \subseteq ClusterIds
  OBVIOUS
<1>2. ASSUME NEW o \in Owners, NEW v \in Centroids, NEW id \in ClusterIds, Upsert(o, v, id)
      PROVE TypeOK' /\ OccFinite'
  <2>1. rows' \in [Live \cup {id} -> Row]
    BY <1>1, <1>2 DEF Upsert, Row
  <2>2. Live' = Live \cup {id}
    BY <2>1 DEF Live
  <2>3. QED
    BY <1>1, <1>2, <2>1, <2>2 DEF Upsert
<1>3. ASSUME NEW o \in Owners, NEW s \in Streams,
             NEW items \in SUBSET (ClusterIds \X SampleTimes), AppendSamples(o, s, items),
             \A i \in items : Owned(i[1], o)
      PROVE TypeOK' /\ OccFinite'
  BY <1>1, <1>3, AppendEffect DEF AppendSamples, TypeInv
<1>4. ASSUME NEW c \in ClusterIds, NEW o \in Owners, NEW v \in Centroids, UpdateCentroid(c, o, v)
      PROVE TypeOK' /\ OccFinite'
  <2>1. rows' \in [Live -> Row]
    BY <1>1, <1>4 DEF UpdateCentroid, Row
  <2>2. Live' = Live
    BY <2>1 DEF Live
  <2>3. QED
    BY <1>1, <1>4, <2>1, <2>2 DEF UpdateCentroid
<1>5. ASSUME NEW c \in ClusterIds, NEW o \in Owners, SetCrop(c, o)
      PROVE TypeOK' /\ OccFinite'
  <2>1. rows' \in [Live -> Row]
    BY <1>1, <1>5 DEF SetCrop, Row
  <2>2. Live' = Live
    BY <2>1 DEF Live
  <2>3. QED
    BY <1>1, <1>5, <2>1, <2>2 DEF SetCrop
<1>6. ASSUME NEW c \in ClusterIds, NEW o \in Owners, NEW n \in Names \cup {NoName}, Rename(c, o, n)
      PROVE TypeOK' /\ OccFinite'
  <2>1. rows' \in [Live -> Row]
    BY <1>1, <1>6 DEF Rename, Row, Owned
  <2>2. Live' = Live
    BY <2>1 DEF Live
  <2>3. QED
    BY <1>1, <1>6, <2>1, <2>2 DEF Rename
<1>7. ASSUME NEW c \in ClusterIds, NEW o \in Owners, Delete(c, o)
      PROVE TypeOK' /\ OccFinite'
  <2>1. rows' \in [Live \ {c} -> Row]
    BY <1>1, <1>7, WithoutFacts DEF Delete, RemainingRows
  <2>2. Live' = Live \ {c}
    BY <2>1 DEF Live
  <2>3. occ' \subseteq occ
    BY <1>7 DEF Delete, Referenced
  <2>4. QED
    BY <1>1, <1>7, <2>1, <2>2, <2>3, FS_Subset DEF Delete
<1>8. ASSUME NEW c \in ClusterIds, NEW s \in Streams, NEW o \in Owners, Detach(c, s, o)
      PROVE TypeOK' /\ OccFinite'
  BY <1>1, <1>8, DetachEffect DEF Detach, Referenced, TypeInv
<1>9. ASSUME NEW s \in Streams, Cascade(s)
      PROVE TypeOK' /\ OccFinite'
  BY <1>1, <1>9, CascadeEffect DEF Cascade, Referenced, TypeInv
<1>10. ASSUME NEW o \in Owners, NEW target \in ClusterIds, NEW sources \in SUBSET ClusterIds,
             Merge(o, target, sources)
      PROVE TypeOK' /\ OccFinite'
  <2>1. /\ Live' = Live \ sources
        /\ rows' \in [Live' -> Row] /\ IsFiniteSet(occ') /\ occ' \subseteq Sample
    BY <1>10, MergeEffect DEF TypeInv
  <2>2. minted' = minted
    BY <1>10 DEF Merge
  <2>3. QED
    BY <1>1, <2>1, <2>2
<1>11. CASE UNCHANGED libvars
  BY <1>11 DEF libvars, Live
<1>12. QED
  BY <1>2, <1>3, <1>4, <1>5, <1>6, <1>7, <1>8, <1>9, <1>10, <1>11
  DEF LibraryNext, UpsertAny, AppendAny, CentroidAny, CropAny, RenameAny, DeleteAny, DetachAny,
      CascadeAny, MergeAny

(***************************************************************************)
(* The inductive invariant.  Exact counts need every transaction that      *)
(* adds or removes occurrences to count the clusters it disturbed, and     *)
(* the ownership of the occurrences is what makes the owner-filtered       *)
(* UPDATE of append reach all of them.                                     *)
(***************************************************************************)

LibraryInv == TypeInv /\ OccurrencesOwned /\ SampleCountExact /\ NamesUnique

\* Which transaction can move an occurrence to another cluster or owner.
LEMMA OwnedStep ==
  TypeInv /\ OccurrencesOwned /\ [LibraryNext]_libvars => OccurrencesOwned'
<1> SUFFICES ASSUME TypeInv, OccurrencesOwned, [LibraryNext]_libvars PROVE OccurrencesOwned'
  OBVIOUS
<1>1. rows \in [Live -> Row]
  BY DEF TypeInv, TypeOK
<1>2. ASSUME NEW o \in Owners, NEW v \in Centroids, NEW id \in ClusterIds, Upsert(o, v, id)
      PROVE OccurrencesOwned'
  <2>1. id \notin Live
    BY <1>2 DEF Upsert, TypeInv, TypeOK
  <2>2. Live' = Live \cup {id} /\ occ' = occ /\ \A c \in Live : rows'[c] = rows[c]
    BY <1>2, <2>1 DEF Upsert, Live
  <2>3. QED
    BY <2>2 DEF OccurrencesOwned
<1>3. ASSUME NEW o \in Owners, NEW s \in Streams,
             NEW items \in SUBSET (ClusterIds \X SampleTimes), AppendSamples(o, s, items),
             \A i \in items : Owned(i[1], o)
      PROVE OccurrencesOwned'
  <2>1. \A x \in Fresh(o, s, items) : x.owner = o /\ Owned(x.cluster, o)
    BY <1>3, FreshFacts
  <2>2. QED
    BY <1>3, <2>1, AppendEffect DEF OccurrencesOwned, Owned, SameIdentity
<1>4. ASSUME NEW c \in ClusterIds, NEW o \in Owners, NEW v \in Centroids, UpdateCentroid(c, o, v)
      PROVE OccurrencesOwned'
  <2>1. Live' = Live /\ occ' = occ
    BY <1>4 DEF UpdateCentroid, Live
  <2>2. \A k \in Live : rows'[k].owner = rows[k].owner
    BY <1>1, <1>4 DEF UpdateCentroid, Row
  <2>3. QED
    BY <2>1, <2>2 DEF OccurrencesOwned
<1>5. ASSUME NEW c \in ClusterIds, NEW o \in Owners, SetCrop(c, o)
      PROVE OccurrencesOwned'
  <2>1. Live' = Live /\ occ' = occ
    BY <1>5 DEF SetCrop, Live
  <2>2. \A k \in Live : rows'[k].owner = rows[k].owner
    BY <1>1, <1>5 DEF SetCrop, Row
  <2>3. QED
    BY <2>1, <2>2 DEF OccurrencesOwned
<1>6. ASSUME NEW c \in ClusterIds, NEW o \in Owners, NEW n \in Names \cup {NoName}, Rename(c, o, n)
      PROVE OccurrencesOwned'
  <2>1. Live' = Live /\ occ' = occ
    BY <1>6 DEF Rename, Live
  <2>2. \A k \in Live : rows'[k].owner = rows[k].owner
    BY <1>1, <1>6 DEF Rename, Row
  <2>3. QED
    BY <2>1, <2>2 DEF OccurrencesOwned
<1>7. ASSUME NEW c \in ClusterIds, NEW o \in Owners, Delete(c, o)
      PROVE OccurrencesOwned'
  <2>1. /\ rows' = Without(rows, {c})
        /\ occ' = Referenced(occ \ OccOf(occ, c), Live \ {c})
    BY <1>7 DEF Delete
  <2>2. RemainingRows(rows', Live, rows, {c})
    BY <1>1, <2>1, WithoutFacts
  <2>3. Live' = Live \ {c}
    BY <2>2 DEF Live, RemainingRows
  <2>4. QED
    BY <2>1, <2>2, <2>3 DEF OccurrencesOwned, RemainingRows, Referenced
<1>8. ASSUME NEW c \in ClusterIds, NEW s \in Streams, NEW o \in Owners, Detach(c, s, o)
      PROVE OccurrencesOwned'
  <2> DEFINE kept == {x \in occ : ~(x.cluster = c /\ x.stream = s /\ x.owner = o)}
  <2>1. /\ Live' \subseteq Live /\ occ' = Referenced(kept, Live')
        /\ \A k \in Live' : SameIdentity(k)
    BY <1>8, DetachEffect
  <2>2. QED
    BY <2>1 DEF OccurrencesOwned, Referenced, SameIdentity
<1>9. ASSUME NEW s \in Streams, Cascade(s)
      PROVE OccurrencesOwned'
  <2>1. /\ Live' \subseteq Live /\ occ' = Referenced(occ \ OccIn(occ, s), Live')
        /\ \A k \in Live' : SameIdentity(k)
    BY <1>9, CascadeEffect
  <2>2. QED
    BY <2>1 DEF OccurrencesOwned, Referenced, SameIdentity
<1>10. ASSUME NEW o \in Owners, NEW target \in ClusterIds, NEW sources \in SUBSET ClusterIds,
             Merge(o, target, sources)
      PROVE OccurrencesOwned'
  <2>1. PICK f \in [Moved(sources) -> Slots] :
          /\ IsPlacement(f, Moved(sources), target)
          /\ occ' = Referenced(Merged(f, target, sources, o), Live')
    BY <1>10, MergeEffect
  <2>2. /\ Live' \subseteq Live /\ target \in Live'
        /\ \A k \in Live' : SameIdentity(k)
    BY <1>10, MergeEffect
  <2>3. rows[target].owner = o
    BY <1>10 DEF Merge, Owned
  <2>4. \A x \in occ' : x \in occ \/ (x.cluster = target /\ x.owner = o)
    BY <2>1 DEF Referenced, Merged, Put
  <2>5. \A x \in occ' : x.cluster \in Live'
    BY <2>1 DEF Referenced
  <2>6. QED
    BY <2>2, <2>3, <2>4, <2>5 DEF OccurrencesOwned, SameIdentity
<1>11. CASE UNCHANGED libvars
  BY <1>11 DEF libvars, OccurrencesOwned, Live
<1>12. QED
  BY <1>2, <1>3, <1>4, <1>5, <1>6, <1>7, <1>8, <1>9, <1>10, <1>11
  DEF LibraryNext, UpsertAny, AppendAny, CentroidAny, CropAny, RenameAny, DeleteAny, DetachAny,
      CascadeAny, MergeAny

\* A cluster the step counted, or did not touch, has an exact count.
LEMMA CountedExact ==
  ASSUME SampleCountExact, Live' \subseteq Live, \A c \in Live' : Counted(c)
  PROVE  SampleCountExact'
BY DEF SampleCountExact, Counted

\* Every transaction leaves each sample_count equal to the samples there are.
LEMMA CountStep ==
  TypeInv /\ OccurrencesOwned /\ SampleCountExact /\ [LibraryNext]_libvars => SampleCountExact'
<1> SUFFICES ASSUME TypeInv, OccurrencesOwned, SampleCountExact, [LibraryNext]_libvars
             PROVE SampleCountExact'
  OBVIOUS
<1>1. rows \in [Live -> Row]
  BY DEF TypeInv, TypeOK
<1>2. ASSUME NEW o \in Owners, NEW v \in Centroids, NEW id \in ClusterIds, Upsert(o, v, id)
      PROVE SampleCountExact'
  <2>1. id \notin Live
    BY <1>2 DEF Upsert, TypeInv, TypeOK
  <2>2. /\ Live' = Live \cup {id} /\ occ' = occ
        /\ \A c \in Live : rows'[c] = rows[c]
        /\ rows'[id].samples = 0
    BY <1>2, <2>1 DEF Upsert, Live
  <2>3. OccOf(occ, id) = {}
    BY <2>1 DEF OccurrencesOwned, OccOf
  <2>4. QED
    BY <2>2, <2>3, FS_EmptySet DEF SampleCountExact
<1>3. ASSUME NEW o \in Owners, NEW s \in Streams,
             NEW items \in SUBSET (ClusterIds \X SampleTimes), AppendSamples(o, s, items),
             \A i \in items : Owned(i[1], o)
      PROVE SampleCountExact'
  BY <1>3, AppendEffect, CountedExact
<1>4. ASSUME NEW c \in ClusterIds, NEW o \in Owners, NEW v \in Centroids, UpdateCentroid(c, o, v)
      PROVE SampleCountExact'
  <2>1. Live' = Live /\ occ' = occ
    BY <1>4 DEF UpdateCentroid, Live
  <2>2. \A k \in Live : rows'[k].samples = rows[k].samples
    BY <1>1, <1>4 DEF UpdateCentroid, Row
  <2>3. QED
    BY <2>1, <2>2 DEF SampleCountExact
<1>5. ASSUME NEW c \in ClusterIds, NEW o \in Owners, SetCrop(c, o)
      PROVE SampleCountExact'
  <2>1. Live' = Live /\ occ' = occ
    BY <1>5 DEF SetCrop, Live
  <2>2. \A k \in Live : rows'[k].samples = rows[k].samples
    BY <1>1, <1>5 DEF SetCrop, Row
  <2>3. QED
    BY <2>1, <2>2 DEF SampleCountExact
<1>6. ASSUME NEW c \in ClusterIds, NEW o \in Owners, NEW n \in Names \cup {NoName}, Rename(c, o, n)
      PROVE SampleCountExact'
  <2>1. Live' = Live /\ occ' = occ
    BY <1>6 DEF Rename, Live
  <2>2. \A k \in Live : rows'[k].samples = rows[k].samples
    BY <1>1, <1>6 DEF Rename, Row
  <2>3. QED
    BY <2>1, <2>2 DEF SampleCountExact
<1>7. ASSUME NEW c \in ClusterIds, NEW o \in Owners, Delete(c, o)
      PROVE SampleCountExact'
  <2>1. /\ rows' = Without(rows, {c})
        /\ occ' = Referenced(occ \ OccOf(occ, c), Live \ {c})
    BY <1>7 DEF Delete
  <2>2. RemainingRows(rows', Live, rows, {c})
    BY <1>1, <2>1, WithoutFacts
  <2>3. Live' = Live \ {c}
    BY <2>2 DEF Live, RemainingRows
  <2>4. \A k \in Live' : OccOf(occ', k) = OccOf(occ, k)
    BY <2>1, <2>3 DEF OccOf, Referenced
  <2>5. QED
    BY <2>2, <2>3, <2>4 DEF SampleCountExact, RemainingRows
<1>8. ASSUME NEW c \in ClusterIds, NEW s \in Streams, NEW o \in Owners, Detach(c, s, o)
      PROVE SampleCountExact'
  BY <1>8, DetachEffect, CountedExact
<1>9. ASSUME NEW s \in Streams, Cascade(s)
      PROVE SampleCountExact'
  BY <1>9, CascadeEffect, CountedExact
<1>10. ASSUME NEW o \in Owners, NEW target \in ClusterIds, NEW sources \in SUBSET ClusterIds,
             Merge(o, target, sources)
      PROVE SampleCountExact'
  <2>1. Live' \subseteq Live /\ \A c \in Live' : Counted(c)
    BY <1>10, MergeEffect
  <2>2. QED
    BY <2>1, CountedExact
<1>11. CASE UNCHANGED libvars
  BY <1>11 DEF libvars, SampleCountExact, Live
<1>12. QED
  BY <1>2, <1>3, <1>4, <1>5, <1>6, <1>7, <1>8, <1>9, <1>10, <1>11
  DEF LibraryNext, UpsertAny, AppendAny, CentroidAny, CropAny, RenameAny, DeleteAny, DetachAny,
      CascadeAny, MergeAny

\* Every transaction keeps the names of one owner apart.
LEMMA NamesStep ==
  TypeInv /\ NamesUnique /\ [LibraryNext]_libvars => NamesUnique'
<1> SUFFICES ASSUME TypeInv, NamesUnique, [LibraryNext]_libvars PROVE NamesUnique'
  OBVIOUS
<1>1. rows \in [Live -> Row]
  BY DEF TypeInv, TypeOK
\* A step that only drops clusters and keeps the names of the others
<1> DEFINE Keeps == Live' \subseteq Live /\ \A k \in Live' : SameIdentity(k)
<1>a. ASSUME Keeps PROVE NamesUnique'
  BY <1>a DEF NamesUnique, SameIdentity
<1>2. ASSUME NEW o \in Owners, NEW v \in Centroids, NEW id \in ClusterIds, Upsert(o, v, id)
      PROVE NamesUnique'
  <2>1. id \notin Live
    BY <1>2 DEF Upsert, TypeInv, TypeOK
  <2>2. /\ Live' = Live \cup {id}
        /\ \A c \in Live : rows'[c] = rows[c]
        /\ rows'[id].name = NoName
    BY <1>2, <2>1 DEF Upsert, Live
  <2>3. QED
    BY <2>2 DEF NamesUnique
<1>3. ASSUME NEW o \in Owners, NEW s \in Streams,
             NEW items \in SUBSET (ClusterIds \X SampleTimes), AppendSamples(o, s, items),
             \A i \in items : Owned(i[1], o)
      PROVE NamesUnique'
  BY <1>3, <1>a, AppendEffect
<1>4. ASSUME NEW c \in ClusterIds, NEW o \in Owners, NEW v \in Centroids, UpdateCentroid(c, o, v)
      PROVE NamesUnique'
  <2>1. Live' = Live
    BY <1>4 DEF UpdateCentroid, Live
  <2>2. \A k \in Live : SameIdentity(k)
    BY <1>1, <1>4 DEF UpdateCentroid, Row, SameIdentity
  <2>3. QED
    BY <1>a, <2>1, <2>2
<1>5. ASSUME NEW c \in ClusterIds, NEW o \in Owners, SetCrop(c, o)
      PROVE NamesUnique'
  <2>1. Live' = Live
    BY <1>5 DEF SetCrop, Live
  <2>2. \A k \in Live : SameIdentity(k)
    BY <1>1, <1>5 DEF SetCrop, Row, SameIdentity
  <2>3. QED
    BY <1>a, <2>1, <2>2
<1>6. ASSUME NEW c \in ClusterIds, NEW o \in Owners, NEW n \in Names \cup {NoName}, Rename(c, o, n)
      PROVE NamesUnique'
  <2>1. Live' = Live /\ Owned(c, o) /\ ~NameTaken(c, o, n)
    BY <1>6 DEF Rename, Live
  <2>2. /\ rows'[c].name = n /\ rows'[c].owner = o
        /\ \A k \in Live \ {c} : rows'[k] = rows[k]
    BY <1>1, <1>6 DEF Rename, Row, Owned
  <2>3. QED
    BY <2>1, <2>2 DEF NamesUnique, NameTaken
<1>7. ASSUME NEW c \in ClusterIds, NEW o \in Owners, Delete(c, o)
      PROVE NamesUnique'
  <2>1. RemainingRows(rows', Live, rows, {c})
    BY <1>1, <1>7, WithoutFacts DEF Delete
  <2>2. QED
    BY <1>a, <2>1 DEF Live, RemainingRows, SameIdentity
<1>8. ASSUME NEW c \in ClusterIds, NEW s \in Streams, NEW o \in Owners, Detach(c, s, o)
      PROVE NamesUnique'
  BY <1>8, <1>a, DetachEffect
<1>9. ASSUME NEW s \in Streams, Cascade(s)
      PROVE NamesUnique'
  BY <1>9, <1>a, CascadeEffect
<1>10. ASSUME NEW o \in Owners, NEW target \in ClusterIds, NEW sources \in SUBSET ClusterIds,
             Merge(o, target, sources)
      PROVE NamesUnique'
  <2>1. Live' = Live \ sources /\ \A c \in Live' : SameIdentity(c)
    BY <1>10, MergeEffect
  <2>2. QED
    BY <1>a, <2>1
<1>11. CASE UNCHANGED libvars
  BY <1>11 DEF libvars, NamesUnique, Live
<1>12. QED
  BY <1>2, <1>3, <1>4, <1>5, <1>6, <1>7, <1>8, <1>9, <1>10, <1>11
  DEF LibraryNext, UpsertAny, AppendAny, CentroidAny, CropAny, RenameAny, DeleteAny, DetachAny,
      CascadeAny, MergeAny

\* The four parts together are inductive.
LEMMA LibraryInvStep == LibraryInv /\ [LibraryNext]_libvars => LibraryInv'
BY TypeStep, OwnedStep, CountStep, NamesStep DEF LibraryInv

\* They hold of the empty library.
LEMMA LibraryInvInit == LibraryInit => LibraryInv
BY TypeInit DEF LibraryInit, LibraryInv, OccurrencesOwned, SampleCountExact, NamesUnique, Live

\* They hold at every commit.
LEMMA LibraryInvariant == LibrarySpec => []LibraryInv
BY LibraryInvInit, LibraryInvStep, PTL DEF LibrarySpec

\* The columns keep their domains and every live id was handed out before.
THEOREM Typed == LibrarySpec => []TypeOK
<1>1. LibraryInv => TypeOK
  BY DEF LibraryInv, TypeInv
<1>2. QED
  BY <1>1, LibraryInvariant, PTL

\* sample_count equals the number of occurrences after every transaction.
THEOREM CountsExact == LibrarySpec => []SampleCountExact
<1>1. LibraryInv => SampleCountExact
  BY DEF LibraryInv
<1>2. QED
  BY <1>1, LibraryInvariant, PTL

\* No occurrence outlives its cluster, nor belongs to another owner than it.
THEOREM OccurrencesStayOwned == LibrarySpec => []OccurrencesOwned
<1>1. LibraryInv => OccurrencesOwned
  BY DEF LibraryInv
<1>2. QED
  BY <1>1, LibraryInvariant, PTL

\* Names stay unique per owner.
THEOREM NamesStayUnique == LibrarySpec => []NamesUnique
<1>1. LibraryInv => NamesUnique
  BY DEF LibraryInv
<1>2. QED
  BY <1>1, LibraryInvariant, PTL

(***************************************************************************)
(* What a step may never do.                                               *)
(***************************************************************************)

\* No transaction gives a cluster to another owner, and a dead id stays dead.
LEMMA OwnersStay ==
  ASSUME TypeInv, [LibraryNext]_libvars, NEW c \in Live' \cap minted
  PROVE  c \in Live /\ rows'[c].owner = rows[c].owner
<1>1. rows \in [Live -> Row] /\ DOMAIN rows = Live
  BY DEF TypeInv, TypeOK, Live
<1>2. CASE UNCHANGED libvars
  BY <1>2 DEF libvars, Live
<1>3. CASE UpsertAny
  BY <1>3, UpsertEffect DEF UpsertAny
<1>4. CASE AppendAny
  <2>1. PICK o \in Owners, s \in Streams, items \in SUBSET (ClusterIds \X SampleTimes) :
          (\A i \in items : Owned(i[1], o)) /\ AppendSamples(o, s, items)
    BY <1>4 DEF AppendAny
  <2>2. Live' = Live /\ SameIdentity(c)
    BY <2>1, AppendEffect
  <2>3. QED
    BY <2>2 DEF SameIdentity
<1>5. CASE CentroidAny \/ CropAny
  BY <1>1, <1>5 DEF CentroidAny, CropAny, UpdateCentroid, SetCrop, Live, Row
<1>6. CASE RenameAny
  BY <1>1, <1>6 DEF RenameAny, Rename, Live, Row
<1>7. CASE DeleteAny
  BY <1>1, <1>7 DEF DeleteAny, Delete, Without, Live
<1>8. CASE DetachAny
  BY <1>8, DetachEffect DEF DetachAny, SameIdentity
<1>9. CASE CascadeAny
  BY <1>9, CascadeEffect DEF CascadeAny, SameIdentity
<1>10. CASE MergeAny
  BY <1>10, MergeEffect DEF MergeAny, SameIdentity
<1>11. QED
  BY <1>2, <1>3, <1>4, <1>5, <1>6, <1>7, <1>8, <1>9, <1>10 DEF LibraryNext

\* No transaction takes back that an id was handed out.
LEMMA MintedGrows == ASSUME [LibraryNext]_libvars PROVE minted \subseteq minted'
<1>1. CASE UNCHANGED libvars
  BY <1>1 DEF libvars
<1>2. CASE UpsertAny
  BY <1>2 DEF UpsertAny, Upsert
<1>3. CASE AppendAny \/ CentroidAny \/ CropAny
  BY <1>3 DEF AppendAny, CentroidAny, CropAny, AppendSamples, UpdateCentroid, SetCrop
<1>4. CASE RenameAny \/ DeleteAny
  BY <1>4 DEF RenameAny, DeleteAny, Rename, Delete
<1>5. CASE DetachAny \/ CascadeAny \/ MergeAny
  BY <1>5 DEF DetachAny, CascadeAny, MergeAny, Detach, Cascade, Merge
<1>6. QED
  BY <1>1, <1>2, <1>3, <1>4, <1>5 DEF LibraryNext

\* A cluster that lost none of its occurrences, or was counted above zero.
LEMMA StaysPeopled ==
  ASSUME LibraryInv, LibraryInv', NEW c \in Live \cap Live',
         OccOf(occ, c) \subseteq OccOf(occ', c) \/ rows'[c].samples # 0
  PROVE  rows[c].samples > 0 => rows'[c].samples > 0
<1>1. /\ rows[c].samples = Cardinality(OccOf(occ, c))
      /\ rows'[c].samples = Cardinality(OccOf(occ', c))
  BY DEF LibraryInv, SampleCountExact
<1>2. /\ IsFiniteSet(OccOf(occ', c)) /\ Cardinality(OccOf(occ', c)) \in Nat
      /\ Cardinality(OccOf(occ, c)) \in Nat
  BY PartsFinite DEF LibraryInv, TypeInv, OccFinite
<1>3. CASE OccOf(occ, c) \subseteq OccOf(occ', c)
  BY <1>1, <1>2, <1>3, FS_Subset
<1>4. CASE rows'[c].samples # 0
  BY <1>1, <1>2, <1>4
<1>5. QED
  BY <1>3, <1>4

\* No transaction leaves a cluster that had samples alive without any.
LEMMA PeopledStep ==
  ASSUME LibraryInv, LibraryInv', [LibraryNext]_libvars, NEW c \in Live \cap Live'
  PROVE  rows[c].samples > 0 => rows'[c].samples > 0
<1> SUFFICES ASSUME LibraryNext
             PROVE  OccOf(occ, c) \subseteq OccOf(occ', c) \/ rows'[c].samples # 0
  <2>1. CASE UNCHANGED libvars
    BY <2>1 DEF libvars
  <2>2. QED
    BY <2>1, StaysPeopled
<1>1. TypeInv
  BY DEF LibraryInv
<1>2. ASSUME UpsertAny \/ CentroidAny \/ CropAny \/ RenameAny PROVE occ' = occ
  BY <1>2 DEF UpsertAny, CentroidAny, CropAny, RenameAny, Upsert, UpdateCentroid, SetCrop, Rename
<1>3. ASSUME AppendAny PROVE occ \subseteq occ'
  BY <1>3 DEF AppendAny, AppendSamples
<1>4. ASSUME NEW k \in ClusterIds, NEW o \in Owners, Delete(k, o)
      PROVE OccOf(occ, c) \subseteq OccOf(occ', c)
  <2>1. /\ occ' = Referenced(occ \ OccOf(occ, k), Live \ {k})
        /\ rows' = Without(rows, {k})
    BY <1>4 DEF Delete
  <2>2. c # k
    BY <2>1 DEF Without, Live
  <2>3. QED
    BY <2>1, <2>2 DEF Referenced, OccOf
<1>5. ASSUME NEW k \in ClusterIds, NEW s \in Streams, NEW o \in Owners, Detach(k, s, o)
      PROVE OccOf(occ, c) \subseteq OccOf(occ', c) \/ rows'[c].samples # 0
  <2> DEFINE kept == {x \in occ : ~(x.cluster = k /\ x.stream = s /\ x.owner = o)}
  <2>1. occ' = Referenced(kept, Live') /\ (k \in Live' => rows'[k].samples # 0)
    BY <1>1, <1>5, DetachEffect
  <2>2. c # k => OccOf(occ, c) \subseteq OccOf(occ', c)
    BY <2>1 DEF Referenced, OccOf
  <2>3. QED
    BY <2>1, <2>2
<1>6. ASSUME NEW s \in Streams, Cascade(s)
      PROVE OccOf(occ, c) \subseteq OccOf(occ', c) \/ rows'[c].samples # 0
  <2> DEFINE kept == occ \ OccIn(occ, s)
  <2>1. /\ occ' = Referenced(kept, Live')
        /\ OccOf(kept, c) # OccOf(occ, c) => rows'[c].samples # 0
    BY <1>1, <1>6, CascadeEffect
  <2>2. OccOf(kept, c) \subseteq OccOf(occ', c)
    BY <2>1 DEF Referenced, OccOf
  <2>3. QED
    BY <2>1, <2>2
<1>7. ASSUME NEW o \in Owners, NEW target \in ClusterIds, NEW sources \in SUBSET ClusterIds,
             Merge(o, target, sources)
      PROVE OccOf(occ, c) \subseteq OccOf(occ', c)
  <2>1. PICK f \in [Moved(sources) -> Slots] :
          /\ IsPlacement(f, Moved(sources), target)
          /\ occ' = Referenced(Merged(f, target, sources, o), Live')
    BY <1>1, <1>7, MergeEffect
  <2>2. c \notin sources
    BY <1>1, <1>7, MergeEffect
  <2>3. QED
    BY <2>1, <2>2 DEF Referenced, Merged, Moved, OccOf
<1>8. QED
  BY <1>2, <1>3, <1>4, <1>5, <1>6, <1>7
  DEF LibraryNext, OccOf, DeleteAny, DetachAny, CascadeAny, MergeAny

\* So it is of every behaviour.
THEOREM NeverEmptiedHolds == LibrarySpec => NeverEmptied
<1> DEFINE Stay == \A c \in Live \cap Live' : rows[c].samples > 0 => rows'[c].samples > 0
<1>1. LibraryInv /\ LibraryInv' /\ [LibraryNext]_libvars => [Stay]_libvars
  BY PeopledStep
<1>2. QED
  BY <1>1, LibraryInvariant, PTL DEF LibrarySpec, NeverEmptied

\* Detach and cascade take samples of one stream only.
THEOREM RemovalStaysInStreamHolds == LibrarySpec => RemovalStaysInStream
<1> DEFINE Removal == DetachAny \/ CascadeAny
           InOne == \E s \in Streams : \A x \in occ \ occ' : x.stream = s
<1>1. LibraryInv /\ [LibraryNext]_libvars => [Removal => InOne]_libvars
  <2> SUFFICES ASSUME LibraryInv, Removal PROVE InOne
    OBVIOUS
  <2>1. TypeInv /\ OccurrencesOwned
    BY DEF LibraryInv
  <2>2. ASSUME NEW c \in ClusterIds, NEW s \in Streams, NEW o \in Owners, Detach(c, s, o)
        PROVE \A x \in occ \ occ' : x.stream = s
    <3> DEFINE kept == {x \in occ : ~(x.cluster = c /\ x.stream = s /\ x.owner = o)}
    <3>1. /\ occ' = Referenced(kept, Live') /\ Live \ Live' \subseteq {c}
          /\ c \notin Live' => OccOf(kept, c) = {}
      BY <2>1, <2>2, DetachEffect
    <3>2. QED
      BY <2>1, <3>1 DEF Referenced, OccOf, OccurrencesOwned
  <2>3. ASSUME NEW s \in Streams, Cascade(s)
        PROVE \A x \in occ \ occ' : x.stream = s
    <3> DEFINE kept == occ \ OccIn(occ, s)
    <3>1. /\ occ' = Referenced(kept, Live')
          /\ \A c \in Live \ Live' : OccOf(kept, c) = {}
      BY <2>1, <2>3, CascadeEffect
    <3>2. QED
      BY <2>1, <3>1 DEF Referenced, OccOf, OccIn, OccurrencesOwned
  <2>4. QED
    BY <2>2, <2>3 DEF DetachAny, CascadeAny
<1>2. QED
  BY <1>1, LibraryInvariant, PTL DEF LibrarySpec, RemovalStaysInStream

\* The move of a merge is one-to-one within a stream: no sample is lost to the
\* unique constraint, because no two of them end on one tick.
LEMMA MergeLosesNothing ==
  ASSUME LibraryInv, NEW o \in Owners, NEW target \in ClusterIds,
         NEW sources \in SUBSET ClusterIds, Merge(o, target, sources), NEW s \in Streams
  PROVE  Cardinality(OccIn(occ, s)) <= Cardinality(OccIn(occ', s))
<1>1. TypeInv /\ OccurrencesOwned /\ occ \subseteq Sample
  BY DEF LibraryInv, TypeInv, TypeOK
<1>2. PICK f \in [Moved(sources) -> Slots] :
        /\ IsPlacement(f, Moved(sources), target)
        /\ occ' = Referenced(Merged(f, target, sources, o), Live')
  BY <1>1, MergeEffect
<1>3. Live' = Live \ sources /\ target \in Live' /\ IsFiniteSet(occ')
  BY <1>1, MergeEffect
<1> DEFINE to(x) == IF x \in Moved(sources) THEN Put(f, x, target, o) ELSE x
           g == [x \in OccIn(occ, s) |-> to(x)]
<1>4. \A x \in OccIn(occ, s) : to(x) \in OccIn(occ', s)
  <2> SUFFICES ASSUME NEW x \in OccIn(occ, s) PROVE to(x) \in OccIn(occ', s)
    OBVIOUS
  <2>1. x \in occ /\ x.stream = s /\ x.cluster \in Live
    BY <1>1 DEF OccIn, OccurrencesOwned
  <2>2. CASE x \in Moved(sources)
    <3>1. to(x) \in Merged(f, target, sources, o) /\ to(x).cluster = target /\ to(x).stream = s
      BY <2>1, <2>2 DEF Merged, Put
    <3>2. QED
      BY <1>2, <1>3, <3>1 DEF Referenced, OccIn
  <2>3. CASE x \notin Moved(sources)
    <3>1. x.cluster \in Live'
      BY <1>3, <2>1, <2>3 DEF Moved
    <3>2. QED
      BY <1>2, <2>1, <2>3, <3>1 DEF Referenced, OccIn, Merged
  <2>4. QED
    BY <2>2, <2>3
<1>5. ASSUME NEW x \in OccIn(occ, s), NEW y \in OccIn(occ, s), to(x) = to(y) PROVE x = y
  <2>1. x \in occ /\ y \in occ /\ x.stream = s /\ y.stream = s
    BY DEF OccIn
  <2>2. CASE x \in Moved(sources) /\ y \in Moved(sources)
    <3>1. f[x] = f[y]
      BY <1>5, <2>2 DEF Put
    <3>2. QED
      BY <1>2, <2>1, <2>2, <3>1 DEF IsPlacement, OccIn
  <2>3. ASSUME NEW u \in Moved(sources), NEW v \in occ, u.stream = s, v.stream = s,
               v \notin Moved(sources), Put(f, u, target, o) = v
        PROVE FALSE
    <3>1. v.cluster = target /\ v.t = f[u]
      BY <2>3 DEF Put
    <3>2. v \in OccOf(occ, target)
      BY <3>1 DEF OccOf
    <3>3. QED
      BY <1>2, <2>3, <3>1, <3>2 DEF IsPlacement
  <2>4. QED
    BY <1>5, <2>1, <2>2, <2>3
<1>6. g \in Injection(OccIn(occ, s), OccIn(occ', s))
  <2>1. g \in [OccIn(occ, s) -> OccIn(occ', s)]
    BY <1>4
  <2>2. \A x, y \in OccIn(occ, s) : g[x] = g[y] => x = y
    BY <1>5
  <2>3. QED
    BY <2>1, <2>2 DEF Injection, IsInjective
<1>7. IsFiniteSet(OccIn(occ', s))
  BY <1>3, PartsFinite
<1>8. QED
  BY <1>6, <1>7, FS_Injection

\* Every step but a delete, a detach or a cascade leaves each stream at least
\* as many samples as it had.
THEOREM SamplesLeaveOnlyByRemovalHolds == LibrarySpec => SamplesLeaveOnlyByRemoval
<1> DEFINE Grows == \A s \in Streams : Cardinality(OccIn(occ', s)) >= Cardinality(OccIn(occ, s))
           Removal == DeleteAny \/ DetachAny \/ CascadeAny
<1>1. LibraryInv /\ LibraryInv' /\ [LibraryNext]_libvars => [Grows \/ Removal]_libvars
  <2> SUFFICES ASSUME LibraryInv, LibraryInv', LibraryNext, ~Removal, NEW s \in Streams
               PROVE Cardinality(OccIn(occ', s)) >= Cardinality(OccIn(occ, s))
    OBVIOUS
  <2>1. /\ IsFiniteSet(OccIn(occ', s))
        /\ Cardinality(OccIn(occ', s)) \in Nat /\ Cardinality(OccIn(occ, s)) \in Nat
    BY PartsFinite DEF LibraryInv, TypeInv, OccFinite
  <2>2. ASSUME UpsertAny \/ CentroidAny \/ CropAny \/ RenameAny \/ AppendAny
        PROVE OccIn(occ, s) \subseteq OccIn(occ', s)
    BY <2>2 DEF UpsertAny, CentroidAny, CropAny, RenameAny, AppendAny,
                Upsert, UpdateCentroid, SetCrop, Rename, AppendSamples, OccIn
  <2>3. CASE MergeAny
    BY <2>1, <2>3, MergeLosesNothing DEF MergeAny
  <2>4. OccIn(occ, s) \subseteq OccIn(occ', s) =>
          Cardinality(OccIn(occ', s)) >= Cardinality(OccIn(occ, s))
    BY <2>1, FS_Subset
  <2>5. QED
    BY <2>2, <2>3, <2>4 DEF LibraryNext
<1>2. QED
  BY <1>1, LibraryInvariant, PTL DEF LibrarySpec, SamplesLeaveOnlyByRemoval

=============================================================================
