------------------------------- MODULE Library -------------------------------
(***************************************************************************)
(* The people library of faces-service as its database keeps it: the       *)
(* tables clusters and face_occurrences, and the transactions of app/db.py *)
(* that write them.  One transaction is one action here; the statements    *)
(* of overlapping transactions are not interleaved at this level.          *)
(*                                                                         *)
(* An embedding, a confidence and a timestamp column carry no control and  *)
(* are left out.  t_seconds is counted in ticks of 1e-4 s, the step by     *)
(* which merge_clusters nudges a colliding sample.                         *)
(***************************************************************************)
EXTENDS Naturals, FiniteSets

CONSTANTS ClusterIds,    \* uuids the database can hand out
          Owners,
          Streams,
          Names,         \* one value per lower(trim(name))
          NoName,        \* name IS NULL, is_named false
          SampleTimes,   \* the ticks at which a sample can be recorded
          Centroids

ASSUME NoNameAssumption == NoName \notin Names
ASSUME TimesAssumption == SampleTimes \subseteq Nat
ASSUME FiniteAssumption == IsFiniteSet(ClusterIds) /\ IsFiniteSet(SampleTimes)

VARIABLES rows,     \* clusters: id |-> its row
          occ,      \* face_occurrences
          minted    \* every id the database ever handed out

libvars == <<rows, occ, minted>>

Row == [owner : Owners, name : Names \cup {NoName}, samples : Nat,
        centroid : Centroids, crop : BOOLEAN]

Sample == [stream : Streams, cluster : ClusterIds, t : Nat, owner : Owners]

Live == DOMAIN rows

OccOf(os, c) == {x \in os : x.cluster = c}

OccIn(os, s) == {x \in os : x.stream = s}

\* Mutant: the ownership check is left out
OwnedUnchecked(c, o) == c \in Live

Owned(c, o) == c \in Live /\ rows[c].owner = o

(***************************************************************************)
(* Pieces shared by the transactions.                                      *)
(***************************************************************************)

\* Mutant: the recount is left out
RecountSkipped(rs, os, C) == rs

\* UPDATE clusters SET sample_count = (SELECT count(*) ...) for the ids in C
Recount(rs, os, C) ==
  [c \in DOMAIN rs |->
     IF c \in C THEN [rs[c] EXCEPT !.samples = Cardinality(OccOf(os, c))]
                ELSE rs[c]]

\* DELETE FROM clusters, for the ids in C
Without(rs, C) == [c \in DOMAIN rs \ C |-> rs[c]]

\* ON DELETE CASCADE of face_occurrences.cluster_id
Referenced(os, live) == {x \in os : x.cluster \in live}

LibraryInit == /\ rows = [c \in {} |-> 0]
        /\ occ = {}
        /\ minted = {}

(***************************************************************************)
(* Transactions of the inference and assist paths.                         *)
(***************************************************************************)

\* Mutant: an id can be handed out twice
UpsertReusing(o, v, id) ==
  /\ id \in ClusterIds \ Live
  /\ rows' = [c \in Live \cup {id} |->
                IF c = id THEN [owner |-> o, name |-> NoName, samples |-> 0,
                                centroid |-> v, crop |-> FALSE]
                          ELSE rows[c]]
  /\ UNCHANGED <<occ, minted>>

\* upsert_cluster: an anonymous cluster without samples, under a fresh uuid
Upsert(o, v, id) ==
  /\ id \in ClusterIds \ minted
  /\ minted' = minted \cup {id}
  /\ rows' = [c \in Live \cup {id} |->
                IF c = id THEN [owner |-> o, name |-> NoName, samples |-> 0,
                                centroid |-> v, crop |-> FALSE]
                          ELSE rows[c]]
  /\ UNCHANGED occ

\* What ON CONFLICT (stream_id, cluster_id, t_seconds) DO NOTHING lets in
Fresh(o, s, items) ==
  {[stream |-> s, cluster |-> i[1], t |-> i[2], owner |-> o] :
     i \in {j \in items : \A x \in occ : <<x.stream, x.cluster, x.t>> # <<s, j[1], j[2]>>}}

\* append_stream_occurrences: a missing cluster fails the foreign key and the
\* whole transaction; nothing here asks whose the clusters are
AppendSamples(o, s, items) ==
  /\ \A i \in items : i[1] \in Live
  /\ LET kept == occ \cup Fresh(o, s, items)
     IN /\ occ' = kept
        /\ rows' = Recount(rows, kept,
                           {c \in Live : rows[c].owner = o /\ OccIn(OccOf(kept, c), s) # {}})
  /\ UNCHANGED minted

\* update_cluster_centroid: WHERE id AND owner_id, no row is no error
UpdateCentroid(c, o, v) ==
  /\ rows' = [k \in Live |-> IF k = c /\ Owned(k, o)
                             THEN [rows[k] EXCEPT !.centroid = v] ELSE rows[k]]
  /\ UNCHANGED <<occ, minted>>

\* set_cluster_crop, always called with a key
SetCrop(c, o) ==
  /\ rows' = [k \in Live |-> IF k = c /\ Owned(k, o)
                             THEN [rows[k] EXCEPT !.crop = TRUE] ELSE rows[k]]
  /\ UNCHANGED <<occ, minted>>

(***************************************************************************)
(* Transactions of the curation paths.                                     *)
(***************************************************************************)

\* Mutant: only clusters with samples are looked at
NameTakenInVideos(c, o, n) ==
  n # NoName /\ \E k \in Live \ {c} :
    rows[k].owner = o /\ rows[k].name = n /\ rows[k].samples > 0

\* The SELECT of rename_cluster that makes it answer "conflict"
NameTaken(c, o, n) ==
  n # NoName /\ \E k \in Live \ {c} : rows[k].owner = o /\ rows[k].name = n

\* rename_cluster; NoName clears the name (null, or empty once trimmed)
Rename(c, o, n) ==
  /\ Owned(c, o)
  /\ ~NameTaken(c, o, n)
  /\ rows' = [rows EXCEPT ![c].name = n]
  /\ UNCHANGED <<occ, minted>>

\* delete_cluster
Delete(c, o) ==
  /\ Owned(c, o)
  /\ rows' = Without(rows, {c})
  /\ occ' = Referenced(occ \ OccOf(occ, c), Live \ {c})
  /\ UNCHANGED minted

\* Mutant: the cluster is deleted without looking at its other streams
DetachDroppingCluster(c, s, o) ==
  /\ Owned(c, o)
  /\ rows' = Without(rows, {c})
  /\ occ' = Referenced(occ, Live \ {c})
  /\ UNCHANGED minted

\* detach_cluster_from_stream: the cluster goes with its last sample
Detach(c, s, o) ==
  /\ Owned(c, o)
  /\ LET kept   == {x \in occ : ~(x.cluster = c /\ x.stream = s /\ x.owner = o)}
         counts == Recount(rows, kept, {c})
         gone   == {k \in {c} : counts[k].samples = 0}
     IN /\ rows' = Without(counts, gone)
        /\ occ' = Referenced(kept, Live \ gone)
  /\ UNCHANGED minted

\* Mutant: the orphaned clusters are left behind
CascadeKeepingOrphans(s) ==
  /\ occ' = occ \ OccIn(occ, s)
  /\ rows' = Recount(rows, occ', {x.cluster : x \in OccIn(occ, s)})
  /\ UNCHANGED minted

\* cascade_stream: every owner's samples of the stream, and the clusters
\* that had one and now have none anywhere
Cascade(s) ==
  LET touched == {x.cluster : x \in OccIn(occ, s)}
      kept    == occ \ OccIn(occ, s)
      counts  == Recount(rows, kept, touched)
      gone    == {c \in touched \cap Live : counts[c].samples = 0}
  IN /\ rows' = Without(counts, gone)
     /\ occ' = Referenced(kept, Live \ gone)
     /\ UNCHANGED minted

\* Ticks a moved sample can end on: each one before it was taken
Slots == {x.t + k : x \in occ, k \in 0 .. Cardinality(occ)}

\* Mutant: a colliding sample is not nudged
PlacementWithoutNudge(f, moved, target) == \A x \in moved : f[x] = x.t

\* Where the loop "while t in occupied: t += 1e-4" leaves the samples moved
\* from the sources: at or after their own tick, on a tick of their own, past
\* taken ticks only.  (The rows come in no order; the ticks taken in the end
\* are the same for every order.)
IsPlacement(f, moved, target) ==
  LET taken(s) == {x.t : x \in OccIn(OccOf(occ, target), s)}
                    \cup {f[y] : y \in OccIn(moved, s)}
  IN /\ \A x \in moved :
          /\ f[x] >= x.t
          /\ \A y \in OccOf(occ, target) : ~(y.stream = x.stream /\ y.t = f[x])
          /\ \A y \in moved \ {x} : ~(y.stream = x.stream /\ f[y] = f[x])
          /\ \A k \in x.t .. (f[x] - 1) : k \in taken(x.stream)

\* merge_clusters: target and sources are all owner o's; callers never pass
\* the target among the sources
Merge(o, target, sources) ==
  /\ Owned(target, o)
  /\ \A c \in sources : Owned(c, o)
  /\ target \notin sources
  /\ LET moved == {x \in occ : x.cluster \in sources}
     IN \E f \in [moved -> Slots] :
          /\ IsPlacement(f, moved, target)
          /\ LET kept == (occ \ moved) \cup
                         {[stream |-> x.stream, cluster |-> target, t |-> f[x], owner |-> o] :
                            x \in moved}
             IN /\ occ' = Referenced(kept, Live \ sources)
                /\ rows' = Without(Recount(rows, kept, {target}), sources)
  /\ UNCHANGED minted

UpsertAny   == \E o \in Owners, v \in Centroids, id \in ClusterIds : Upsert(o, v, id)

\* Every caller of append is to pass clusters of the owner it passes
AppendAny   == \E o \in Owners, s \in Streams, items \in SUBSET (ClusterIds \X SampleTimes) :
                  (\A i \in items : Owned(i[1], o)) /\ AppendSamples(o, s, items)

CentroidAny == \E c \in ClusterIds, o \in Owners, v \in Centroids : UpdateCentroid(c, o, v)
CropAny     == \E c \in ClusterIds, o \in Owners : SetCrop(c, o)
RenameAny   == \E c \in ClusterIds, o \in Owners, n \in Names \cup {NoName} : Rename(c, o, n)
DeleteAny   == \E c \in ClusterIds, o \in Owners : Delete(c, o)
DetachAny   == \E c \in ClusterIds, s \in Streams, o \in Owners : Detach(c, s, o)
CascadeAny  == \E s \in Streams : Cascade(s)
MergeAny    == \E o \in Owners, target \in ClusterIds, sources \in SUBSET ClusterIds :
                  Merge(o, target, sources)

LibraryNext == \/ UpsertAny \/ AppendAny \/ CentroidAny \/ CropAny
        \/ RenameAny \/ DeleteAny \/ DetachAny \/ CascadeAny \/ MergeAny

LibrarySpec == LibraryInit /\ [][LibraryNext]_libvars

(***************************************************************************)
(* What the transactions promise together.                                 *)
(***************************************************************************)

\* Every value stays in its column's domain, and a live id was handed out.
TypeOK == /\ Live \subseteq minted
          /\ minted \subseteq ClusterIds
          /\ rows \in [Live -> Row]
          /\ occ \subseteq Sample

\* sample_count, which six transactions maintain by hand, is at every commit
\* the number of the cluster's face_occurrences: the list order, the
\* "sample_count = 0" deletions and the running mean all rely on it.
SampleCountExact == \A c \in Live : rows[c].samples = Cardinality(OccOf(occ, c))

\* An occurrence belongs to a live cluster of its own owner, though owner_id
\* is a second copy that no constraint of the schema ties to the cluster's
\* (detach filters by it, the video search trusts it).
OccurrencesOwned == \A x \in occ : x.cluster \in Live /\ rows[x.cluster].owner = x.owner

\* Two clusters of one owner never carry the same name, whatever renames and
\* merges ran: the check of rename_cluster is as strong as the unique index.
NamesUnique == \A c, k \in Live :
                 /\ rows[c].owner = rows[k].owner
                 /\ rows[c].name = rows[k].name
                 /\ rows[c].name # NoName
                 => c = k

\* A person who appears in a video never becomes an empty cluster: detach and
\* cascade delete it with its last sample, so orphans come from detection only.
NeverEmptied ==
  [][\A c \in Live \cap Live' : rows[c].samples > 0 => rows'[c].samples > 0]_libvars

\* Only delete, detach and cascade take samples away from a stream: a merge
\* moves every sample, also when both people share frames of the video.
SamplesLeaveOnlyByRemoval ==
  [][\/ \A s \in Streams : Cardinality(OccIn(occ', s)) >= Cardinality(OccIn(occ, s))
     \/ DeleteAny \/ DetachAny \/ CascadeAny]_libvars

\* Detach and cascade are about one stream: dropping the cluster afterwards
\* takes no sample of another stream with it through the foreign key.
RemovalStaysInStream ==
  [][DetachAny \/ CascadeAny =>
       \E s \in Streams : \A x \in occ \ occ' : x.stream = s]_libvars

=============================================================================
