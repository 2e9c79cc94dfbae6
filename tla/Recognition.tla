----------------------------- MODULE Recognition -----------------------------
(***************************************************************************)
(* What the vectors decide: which person a face is matched with, where the *)
(* running means go, what the frame assist offers, and which frame a       *)
(* sample is shown from.  FacesService has the whole control of a request  *)
(* and leaves these choices open; here they are made, for inference runs   *)
(* that overlap with each other and with curation.                         *)
(*                                                                         *)
(* An embedding is a vector <<x, y, 1>>, a centroid <<x, y, d>> stands for *)
(* (x/d, y/d); all components are naturals, so no similarity is negative.  *)
(* A cluster id is the number of its creation (created_at).                *)
(***************************************************************************)
EXTENDS Library, SequencesExt

CONSTANTS Workers,           \* threads that run InferEngine.run
          Embeddings,        \* the faces a frame can show
          MaxFaces,          \* bound: faces in one frame
          MatchThreshold,    \* FACES_MATCH_THRESHOLD, in tenths
          UnknownThreshold,  \* FACES_UNKNOWN_THRESHOLD, in tenths
          Count,             \* frames the worker uploads for a stream
          MaxFrames,         \* FACES_MAX_FRAMES, 0 for no cap
          Interval,          \* SAMPLE_INTERVAL_SECONDS in ticks, even
          MaxRuns,           \* bound: inference requests
          None

ASSUME IdsAssumption == ClusterIds \subseteq Nat
ASSUME EmbeddingsAssumption ==
  \A e \in Embeddings : e \in Nat \X Nat \X {1} /\ e # <<0, 0, 1>>
ASSUME DirectionAssumption ==
  \A e, f \in Embeddings : e[1] * f[2] = e[2] * f[1] => e = f
ASSUME ThresholdAssumption ==
  /\ MatchThreshold \in 0 .. 10 /\ UnknownThreshold \in 0 .. 10
  /\ MatchThreshold <= UnknownThreshold
ASSUME SamplingAssumption ==
  /\ Count \in Nat \ {0} /\ MaxFrames \in Nat
  /\ Interval \in Nat \ {0} /\ Interval % 2 = 0

VARIABLES video,      \* stream and frame index |-> the faces the frame shows
          embedding,  \* column embedding of face_occurrences
          asked,      \* inference requests so far
          task        \* the locals of each run

vars == <<rows, occ, minted, video, embedding, asked, task>>

(***************************************************************************)
(* Vectors.                                                                *)
(***************************************************************************)

Vectors == Nat \X Nat \X (Nat \ {0})

Dot(u, v) == u[1] * v[1] + u[2] * v[2]

\* cosine_similarity(e, v) >= tenths / 10
Similar(e, v, tenths) ==
  100 * Dot(e, v) * Dot(e, v) >= tenths * tenths * Dot(e, e) * Dot(v, v)

\* cosine_similarity(e, v) > cosine_similarity(e, w)
Closer(e, v, w) ==
  Dot(e, v) * Dot(e, v) * Dot(w, w) > Dot(e, w) * Dot(e, w) * Dot(v, v)

Lowest(v) ==
  LET common == {k \in 1 .. v[3] : \A i \in 1 .. 3 : v[i] % k = 0}
      most   == CHOOSE k \in common : \A j \in common : j <= k
  IN [i \in 1 .. 3 |-> v[i] \div most]

\* Mutant: divides by the old count
MergeCentroidOldCount(v, n, e) ==
  IF n = 0 THEN e ELSE Lowest(<<v[1] * n + e[1] * v[3], v[2] * n + e[2] * v[3], v[3] * n>>)

\* merge_centroid, the running mean (old * count + new) / (count + 1)
MergeCentroid(v, n, e) ==
  IF n = 0 THEN e
  ELSE Lowest(<<v[1] * n + e[1] * v[3], v[2] * n + e[2] * v[3], v[3] * (n + 1)>>)

Passes(e, c) == Similar(e, c.centroid, IF c.named THEN MatchThreshold ELSE UnknownThreshold)

\* Mutant: the last cluster that passes wins
MatchClusterLast(e, cs) ==
  LET best[i \in 0 .. Len(cs)] ==
        IF i = 0 THEN 0 ELSE IF Passes(e, cs[i]) THEN i ELSE best[i - 1]
  IN best[Len(cs)]

\* The pass of match_cluster over the list: where the match with the first i
\* clusters is, 0 if there is none
BestSoFar(e, cs) ==
  LET best[i \in 0 .. Len(cs)] ==
        IF i = 0 THEN 0
        ELSE IF /\ Passes(e, cs[i])
                /\ best[i - 1] # 0 =>
                     Closer(e, cs[i].centroid, cs[best[i - 1]].centroid)
             THEN i ELSE best[i - 1]
  IN best

\* match_cluster: the position of the match, the first of the most similar
\* that pass
MatchCluster(e, cs) == BestSoFar(e, cs)[Len(cs)]

\* best_match as detect_faces calls it: the position of the nearest, named or
\* not, if it reaches the floor
BestMatch(e, cs) ==
  LET nearest == {i \in DOMAIN cs : \A j \in DOMAIN cs : ~Closer(e, cs[j].centroid, cs[i].centroid)}
      first   == CHOOSE i \in nearest : \A j \in nearest : i <= j
  IN IF cs # <<>> /\ Similar(e, cs[first].centroid, UnknownThreshold) THEN first ELSE 0

(***************************************************************************)
(* Frames and times.                                                       *)
(***************************************************************************)

Stride == IF MaxFrames = 0 \/ Count <= MaxFrames THEN 1
          ELSE (Count + MaxFrames - 1) \div MaxFrames

\* frame_indices: every Stride-th frame from the first on
FrameIndices == [k \in 1 .. (Count + Stride - 1) \div Stride |-> (k - 1) * Stride]

FrameTime(i) == i * Interval + Interval \div 2

ASSUME RecordedAssumption ==
  \A k \in DOMAIN FrameIndices : FrameTime(FrameIndices[k]) \in SampleTimes

\* Mutant: the half interval is forgotten
SampleFrameIndexPlain(t) == (t + Interval \div 2) \div Interval

\* _sample_frame_index: round(t / interval - 0.5), where Python rounds a
\* half to the even neighbour
SampleFrameIndex(t) ==
  LET n == t \div Interval
  IN IF t % Interval # 0 \/ n % 2 = 0 THEN n ELSE n - 1

(***************************************************************************)
(* The library as a request reads it.                                      *)
(***************************************************************************)

IsNamed(c) == rows[c].name # NoName

\* get_clusters_for_owner: ORDER BY is_named DESC, created_at ASC
ClustersOf(o) ==
  LET mine         == {c \in Live : rows[c].owner = o}
      places       == 1 .. Cardinality(mine)
      before(c, k) == IF IsNamed(c) = IsNamed(k) THEN c < k ELSE IsNamed(c)
      ids          == CHOOSE s \in [places -> mine] :
                        \A i, j \in places : i < j => before(s[i], s[j])
  IN [i \in places |-> [id |-> ids[i], named |-> IsNamed(ids[i]),
                        samples |-> rows[ids[i]].samples,
                        centroid |-> rows[ids[i]].centroid]]

Idle == [pc |-> "idle", owner |-> None, stream |-> None,
         clusters |-> <<>>,  \* the clusters as this run knows them
         at    |-> 1,        \* position in FrameIndices
         face  |-> 0,        \* faces of that frame it has matched
         items |-> <<>>,     \* the samples to append
         drift |-> <<>>]     \* <<id, centroid>> to write, in the order of the first move

Become(w, tk) == task' = [task EXCEPT ![w] = tk]

Shown(me) == video[<<me.stream, FrameIndices[me.at]>>]

Init == /\ LibraryInit
        /\ video \in [Streams \X (0 .. Count - 1) -> BoundedSeq(Embeddings, MaxFaces)]
        /\ embedding = [x \in {} |-> None]
        /\ asked = 0
        /\ task = [w \in Workers |-> Idle]

(***************************************************************************)
(* InferEngine.run.                                                        *)
(***************************************************************************)

StartInfer(w, o, s) ==
  /\ task[w].pc = "idle"
  /\ asked < MaxRuns
  /\ asked' = asked + 1
  /\ Become(w, [Idle EXCEPT !.pc = "frame", !.owner = o, !.stream = s,
                            !.clusters = ClustersOf(o)])
  /\ UNCHANGED <<libvars, video, embedding>>

\* The next face of the frame, which went to cluster c, now known as known,
\* with centroid v
Assigned(me, c, known, v, e) ==
  [me EXCEPT !.face     = @ + 1,
             !.clusters = known,
             !.items    = Append(@, [cluster |-> c, t |-> FrameTime(FrameIndices[me.at]),
                                     embedding |-> e]),
             !.drift    = IF \E i \in DOMAIN @ : @[i][1] = c
                          THEN [i \in DOMAIN @ |-> IF @[i][1] = c THEN <<c, v>> ELSE @[i]]
                          ELSE Append(@, <<c, v>>)]

FaceKnown(w) ==
  LET me == task[w]
      e  == Shown(me)[me.face + 1]
      b  == MatchCluster(e, me.clusters)
      c  == me.clusters[b]
      v  == MergeCentroid(c.centroid, c.samples, e)
  IN /\ me.pc = "frame" /\ me.face < Len(Shown(me))
     /\ b # 0
     /\ Become(w, Assigned(me, c.id,
                           [i \in DOMAIN me.clusters |->
                              IF me.clusters[i].id = c.id
                              THEN [c EXCEPT !.centroid = v, !.samples = @ + 1]
                              ELSE me.clusters[i]],
                           v, e))
     /\ UNCHANGED <<libvars, video, embedding, asked>>

\* Mutant: the new cluster is not among those the next face is matched with
FaceUnknownForgotten(w) ==
  LET me == task[w]
      e  == Shown(me)[me.face + 1]
      id == Cardinality(minted) + 1
  IN /\ me.pc = "frame" /\ me.face < Len(Shown(me))
     /\ MatchCluster(e, me.clusters) = 0
     /\ Upsert(me.owner, e, id)
     /\ Become(w, Assigned(me, id, me.clusters, e, e))
     /\ UNCHANGED <<video, embedding, asked>>

\* A new cluster is noted down with sample_count 0, although it has a face
FaceUnknown(w) ==
  LET me == task[w]
      e  == Shown(me)[me.face + 1]
      id == Cardinality(minted) + 1
  IN /\ me.pc = "frame" /\ me.face < Len(Shown(me))
     /\ MatchCluster(e, me.clusters) = 0
     /\ Upsert(me.owner, e, id)
     /\ Become(w, Assigned(me, id,
                           Append(me.clusters, [id |-> id, named |-> FALSE, samples |-> 0,
                                                centroid |-> e]),
                           e, e))
     /\ UNCHANGED <<video, embedding, asked>>

\* All faces are done, or the frame could not be read
NextFrame(w) ==
  LET me == task[w] IN
  /\ me.pc = "frame"
  /\ me.face \in {0, Len(Shown(me))}
  /\ Become(w, IF me.at = Len(FrameIndices) THEN [me EXCEPT !.pc = "append", !.clusters = <<>>]
               ELSE [me EXCEPT !.at = @ + 1, !.face = 0])
  /\ UNCHANGED <<libvars, video, embedding, asked>>

\* append_stream_occurrences: ON CONFLICT DO NOTHING keeps the first
\* embedding of a cluster and time; a cluster that is gone fails the run
AppendRun(w) ==
  LET me    == task[w]
      first(x) == me.items[CHOOSE i \in DOMAIN me.items :
                    /\ <<me.items[i].cluster, me.items[i].t>> = <<x.cluster, x.t>>
                    /\ \A j \in 1 .. i - 1 :
                         <<me.items[j].cluster, me.items[j].t>> # <<x.cluster, x.t>>]
  IN /\ me.pc = "append"
     /\ \/ /\ AppendSamples(me.owner, me.stream,
                            {<<me.items[i].cluster, me.items[i].t>> : i \in DOMAIN me.items})
           /\ embedding' = [x \in occ' |-> IF x \in occ THEN embedding[x]
                                           ELSE first(x).embedding]
           /\ Become(w, IF me.drift = <<>> THEN Idle
                        ELSE [Idle EXCEPT !.pc = "drift", !.owner = me.owner, !.drift = me.drift])
        \/ /\ \E i \in DOMAIN me.items : me.items[i].cluster \notin Live
           /\ Become(w, Idle)
           /\ UNCHANGED <<libvars, embedding>>
     /\ UNCHANGED <<video, asked>>

\* update_cluster_centroid, one moved mean after the other
UpdateDrift(w) ==
  LET me == task[w] IN
  /\ me.pc = "drift"
  /\ UpdateCentroid(Head(me.drift)[1], me.owner, Head(me.drift)[2])
  /\ Become(w, IF Len(me.drift) = 1 THEN Idle ELSE [me EXCEPT !.drift = Tail(@)])
  /\ UNCHANGED <<video, embedding, asked>>

(***************************************************************************)
(* Curation meanwhile.                                                     *)
(***************************************************************************)

RenameFace(c, n) ==
  /\ \E o \in Owners : Rename(c, o, n)
  /\ UNCHANGED <<video, embedding, asked, task>>

DeleteFace(c) ==
  /\ \E o \in Owners : Delete(c, o)
  /\ embedding' = [x \in occ' |-> embedding[x]]
  /\ UNCHANGED <<video, asked, task>>

\* merge_clusters: a moved sample keeps its embedding
MergeFaces(target, sources) ==
  /\ sources # {}
  /\ \E o \in Owners :
       /\ Merge(o, target, sources)
       /\ LET moved  == {x \in occ : x.cluster \in sources}
              landed == occ' \ (occ \ moved)
          IN \E f \in [moved -> {y.t : y \in landed}] :
               /\ IsPlacement(f, moved, target)
               /\ \A y \in landed : \E x \in moved : x.stream = y.stream /\ f[x] = y.t
               /\ embedding' = [y \in occ' |->
                    IF y \notin landed THEN embedding[y]
                    ELSE embedding[CHOOSE x \in moved : x.stream = y.stream /\ f[x] = y.t]]
  /\ UNCHANGED <<video, asked, task>>

Next ==
  \/ \E w \in Workers :
       \/ \E o \in Owners, s \in Streams : StartInfer(w, o, s)
       \/ FaceKnown(w) \/ FaceUnknown(w) \/ NextFrame(w) \/ AppendRun(w) \/ UpdateDrift(w)
  \/ \E c \in ClusterIds, n \in Names \cup {NoName} : RenameFace(c, n)
  \/ \E c \in ClusterIds : DeleteFace(c)
  \/ \E target \in ClusterIds, sources \in SUBSET ClusterIds : MergeFaces(target, sources)

Spec == Init /\ [][Next]_vars

(***************************************************************************)
(* Properties.                                                             *)
(***************************************************************************)

\* Whatever stale count and mean a run writes back, a centroid is a mean of
\* embeddings: it lies between them in every coordinate.
Between(v) == \A i \in 1 .. 2 :
  /\ \E e \in Embeddings : v[i] <= e[i] * v[3]
  /\ \E e \in Embeddings : e[i] * v[3] <= v[i]

\* The tables are well typed, every row has its embedding, and every centroid,
\* stored or remembered by a run, is a mean of embeddings.
RecognitionTypeOK ==
  /\ minted \subseteq ClusterIds /\ Live \subseteq minted
  /\ embedding \in [occ -> Embeddings]
  /\ \A c \in Live : Between(rows[c].centroid)
  /\ \A w \in Workers :
       /\ \A i \in DOMAIN task[w].clusters :
            task[w].clusters[i].id \in minted /\ Between(task[w].clusters[i].centroid)
       /\ \A i \in DOMAIN task[w].drift :
            task[w].drift[i][1] \in minted /\ Between(task[w].drift[i][2])

\* The frame assist and the batch pipeline do not contradict each other, though
\* one takes the argmax of a matrix product over all people and the other scans
\* them with two thresholds: a person the assist offers is the one a run would
\* match the face with, and an unnamed match is always offered.
AssistAgrees ==
  \A o \in Owners, e \in Embeddings :
    LET offered == BestMatch(e, ClustersOf(o))
        matched == MatchCluster(e, ClustersOf(o))
    IN /\ offered # 0 => matched = offered
       /\ matched # 0 => \/ offered = matched
                         \/ offered = 0 /\ ClustersOf(o)[matched].named

\* In one run a face that is seen twice in a row is one person: whatever the
\* mean it was added to, the same face matches somebody at once.
RepeatedFaceKnown ==
  \A w \in Workers : LET me == task[w] IN
    me.pc = "frame" /\ me.items # <<>> =>
      MatchCluster(Last(me.items).embedding, me.clusters) # 0

\* The faces of the frame that the time of a sample points to
FrameOf(x) ==
  LET frame == <<x.stream, SampleFrameIndex(x.t)>>
  IN IF frame \in DOMAIN video THEN video[frame] ELSE <<>>

\* The face that _render_sample_crop picks when its detector finds the faces at
\* positions found: the last of the most similar to the stored embedding, if it
\* reaches SAMPLE_MATCH_FLOOR
Rendered(x, found) ==
  LET faces == FrameOf(x)
      near  == {i \in found : Similar(embedding[x], faces[i], 4)}
      best  == {i \in near : \A j \in near : ~Closer(embedding[x], faces[j], faces[i])}
  IN IF best = {} THEN None ELSE faces[CHOOSE i \in best : \A j \in best : j <= i]

\* The picture of a sample shows its face: the frame is found from the time
\* alone, also when the run took every second frame only and merges have moved
\* the sample past others; the frame shows the face; and whatever other faces
\* the detector finds there, none is preferred, as long as it finds this one.
\* It may not: it runs at assist_det_size with assist_min_face_ratio, where the
\* run took the full size and faces of any size.  A face it misses gives no
\* picture, or that of another face that reaches the floor.
SampleShowsItsFace ==
  \A x \in occ : LET faces == FrameOf(x) IN
    /\ \E i \in DOMAIN faces : faces[i] = embedding[x]
    /\ \A found \in SUBSET DOMAIN faces :
         (\E i \in found : faces[i] = embedding[x]) => Rendered(x, found) = embedding[x]

\* "unique on (stream_id, cluster_id, t_seconds), which is what makes inference
\* re-runs idempotent": once every frame that shows a face has a sample, and as
\* long as nobody is deleted, another run over the stream adds none.
RerunAddsNothing ==
  [][\A w \in Workers :
       LET s       == task[w].stream
           sampled == {FrameIndices[k] : k \in DOMAIN FrameIndices}
       IN /\ task[w].pc = "append" /\ task'[w].pc # "append"
          /\ Live = minted
          /\ \A i \in sampled : video[<<s, i>>] # <<>> =>
               \E x \in occ : x.stream = s /\ x.t = FrameTime(i)
          => occ' = occ]_vars

=============================================================================
