----------------------------- MODULE FacesService -----------------------------
(***************************************************************************)
(* The request handlers of faces-service, step by step.  A handler thread  *)
(* calls db.py (one transaction of Library per step) and MinIO (one object *)
(* call per step) and keeps what it read in local variables, so requests   *)
(* interleave between any two of these calls.                              *)
(*                                                                         *)
(* The vectors decide which known cluster a face matches, if any, which    *)
(* clusters are exact duplicates, and where a running mean moves: here any *)
(* of these.  A crop object is who put it there.                           *)
(***************************************************************************)
EXTENDS Library, SimilarityGroups, Sequences

CONSTANTS Threads,      \* handler threads, each serves one request at a time
          Ops,          \* the requests that arrive in this instance
          Faults,       \* of "cancel" (the caller of /infer hangs up) and
                        \* "raise" (a call raises, or the worker dies)
          None,
          MaxSelected,  \* bound: people selected for one merge (MergeBody: 100)
          FrameCount,   \* frames of a stream an inference run samples
          MaxFaces,     \* bound: faces detected in one frame
          CancelEvery,  \* cancel_every of InferEngine.run
          Interval      \* ticks between two sampled frames

ASSUME FrameAssumption ==
  /\ FrameCount \in Nat \ {0} /\ CancelEvery \in Nat \ {0} /\ MaxFaces \in Nat
  /\ {k * Interval : k \in 0 .. FrameCount - 1} \subseteq SampleTimes

VARIABLES crops,    \* face crops in MinIO: cluster id |-> who stored it
          frames,   \* streams whose sampled frames are in MinIO
          task      \* local state of each handler thread

vars == <<rows, occ, minted, crops, frames, task>>

Nothing == [c \in {} |-> 0]

Idle == [pc |-> "idle", op |-> None, owner |-> None, stream |-> None, cluster |-> None,
         known   |-> Nothing,  \* clusters as this request read them
         frame   |-> 0,        \* infer: the frame it is at, and the faces of
         faces   |-> 0,        \*   that frame it has matched
         items   |-> {},       \* <<cluster, tick>> to append
         drift   |-> {},       \* clusters whose centroid it moved
         ids     |-> <<>>,     \* merge: the selected clusters
         todo    |-> {},       \* clusters or groups a loop still has to do
         purge   |-> {}]       \* clusters whose crop is to be deleted

Become(th, tk) == task' = [task EXCEPT ![th] = tk]

Starts(th, op) == task[th].pc = "idle" /\ op \in Ops

At(th, pc) == task[th].pc = pc

IsNamed(c) == rows[c].name # NoName

\* get_clusters_for_owner
Snapshot(o) ==
  [c \in {k \in Live : rows[k].owner = o} |->
     [named |-> IsNamed(c), samples |-> rows[c].samples, crop |-> rows[c].crop]]

Add(f, c, v) == [k \in DOMAIN f \cup {c} |-> IF k = c THEN v ELSE f[k]]

Minus(f, c) == [k \in DOMAIN f \ {c} |-> f[k]]

\* What infer notes down for a cluster it created
Newborn == [named |-> FALSE, samples |-> 0, crop |-> FALSE]

\* get_cluster, as far as the handlers look at it
Read(c) == [named |-> IsNamed(c), samples |-> rows[c].samples, crop |-> rows[c].crop]

Init == /\ LibraryInit
        /\ crops = Nothing
        /\ frames = Streams
        /\ task = [th \in Threads |-> Idle]

(***************************************************************************)
(* Purging crop objects, at the end of every request that deletes          *)
(* clusters.  Resume is where such a handler continues: with the next      *)
(* cluster or group it still has to do, or with its answer.                *)
(***************************************************************************)

Resume(tk) == IF tk.todo = {} THEN Idle ELSE [tk EXCEPT !.pc = tk.op, !.purge = {}]

Purging(tk, C) == IF C = {} THEN Resume(tk) ELSE [tk EXCEPT !.pc = "purge", !.purge = C]

\* store.delete_crop; an object that is not there is no error
PurgeCrop(th) ==
  LET me == task[th] IN
  /\ At(th, "purge")
  /\ \E c \in me.purge :
       /\ crops' = Minus(crops, c)
       /\ Become(th, Purging(me, me.purge \ {c}))
  /\ UNCHANGED <<libvars, frames>>

\* delete_crop raises: the reader routes log it and go on, the cascade
\* answers 500 and leaves the rest
PurgeFails(th) ==
  LET me == task[th] IN
  /\ At(th, "purge")
  /\ "raise" \in Faults
  /\ \E c \in me.purge :
       Become(th, IF me.op = "cascade" THEN Idle ELSE Purging(me, me.purge \ {c}))
  /\ UNCHANGED <<libvars, crops, frames>>

(***************************************************************************)
(* delete_face, delete_faces_batch and delete_empty_faces: one loop over   *)
(* db.delete_cluster.                                                      *)
(***************************************************************************)

StartDelete(th, o, C) ==
  /\ Starts(th, "delete")
  /\ C # {}
  /\ Become(th, [Idle EXCEPT !.pc = "delete", !.op = "delete", !.owner = o, !.todo = C])
  /\ UNCHANGED <<libvars, crops, frames>>

\* get_clusters_without_occurrences
StartSweep(th, o) ==
  LET empty == {c \in Live : rows[c].owner = o /\ OccOf(occ, c) = {}} IN
  /\ Starts(th, "sweep")
  /\ empty # {}
  /\ Become(th, [Idle EXCEPT !.pc = "sweep", !.op = "sweep", !.owner = o, !.todo = empty])
  /\ UNCHANGED <<libvars, crops, frames>>

\* The loop body: a cluster that is gone or foreign is skipped; its crop is
\* purged when the row named one
DeleteNext(th) ==
  LET me == task[th] IN
  /\ At(th, "delete") \/ At(th, "sweep")
  /\ \E c \in me.todo :
       LET rest == [me EXCEPT !.todo = @ \ {c}] IN
       \/ /\ Delete(c, me.owner)
          /\ Become(th, Purging(rest, {k \in {c} : rows[k].crop}))
       \/ /\ ~Owned(c, me.owner)
          /\ Become(th, Resume(rest))
          /\ UNCHANGED libvars
  /\ UNCHANGED <<crops, frames>>

(***************************************************************************)
(* Curation in one transaction.                                            *)
(***************************************************************************)

\* rename_face: get_cluster only finds the owner rename_cluster checks again
RenameFace(th, c, n) ==
  /\ Starts(th, "rename")
  /\ \E o \in Owners : Rename(c, o, n)
  /\ UNCHANGED <<crops, frames, task>>

\* Mutant: the crop stays when the row went
DetachFaceKeepingCrop(th, c, s) ==
  /\ Starts(th, "detach")
  /\ c \in Live
  /\ Detach(c, s, rows[c].owner)
  /\ UNCHANGED <<crops, frames, task>>

\* detach_stream_face; crop_object is in the answer only when the row went
DetachFace(th, c, s) ==
  /\ Starts(th, "detach")
  /\ c \in Live
  /\ Detach(c, s, rows[c].owner)
  /\ Become(th, Purging([Idle EXCEPT !.op = "detach", !.owner = rows[c].owner],
                        {k \in {c} : k \notin Live' /\ rows[k].crop}))
  /\ UNCHANGED <<crops, frames>>

(***************************************************************************)
(* merge_faces: the selected clusters are read one by one, then merged.    *)
(***************************************************************************)

StartMerge(th, ids) ==
  /\ Starts(th, "merge")
  /\ \A i \in DOMAIN ids : ids[i] \in Live
  /\ Become(th, [Idle EXCEPT !.pc = "choose", !.op = "merge", !.ids = ids])
  /\ UNCHANGED <<libvars, crops, frames>>

\* get_cluster for the next id; 404 when it is gone
ReadMember(th) ==
  LET me     == task[th]
      unread == {i \in DOMAIN me.ids : me.ids[i] \notin DOMAIN me.known}
      c      == me.ids[CHOOSE i \in unread : \A j \in unread : i <= j]
      seen   == [me EXCEPT !.known = Add(@, c, Read(c))]
  IN /\ At(th, "choose")
     /\ Become(th, IF c \notin Live THEN Idle
                   ELSE IF \A i \in unread : me.ids[i] = c THEN [seen EXCEPT !.pc = "merge"]
                   ELSE seen)
     /\ UNCHANGED <<libvars, crops, frames>>

\* Mutant: names are not looked at
MergeTargetFirst(ids, known) == ids[1]

\* The first selected cluster that was read with a name, else the first one
MergeTarget(ids, known) ==
  LET named == {i \in DOMAIN ids : known[ids[i]].named} IN
  IF named = {} THEN ids[1] ELSE ids[CHOOSE i \in named : \A j \in named : i <= j]

\* Mutant: the crop of every selected cluster is purged
MergeFacesPurgingAll(th) ==
  LET me     == task[th]
      target == MergeTarget(me.ids, me.known)
  IN /\ At(th, "merge")
     /\ \/ /\ \E o \in Owners : Merge(o, target, DOMAIN me.known \ {target})
           /\ Become(th, Purging([me EXCEPT !.ids = <<>>, !.known = Nothing], DOMAIN me.known))
        \/ /\ \A o \in Owners : \E c \in DOMAIN me.known : ~Owned(c, o)
           /\ Become(th, Idle)
           /\ UNCHANGED libvars
     /\ UNCHANGED <<crops, frames>>

\* db.merge_clusters for the target's owner, 404 when one of them is gone or
\* somebody else's; every source is purged
MergeFaces(th) ==
  LET me      == task[th]
      target  == MergeTarget(me.ids, me.known)
      sources == DOMAIN me.known \ {target}
  IN /\ At(th, "merge")
     /\ \/ /\ \E o \in Owners : Merge(o, target, sources)
           /\ Become(th, Purging([me EXCEPT !.ids = <<>>, !.known = Nothing], sources))
        \/ /\ \A o \in Owners : \E c \in DOMAIN me.known : ~Owned(c, o)
           /\ Become(th, Idle)
           /\ UNCHANGED libvars
     /\ UNCHANGED <<crops, frames>>

(***************************************************************************)
(* merge_duplicate_groups: two reads, then one merge per group.            *)
(***************************************************************************)

StartDuplicates(th, o) ==
  /\ Starts(th, "duplicates")
  /\ Become(th, [Idle EXCEPT !.pc = "group", !.op = "duplicates", !.owner = o,
                             !.known = Snapshot(o)])
  /\ UNCHANGED <<libvars, crops, frames>>

\* get_clusters_videos, then the groups among the clusters seen in a video
GroupDuplicates(th) ==
  LET me == task[th]
      inVideos == {c \in DOMAIN me.known : OccOf(occ, c) # {}}
  IN /\ At(th, "group")
     /\ \E G \in Groupings(me.known, inVideos) : Become(th, Resume([me EXCEPT !.todo = G]))
     /\ UNCHANGED <<libvars, crops, frames>>

\* One group: a refused merge, or one that raises, is counted and skipped
MergeGroup(th) ==
  LET me == task[th] IN
  /\ At(th, "duplicates")
  /\ \E g \in me.todo :
       LET rest == [me EXCEPT !.todo = @ \ {g}] IN
       \/ \E target \in GroupTargets(me.known, g) :
            /\ Merge(me.owner, target, g \ {target})
            /\ Become(th, Purging(rest, g \ {target}))
       \/ /\ (\E c \in g : ~Owned(c, me.owner)) \/ "raise" \in Faults
          /\ Become(th, Resume(rest))
          /\ UNCHANGED libvars
  /\ UNCHANGED <<crops, frames>>

(***************************************************************************)
(* cascade_stream: the transaction, then the frames, then the crops.       *)
(***************************************************************************)

CascadeStream(th, s) ==
  /\ Starts(th, "cascade")
  /\ Cascade(s)
  /\ Become(th, [Idle EXCEPT !.pc = "frames", !.op = "cascade", !.stream = s,
                             !.purge = Live \ Live'])
  /\ UNCHANGED <<crops, frames>>

\* Mutant: frames are deleted only along with crops
PurgeFramesWithCrops(th) ==
  LET me == task[th] IN
  /\ At(th, "frames")
  /\ frames' = IF me.purge = {} THEN frames ELSE frames \ {me.stream}
  /\ Become(th, Purging(me, me.purge))
  /\ UNCHANGED <<libvars, crops>>

\* store.delete_stream_frames
PurgeFrames(th) ==
  LET me == task[th] IN
  /\ At(th, "frames")
  /\ frames' = frames \ {me.stream}
  /\ Become(th, Purging(me, me.purge))
  /\ UNCHANGED <<libvars, crops>>

(***************************************************************************)
(* InferEngine.run: the faces of every sampled frame, then one append,     *)
(* then the centroids.                                                     *)
(***************************************************************************)

\* Nothing asks whether the stream still exists
StartInfer(th, o, s) ==
  /\ Starts(th, "infer")
  /\ Become(th, [Idle EXCEPT !.pc = "frame", !.op = "infer", !.owner = o, !.stream = s,
                             !.known = Snapshot(o)])
  /\ UNCHANGED <<libvars, crops, frames>>

\* cancel() answers true: polled before a frame, every CancelEvery frames
AbortInfer(th) ==
  LET me == task[th] IN
  /\ At(th, "frame")
  /\ "cancel" \in Faults
  /\ me.frame < FrameCount
  /\ me.faces = 0
  /\ me.frame % CancelEvery = 0
  /\ Become(th, [me EXCEPT !.pc = "aborted"])
  /\ UNCHANGED <<libvars, crops, frames>>

Answer499(th) ==
  /\ At(th, "aborted")
  /\ Become(th, Idle)
  /\ UNCHANGED <<libvars, crops, frames>>

\* The frame was read, or is still in memory, and shows another face
Detects(me) ==
  /\ me.pc = "frame"
  /\ me.frame < FrameCount
  /\ me.faces < MaxFaces
  /\ me.stream \in frames \/ me.faces > 0

\* Mutant: the tick of the next frame is noted down
DetectedLate(th, me, c) ==
  Become(th, [me EXCEPT !.faces = @ + 1, !.items = @ \cup {<<c, (me.frame + 1) * Interval>>},
                        !.drift = @ \cup {c}])

\* Mutant: a cluster that has a crop is cropped again
DetectedRecropping(th, me, c) ==
  Become(th, [me EXCEPT !.pc = "put", !.cluster = c, !.faces = @ + 1,
                        !.items = @ \cup {<<c, me.frame * Interval>>}, !.drift = @ \cup {c}])

\* Mutant: the pointer is set without storing the object first
DetectedPointerFirst(th, me, c) ==
  Become(th, [me EXCEPT !.pc = IF me.known[c].crop THEN "frame" ELSE "set",
                        !.cluster = c, !.faces = @ + 1,
                        !.items = @ \cup {<<c, me.frame * Interval>>}, !.drift = @ \cup {c}])

\* A face assigned to cluster c; its crop is stored when c has none and the
\* box is large enough
Detected(th, me, c) ==
  \E pc \in {"frame"} \cup (IF me.known[c].crop THEN {} ELSE {"put"}) :
    Become(th, [me EXCEPT !.pc = pc, !.cluster = c, !.faces = @ + 1,
                          !.items = @ \cup {<<c, me.frame * Interval>>},
                          !.drift = @ \cup {c}])

FaceKnown(th) ==
  LET me == task[th] IN
  /\ Detects(me)
  /\ \E c \in DOMAIN me.known : Detected(th, me, c)
  /\ UNCHANGED <<libvars, crops, frames>>

\* No cluster is similar enough: upsert_cluster commits at once
FaceUnknown(th) ==
  LET me == task[th] IN
  /\ Detects(me)
  /\ \E id \in ClusterIds, v \in Centroids :
       /\ Upsert(me.owner, v, id)
       /\ Detected(th, [me EXCEPT !.known = Add(@, id, Newborn)], id)
  /\ UNCHANGED <<crops, frames>>

\* Mutant: the list of samples is reset with every frame
NextFrameForgetting(th) ==
  LET me == task[th] IN
  /\ At(th, "frame")
  /\ Become(th, IF me.frame + 1 = FrameCount
                THEN [Idle EXCEPT !.pc = "append", !.op = "infer", !.owner = me.owner,
                         !.stream = me.stream, !.items = me.items, !.drift = me.drift]
                ELSE [me EXCEPT !.frame = @ + 1, !.faces = 0, !.items = {}])
  /\ UNCHANGED <<libvars, crops, frames>>

\* All faces of the frame are done, or the frame could not be read; what the
\* run no longer reads after its last frame is dropped
NextFrame(th) ==
  LET me == task[th] IN
  /\ At(th, "frame")
  /\ Become(th, IF me.frame + 1 = FrameCount
                THEN [Idle EXCEPT !.pc = "append", !.op = "infer", !.owner = me.owner,
                         !.stream = me.stream, !.items = me.items, !.drift = me.drift]
                ELSE [me EXCEPT !.frame = @ + 1, !.faces = 0])
  /\ UNCHANGED <<libvars, crops, frames>>

(***************************************************************************)
(* Appending, moving centroids, storing a crop: infer and attach share     *)
(* these calls.                                                            *)
(***************************************************************************)

\* append_stream_occurrences; the foreign key fails the request when one of
\* the clusters is gone
AppendRun(th) ==
  LET me == task[th] IN
  /\ At(th, "append")
  /\ \/ /\ AppendSamples(me.owner, me.stream, me.items)
        /\ Become(th, IF me.drift = {} THEN Idle
                      ELSE [me EXCEPT !.pc = "drift", !.items = {}])
     \/ /\ \E i \in me.items : i[1] \notin Live
        /\ Become(th, Idle)
        /\ UNCHANGED libvars
  /\ UNCHANGED <<crops, frames>>

\* update_cluster_centroid for one moved mean; attach goes on to the crop
UpdateDrift(th) ==
  LET me == task[th] IN
  /\ At(th, "drift")
  /\ \E c \in me.drift, v \in Centroids :
       /\ UpdateCentroid(c, me.owner, v)
       /\ \/ me.drift # {c} /\ Become(th, [me EXCEPT !.drift = @ \ {c}])
          \/ me.drift = {c} /\ Become(th, Idle)
          \/ /\ me.op = "attach" /\ ~me.known[c].crop
             /\ Become(th, [me EXCEPT !.pc = "put", !.drift = {}])
  /\ UNCHANGED <<crops, frames>>

\* store.put_crop creates or overwrites the object
PutCrop(th) ==
  LET me == task[th] IN
  /\ At(th, "put")
  /\ crops' = Add(crops, me.cluster, IF me.op = "recrop" THEN "user" ELSE "auto")
  /\ Become(th, [me EXCEPT !.pc = "set"])
  /\ UNCHANGED <<libvars, frames>>

\* db.set_cluster_crop; infer goes back to its frame
SetCropPointer(th) ==
  LET me == task[th] IN
  /\ At(th, "set")
  /\ SetCrop(me.cluster, me.owner)
  /\ Become(th, IF me.op = "infer"
                THEN [me EXCEPT !.pc = "frame", !.known[me.cluster].crop = TRUE]
                ELSE Idle)
  /\ UNCHANGED <<crops, frames>>

(***************************************************************************)
(* attach_frame_face, and the two routes that replace a crop.              *)
(***************************************************************************)

\* Mutant: the samples go under the caller's id, who may be an admin
StartAttachAsCaller(th, c, s, t) ==
  /\ Starts(th, "attach")
  /\ c \in Live
  /\ \E o \in Owners :
       Become(th, [Idle EXCEPT !.pc = "append", !.op = "attach", !.owner = o, !.stream = s,
                               !.cluster = c, !.known = Add(Nothing, c, Read(c)),
                               !.items = {<<c, t>>}, !.drift = {c}])
  /\ UNCHANGED <<libvars, crops, frames>>

\* Nothing asks whether the stream exists, or existed; the owner is the
\* cluster's, who may not be the caller
StartAttach(th, c, s, t) ==
  /\ Starts(th, "attach")
  /\ c \in Live
  /\ Become(th, [Idle EXCEPT !.pc = "append", !.op = "attach", !.owner = rows[c].owner,
                             !.stream = s, !.cluster = c, !.known = Add(Nothing, c, Read(c)),
                             !.items = {<<c, t>>}, !.drift = {c}])
  /\ UNCHANGED <<libvars, crops, frames>>

StartAttachNew(th, o, s, t) ==
  /\ Starts(th, "attach")
  /\ \E id \in ClusterIds, v \in Centroids :
       /\ Upsert(o, v, id)
       /\ Become(th, [Idle EXCEPT !.pc = "reread", !.op = "attach", !.owner = o, !.stream = s,
                                  !.cluster = id, !.items = {<<id, t>>}, !.drift = {id}])
  /\ UNCHANGED <<crops, frames>>

\* get_cluster of the new cluster; None is dereferenced and answers 500
Reread(th) ==
  LET me == task[th] IN
  /\ At(th, "reread")
  /\ Become(th, IF me.cluster \notin Live THEN Idle
                ELSE [me EXCEPT !.pc = "append",
                                !.known = Add(Nothing, me.cluster, Read(me.cluster))])
  /\ UNCHANGED <<libvars, crops, frames>>

\* replace_face_crop and replace_face_crop_from_sample
StartRecrop(th, c) ==
  /\ Starts(th, "recrop")
  /\ c \in Live
  /\ Become(th, [Idle EXCEPT !.pc = "put", !.op = "recrop", !.owner = rows[c].owner,
                             !.cluster = c])
  /\ UNCHANGED <<libvars, crops, frames>>

(***************************************************************************)
(* The whole service.                                                      *)
(***************************************************************************)

\* A call raises and nothing catches it, or the worker process dies
Abandon(th) ==
  /\ "raise" \in Faults
  /\ ~At(th, "idle")
  /\ Become(th, Idle)
  /\ UNCHANGED <<libvars, crops, frames>>

Request(th) ==
  \/ \E o \in Owners : StartSweep(th, o) \/ StartDuplicates(th, o)
  \/ \E o \in Owners, C \in SUBSET ClusterIds : StartDelete(th, o, C)
  \/ \E o \in Owners, s \in Streams : StartInfer(th, o, s)
  \/ \E o \in Owners, s \in Streams, t \in SampleTimes : StartAttachNew(th, o, s, t)
  \/ \E c \in ClusterIds, s \in Streams, t \in SampleTimes : StartAttach(th, c, s, t)
  \/ \E c \in ClusterIds, n \in Names \cup {NoName} : RenameFace(th, c, n)
  \/ \E c \in ClusterIds, s \in Streams : DetachFace(th, c, s)
  \/ \E n \in 2 .. MaxSelected : \E ids \in [1 .. n -> ClusterIds] : StartMerge(th, ids)
  \/ \E c \in ClusterIds : StartRecrop(th, c)
  \/ \E s \in Streams : CascadeStream(th, s)

\* The next call of a request that is being served
Work(th) ==
  \/ PurgeCrop(th) \/ DeleteNext(th)
  \/ ReadMember(th) \/ MergeFaces(th) \/ GroupDuplicates(th) \/ MergeGroup(th)
  \/ PurgeFrames(th)
  \/ FaceKnown(th) \/ FaceUnknown(th) \/ NextFrame(th) \/ Answer499(th)
  \/ AppendRun(th) \/ UpdateDrift(th) \/ PutCrop(th) \/ SetCropPointer(th) \/ Reread(th)

Next == \E th \in Threads :
          Request(th) \/ Work(th) \/ PurgeFails(th) \/ AbortInfer(th) \/ Abandon(th)

Spec == Init /\ [][Next]_vars

(***************************************************************************)
(* What holds whatever requests overlap and whatever fails.                *)
(***************************************************************************)

Steps == {"idle", "purge", "delete", "sweep", "choose", "merge", "group", "duplicates",
          "frames", "frame", "aborted", "append", "drift", "put", "set", "reread"}

\* Every object and every local variable stays in its domain.
ServiceTypeOK ==
  /\ TypeOK
  /\ DOMAIN crops \subseteq ClusterIds
  /\ \A c \in DOMAIN crops : crops[c] \in {"auto", "user"}
  /\ frames \subseteq Streams
  /\ \A th \in Threads :
       /\ task[th].pc \in Steps
       /\ task[th].items \subseteq ClusterIds \X SampleTimes
       /\ task[th].drift \cup task[th].purge \subseteq ClusterIds

\* crop_object of a row never points at an object that is not there: the
\* object is stored before the pointer is set and deleted after the row is,
\* and no overlap of requests and no failure between two calls undoes that.
CropPointerValid == \A c \in Live : rows[c].crop => c \in DOMAIN crops

\* A crop is deleted only for a person that is gone: no purge that runs late
\* takes the picture of somebody who is still in the library.
PurgeOnlyGone == [][\A c \in DOMAIN crops \ DOMAIN crops' : c \notin Live]_vars

(***************************************************************************)
(* What the routes promise of a request that runs alone.                   *)
(***************************************************************************)

Quiet == \A th \in Threads : At(th, "idle")

\* When nothing is running, every crop in the bucket belongs to a person:
\* delete, detach, merge and cascade took the crops along.
NoOrphanCrop == Quiet => DOMAIN crops \subseteq Live

\* When nothing is running, every person has a sample: no request leaves an
\* empty cluster behind.
NoEmptyPeople == Quiet => \A c \in Live : rows[c].samples > 0

\* A merge of selected people, however many of them bear a name, leaves one of
\* them under the name it had: the first selected one that has a name, or
\* else the first one.
MergeKeepsAName ==
  [][\A th \in Threads : LET ids == task[th].ids IN
       At(th, "merge") /\ Live' # Live =>
         \E k \in DOMAIN ids :
           /\ {ids[i] : i \in DOMAIN ids} \cap Live' = {ids[k]}
           /\ rows'[ids[k]].name = rows[ids[k]].name
           /\ \A i \in DOMAIN ids : IsNamed(ids[i]) => IsNamed(ids[k]) /\ k <= i
           /\ IsNamed(ids[k]) \/ k = 1]_vars

\* Merging duplicates is automatic, so it may never delete a named person.
DuplicatesKeepNames ==
  [][\A th \in Threads : At(th, "duplicates") => \A c \in Live \ Live' : ~IsNamed(c)]_vars

\* The last step of a cascade that is answered 200
AnswersCascade(th) ==
  /\ task[th].op = "cascade"
  /\ PurgeFrames(th) \/ PurgeCrop(th)
  /\ task'[th].pc = "idle"

\* When a cascade is answered 200 the stream has left nothing: no sample of any
\* owner and no frame.  (Later requests may add samples to it again.)
CascadeComplete ==
  [][\A th \in Threads : AnswersCascade(th) =>
       OccIn(occ', task[th].stream) = {} /\ task[th].stream \notin frames']_vars

\* A picture the user chose stays until the user chooses another or the
\* person is deleted.
UserCropKept ==
  [][\A c \in DOMAIN crops \cap DOMAIN crops' :
       crops[c] = "user" /\ c \in Live => crops'[c] = "user"]_vars

=============================================================================
