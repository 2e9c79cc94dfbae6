----------------------------- MODULE FacesProofs -----------------------------
(***************************************************************************)
(* For every number of threads, clusters, streams and failures: whatever   *)
(* requests overlap, the service is a run of the library's transactions,   *)
(* every crop pointer is valid, and a purge only hits people who are gone. *)
(*                                                                         *)
(* The invariant says what each handler may rely on although it looks at   *)
(* nothing again: ids never come back, so what it has to purge stays gone, *)
(* and the object whose pointer it is about to set stays stored.           *)
(***************************************************************************)
EXTENDS FacesService, LibraryProofs

Fields == {"pc", "op", "owner", "stream", "cluster", "known", "frame", "faces", "items",
           "drift", "ids", "todo", "purge"}

\* The requests that delete clusters
Removals == {"delete", "sweep", "merge", "duplicates", "detach", "cascade"}

InRun(tk) == tk.pc = "frame" \/ (tk.op = "infer" /\ tk.pc \in {"put", "set"})

\* What the local variables of any request hold, when M are the ids handed out
Carries(tk, M) ==
  /\ DOMAIN tk = Fields
  /\ tk.frame \in Nat
  /\ tk.items \subseteq M \X SampleTimes
  /\ DOMAIN tk.known \subseteq M
  /\ tk.drift \subseteq M

\* A request that deletes clusters comes back to its own loop only
Removes(tk) ==
  /\ tk.op \in Removals
  /\ tk.op \in {"detach", "cascade"} => tk.todo = {}

\* What a handler may rely on, when L are the live ids and D those with a crop
Sound(tk, M, L, D) ==
  /\ Carries(tk, M)
  /\ tk.pc \in Steps
  /\ tk.purge \subseteq M \ L
  /\ tk.pc = "frame" => tk.op = "infer"
  /\ InRun(tk) \/ tk.pc \in {"append", "reread"} => tk.stream \in Streams
  /\ tk.pc \in {"frame", "append", "reread", "drift", "put", "set"} => tk.owner \in Owners
  /\ tk.pc \in {"put", "set"} \/ (tk.pc # "idle" /\ tk.op = "attach") => tk.cluster \in M
  /\ tk.pc = "set" /\ tk.cluster \in L => tk.cluster \in D
  /\ tk.pc = "group" => tk.op = "duplicates"
  /\ tk.pc \in Removals \cup {"purge", "frames", "choose", "group"} => Removes(tk)

StoresTyped ==
  /\ DOMAIN crops \subseteq ClusterIds
  /\ \A c \in DOMAIN crops : crops[c] \in {"auto", "user"}
  /\ frames \subseteq Streams

TasksSound == /\ DOMAIN task = Threads
              /\ \A th \in Threads : Sound(task[th], minted, Live, DOMAIN crops)

\* The clusters a request may still append samples to
Appends(tk) == {i[1] : i \in tk.items} \cup {c \in DOMAIN tk.known : InRun(tk)}

\* Nothing in append_stream_occurrences asks whose they are; the handlers see
\* to it that those that are still there are the owner's they append for
TasksOwn == \A th \in Threads : \A c \in Appends(task[th]) \cap Live :
              rows[c].owner = task[th].owner

ServiceInv == TypeInv /\ StoresTyped /\ CropPointerValid /\ TasksSound /\ TasksOwn

(***************************************************************************)
(* Handlers.                                                               *)
(***************************************************************************)

\* A handler that does nothing may rely on nothing.
LEMMA IdleSound == \A M, L, D : Sound(Idle, M, L, D)
BY DEF Sound, Carries, Idle, Fields, Nothing, Steps, InRun, Removals

\* The next step of a loop over clusters or groups is sound.
LEMMA ResumeSound ==
  ASSUME NEW tk, NEW M, NEW L, NEW D, Carries(tk, M), Removes(tk)
  PROVE  Sound(Resume(tk), M, L, D)
<1>1. CASE tk.todo = {}
  BY <1>1, IdleSound DEF Resume
<1>2. CASE tk.todo # {}
  <2>1. Resume(tk) = [tk EXCEPT !.pc = tk.op, !.purge = {}]
    BY <1>2 DEF Resume
  <2>2. tk.op \in {"delete", "sweep", "merge", "duplicates"}
    BY <1>2 DEF Removes, Removals
  <2>3. QED
    BY <2>1, <2>2 DEF Sound, Carries, Removes, Fields, InRun, Steps, Removals
<1>3. QED
  BY <1>1, <1>2

\* So is a purge of clusters that are gone.
LEMMA PurgingSound ==
  ASSUME NEW tk, NEW M, NEW L, NEW D, NEW C \in SUBSET (M \ L), Carries(tk, M), Removes(tk)
  PROVE  Sound(Purging(tk, C), M, L, D)
<1>1. CASE C = {}
  BY <1>1, ResumeSound DEF Purging
<1>2. CASE C # {}
  <2>1. Purging(tk, C) = [tk EXCEPT !.pc = "purge", !.purge = C]
    BY <1>2 DEF Purging
  <2>2. QED
    BY <2>1 DEF Sound, Carries, Removes, Fields, InRun, Steps, Removals
<1>3. QED
  BY <1>1, <1>2

\* What other handlers do is no concern of one that looks at nothing again:
\* ids are added only, no dead one comes back, and live ones keep their crop.
LEMMA StaysSound ==
  ASSUME NEW tk, NEW M, NEW L, NEW D, NEW N, NEW K, NEW E, Sound(tk, M, L, D),
         M \subseteq N, K \cap M \subseteq L, D \cap K \subseteq E
  PROVE  Sound(tk, N, K, E)
BY DEF Sound, Carries, InRun

Stable == /\ minted \subseteq minted'
          /\ Live' \cap minted \subseteq Live
          /\ DOMAIN crops \cap Live' \subseteq DOMAIN crops'

\* A step of one handler keeps all of them sound if its own next state is.
LEMMA HandlerStep ==
  ASSUME TasksSound, Stable, NEW th \in Threads, NEW tk, Become(th, tk),
         Sound(tk, minted', Live', DOMAIN crops')
  PROVE  TasksSound'
<1>1. DOMAIN task' = Threads
  BY DEF TasksSound, Become
<1>2. ASSUME NEW u \in Threads PROVE Sound(task'[u], minted', Live', DOMAIN crops')
  <2>1. CASE u = th
    BY <2>1 DEF TasksSound, Become
  <2>2. CASE u # th
    <3>1. task'[u] = task[u]
      BY <2>2 DEF TasksSound, Become
    <3>2. Sound(task[u], minted, Live, DOMAIN crops)
      BY DEF TasksSound
    <3>3. QED
      BY <3>1, <3>2, StaysSound DEF Stable
  <2>3. QED
    BY <2>1, <2>2
<1>3. QED
  BY <1>1, <1>2 DEF TasksSound

(***************************************************************************)
(* What the transactions do to live ids and crop pointers.                 *)
(***************************************************************************)

\* A transaction that curates hands out no id, revives none and sets no pointer.
Curates == /\ minted' = minted
           /\ Live' \subseteq Live
           /\ \A c \in Live' : rows'[c].crop = rows[c].crop

\* Counting touches no pointer.
LEMMA RecountKeepsCrops ==
  ASSUME NEW D, NEW rs \in [D -> Row], NEW os, NEW C
  PROVE  /\ DOMAIN Recount(rs, os, C) = D
         /\ \A c \in D : Recount(rs, os, C)[c].crop = rs[c].crop
BY DEF Recount, Row

\* Every transaction but upsert_cluster and set_cluster_crop curates.  An append
\* only counts.
LEMMA AppendCurates ==
  ASSUME TypeInv, NEW o, NEW s, NEW items, AppendSamples(o, s, items)
  PROVE  Curates
<1>1. rows \in [Live -> Row]
  BY DEF TypeInv, TypeOK
<1>2. PICK os, C : rows' = Recount(rows, os, C) /\ minted' = minted
  BY DEF AppendSamples
<1>3. QED
  BY <1>1, <1>2, RecountKeepsCrops DEF Curates, Live

\* Moving a centroid touches no pointer, whether the cluster is there or not.
LEMMA CentroidCurates ==
  ASSUME TypeInv, NEW c, NEW o, NEW v, UpdateCentroid(c, o, v)
  PROVE  Curates
<1>1. rows \in [Live -> Row]
  BY DEF TypeInv, TypeOK
<1>2. QED
  BY <1>1 DEF UpdateCentroid, Curates, Live, Row

\* Neither does a rename.
LEMMA RenameCurates ==
  ASSUME TypeInv, NEW c, NEW o, NEW n, Rename(c, o, n)
  PROVE  Curates
<1>1. rows \in [Live -> Row]
  BY DEF TypeInv, TypeOK
<1>2. QED
  BY <1>1 DEF Rename, Curates, Live, Row

\* Dropping rows, counted or not, drops those ids and nothing else.
LEMMA WithoutCurates ==
  ASSUME TypeInv, NEW os, NEW C, NEW G, minted' = minted,
         rows' = Without(Recount(rows, os, C), G) \/ rows' = Without(rows, G)
  PROVE  Curates /\ Live' = Live \ G
<1>1. PICK rs : /\ rows' = Without(rs, G)
                /\ DOMAIN rs = Live /\ \A c \in Live : rs[c].crop = rows[c].crop
  <2>1. rows \in [Live -> Row] /\ DOMAIN rows = Live
    BY DEF TypeInv, TypeOK, Live
  <2>2. /\ DOMAIN Recount(rows, os, C) = Live
        /\ \A c \in Live : Recount(rows, os, C)[c].crop = rows[c].crop
    BY <2>1, RecountKeepsCrops
  <2>3. QED
    BY <2>1, <2>2
<1>2. Live' = Live \ G
  BY <1>1 DEF Without, Live
<1>3. \A c \in Live \ G : rows'[c] = rs[c]
  BY <1>1 DEF Without
<1>4. QED
  BY <1>1, <1>2, <1>3 DEF Curates

\* A delete drops its cluster.
LEMMA DeleteCurates ==
  ASSUME TypeInv, NEW c, NEW o, Delete(c, o)
  PROVE  Curates /\ c \notin Live'
BY WithoutCurates DEF Delete

\* A detach drops at most its cluster.
LEMMA DetachCurates ==
  ASSUME TypeInv, NEW c, NEW s, NEW o, Detach(c, s, o)
  PROVE  Curates
BY WithoutCurates DEF Detach

\* A cascade drops the orphans.
LEMMA CascadeCurates ==
  ASSUME TypeInv, NEW s, Cascade(s)
  PROVE  Curates
BY WithoutCurates DEF Cascade

\* A merge drops exactly its sources.
LEMMA MergeCurates ==
  ASSUME TypeInv, NEW o, NEW target, NEW sources, Merge(o, target, sources)
  PROVE  Curates /\ Live' = Live \ sources
BY WithoutCurates DEF Merge

\* set_cluster_crop sets at most the pointer of the cluster it is called with.
LEMMA SetCropEffect ==
  ASSUME TypeInv, NEW c, NEW o, SetCrop(c, o)
  PROVE  /\ minted' = minted /\ Live' = Live
         /\ \A k \in Live : rows'[k].crop => rows[k].crop \/ k = c
<1>1. rows \in [Live -> Row]
  BY DEF TypeInv, TypeOK
<1>2. QED
  BY <1>1 DEF SetCrop, Live, Row

(***************************************************************************)
(* Steps of the service.                                                   *)
(***************************************************************************)

\* What is to be shown of every step
Kept == /\ [LibraryNext]_libvars
        /\ StoresTyped' /\ CropPointerValid' /\ TasksSound'
        /\ \A c \in DOMAIN crops \ DOMAIN crops' : c \notin Live

\* A step that leaves tables and crops alone keeps everything if its handler
\* goes on soundly.
LEMMA LocalStep ==
  ASSUME ServiceInv, NEW th \in Threads, NEW tk, Become(th, tk),
         UNCHANGED <<libvars, crops>>, StoresTyped',
         Sound(tk, minted, Live, DOMAIN crops)
  PROVE  Kept
<1>1. /\ rows' = rows /\ minted' = minted /\ crops' = crops /\ UNCHANGED libvars
      /\ Live' = Live
  BY DEF libvars, Live
<1>2. Stable
  BY <1>1 DEF Stable
<1>3. TasksSound'
  BY <1>1, <1>2, HandlerStep DEF ServiceInv
<1>4. CropPointerValid'
  BY <1>1 DEF ServiceInv, CropPointerValid
<1>5. QED
  BY <1>1, <1>3, <1>4 DEF Kept

\* So does a transaction that curates.
LEMMA CuratingStep ==
  ASSUME ServiceInv, NEW th \in Threads, NEW tk, Become(th, tk),
         LibraryNext, Curates, crops' = crops, StoresTyped',
         Sound(tk, minted, Live', DOMAIN crops)
  PROVE  Kept
<1>1. Stable
  BY DEF Stable, Curates
<1>2. TasksSound'
  BY <1>1, HandlerStep DEF ServiceInv, Curates
<1>3. CropPointerValid'
  BY DEF ServiceInv, CropPointerValid, Curates
<1>4. QED
  BY <1>2, <1>3 DEF Kept

\* What the invariant says of the handler that steps
LEMMA Serving ==
  ASSUME ServiceInv, NEW th \in Threads
  PROVE  /\ Sound(task[th], minted, Live, DOMAIN crops)
         /\ Live \subseteq minted /\ minted \subseteq ClusterIds
         /\ \A c \in Live : c \in ClusterIds /\ rows[c].owner \in Owners
<1>1. rows \in [Live -> Row] /\ Live \subseteq minted /\ minted \subseteq ClusterIds
  BY DEF ServiceInv, TypeInv, TypeOK
<1>2. QED
  BY <1>1 DEF ServiceInv, TasksSound, Row

\* The other stores stay typed when they do not change.
LEMMA StoresStay ==
  ASSUME ServiceInv, UNCHANGED <<crops, frames>> PROVE StoresTyped'
BY DEF ServiceInv, StoresTyped

(***************************************************************************)
(* Purging and deleting.                                                   *)
(***************************************************************************)

\* A purge deletes the crop of a cluster that is gone, so no pointer breaks.
LEMMA PurgeCropKeeps ==
  ASSUME ServiceInv, NEW th \in Threads, PurgeCrop(th)
  PROVE  Kept
<1> DEFINE me == task[th]
<1>1. PICK c \in me.purge : /\ crops' = Minus(crops, c)
                            /\ Become(th, Purging(me, me.purge \ {c}))
                            /\ UNCHANGED <<libvars, frames>>
  BY DEF PurgeCrop
<1>2. /\ Carries(me, minted) /\ Removes(me) /\ me.purge \subseteq minted \ Live
  BY Serving DEF PurgeCrop, At, Sound
<1>3. /\ rows' = rows /\ minted' = minted /\ Live' = Live /\ UNCHANGED libvars
      /\ DOMAIN crops' = DOMAIN crops \ {c}
      /\ \A k \in DOMAIN crops' : crops'[k] = crops[k]
  BY <1>1 DEF libvars, Live, Minus
<1>4. Stable
  BY <1>2, <1>3 DEF Stable
<1>5. Sound(Purging(me, me.purge \ {c}), minted', Live', DOMAIN crops')
  BY <1>2, <1>3, PurgingSound
<1>6. TasksSound'
  BY <1>1, <1>4, <1>5, HandlerStep DEF ServiceInv
<1>7. StoresTyped'
  BY <1>1, <1>3 DEF ServiceInv, StoresTyped
<1>8. CropPointerValid' /\ \A k \in DOMAIN crops \ DOMAIN crops' : k \notin Live
  BY <1>2, <1>3 DEF ServiceInv, CropPointerValid
<1>9. QED
  BY <1>3, <1>6, <1>7, <1>8 DEF Kept

\* A purge that fails leaves an object behind, which no row points at.
LEMMA PurgeFailsKeeps ==
  ASSUME ServiceInv, NEW th \in Threads, PurgeFails(th)
  PROVE  Kept
<1> DEFINE me == task[th]
<1>1. PICK c \in me.purge :
        Become(th, IF me.op = "cascade" THEN Idle ELSE Purging(me, me.purge \ {c}))
  BY DEF PurgeFails
<1>2. /\ Carries(me, minted) /\ Removes(me) /\ me.purge \subseteq minted \ Live
  BY Serving DEF PurgeFails, At, Sound
<1>3. Sound(IF me.op = "cascade" THEN Idle ELSE Purging(me, me.purge \ {c}),
            minted, Live, DOMAIN crops)
  BY <1>2, IdleSound, PurgingSound
<1>4. QED
  BY <1>1, <1>3, LocalStep, StoresStay DEF PurgeFails

\* A delete request may carry any ids: each is checked when its turn comes.
LEMMA StartDeleteKeeps ==
  ASSUME ServiceInv, NEW th \in Threads, NEW o, NEW C, StartDelete(th, o, C)
  PROVE  Kept
<1> DEFINE tk == [Idle EXCEPT !.pc = "delete", !.op = "delete", !.owner = o, !.todo = C]
<1>1. Sound(tk, minted, Live, DOMAIN crops)
  BY DEF Sound, Carries, Idle, Fields, Nothing, Steps, InRun, Removals, Removes
<1>2. QED
  BY <1>1, LocalStep, StoresStay DEF StartDelete

\* A sweep carries what was empty when it looked.
LEMMA StartSweepKeeps ==
  ASSUME ServiceInv, NEW th \in Threads, NEW o, StartSweep(th, o)
  PROVE  Kept
<1> DEFINE empty == {c \in Live : rows[c].owner = o /\ OccOf(occ, c) = {}}
           tk == [Idle EXCEPT !.pc = "sweep", !.op = "sweep", !.owner = o, !.todo = empty]
<1>1. Sound(tk, minted, Live, DOMAIN crops)
  BY DEF Sound, Carries, Idle, Fields, Nothing, Steps, InRun, Removals, Removes
<1>2. Become(th, tk) /\ UNCHANGED <<libvars, crops, frames>>
  BY DEF StartSweep
<1>3. QED
  BY <1>1, <1>2, LocalStep, StoresStay

\* A shorter list of things to do changes nothing else.
LEMMA RestOf ==
  ASSUME NEW tk, NEW M, Carries(tk, M), Removes(tk), NEW c \in tk.todo
  PROVE  LET rest == [tk EXCEPT !.todo = @ \ {c}]
         IN Carries(rest, M) /\ Removes(rest) /\ rest.owner = tk.owner
BY DEF Carries, Removes, Fields

\* Deleting the next cluster of the list, and purging it only if it went.
LEMMA DeleteNextKeeps ==
  ASSUME ServiceInv, NEW th \in Threads, DeleteNext(th)
  PROVE  Kept
<1> DEFINE me == task[th]
           rest(c) == [me EXCEPT !.todo = @ \ {c}]
<1>1. PICK c \in me.todo :
        \/ /\ Delete(c, me.owner)
           /\ Become(th, Purging(rest(c), {k \in {c} : rows[k].crop}))
        \/ /\ Become(th, Resume(rest(c)))
           /\ UNCHANGED libvars
  BY DEF DeleteNext
<1>2. UNCHANGED <<crops, frames>>
  BY DEF DeleteNext
<1>3. Carries(me, minted) /\ Removes(me)
  BY Serving DEF DeleteNext, At, Sound, Removals
<1>4. Carries(rest(c), minted) /\ Removes(rest(c))
  BY <1>3, RestOf
<1>5. CASE Delete(c, me.owner) /\ Become(th, Purging(rest(c), {k \in {c} : rows[k].crop}))
  <2>1. c \in Live /\ c \in ClusterIds /\ me.owner \in Owners /\ c \in minted
    BY <1>5, Serving DEF Delete, Owned
  <2>2. Curates /\ c \notin Live'
    BY <1>5, DeleteCurates DEF ServiceInv
  <2>3. Sound(Purging(rest(c), {k \in {c} : rows[k].crop}), minted, Live', DOMAIN crops)
    BY <1>4, <2>1, <2>2, PurgingSound
  <2>4. LibraryNext
    BY <1>5, <2>1 DEF LibraryNext, DeleteAny
  <2>5. QED
    BY <1>2, <1>5, <2>2, <2>3, <2>4, CuratingStep, StoresStay
<1>6. CASE Become(th, Resume(rest(c))) /\ UNCHANGED libvars
  BY <1>2, <1>4, <1>6, ResumeSound, LocalStep, StoresStay
<1>7. QED
  BY <1>1, <1>5, <1>6

(***************************************************************************)
(* Curation.                                                               *)
(***************************************************************************)

\* rename_face is one transaction.
LEMMA RenameFaceKeeps ==
  ASSUME ServiceInv, NEW th \in Threads, NEW c \in ClusterIds, NEW n \in Names \cup {NoName},
         RenameFace(th, c, n)
  PROVE  Kept
<1>1. PICK o \in Owners : Rename(c, o, n)
  BY DEF RenameFace
<1>2. /\ crops' = crops /\ task' = task /\ StoresTyped'
  BY StoresStay DEF RenameFace
<1>3. Curates
  BY <1>1, RenameCurates DEF ServiceInv
<1>4. LibraryNext
  BY <1>1 DEF LibraryNext, RenameAny
<1>5. Live' = Live
  BY <1>1 DEF Rename, Live
<1>6. TasksSound' /\ CropPointerValid'
  BY <1>2, <1>3, <1>5 DEF Curates, ServiceInv, TasksSound, CropPointerValid
<1>7. QED
  BY <1>2, <1>4, <1>6 DEF Kept

\* detach_stream_face purges the crop only if the row went.
LEMMA DetachFaceKeeps ==
  ASSUME ServiceInv, NEW th \in Threads, NEW c \in ClusterIds, NEW s \in Streams,
         DetachFace(th, c, s)
  PROVE  Kept
<1> DEFINE o == rows[c].owner
           tk == [Idle EXCEPT !.op = "detach", !.owner = o]
           gone == {k \in {c} : k \notin Live' /\ rows[k].crop}
<1>1. /\ c \in Live /\ Detach(c, s, o) /\ Become(th, Purging(tk, gone))
      /\ UNCHANGED <<crops, frames>>
  BY DEF DetachFace
<1>2. o \in Owners /\ c \in minted
  BY <1>1, Serving
<1>3. Curates
  BY <1>1, DetachCurates DEF ServiceInv
<1>4. LibraryNext
  BY <1>1, <1>2 DEF LibraryNext, DetachAny
<1>5. Carries(tk, minted) /\ Removes(tk)
  BY DEF Carries, Removes, Idle, Fields, Nothing, Removals
<1>6. Sound(Purging(tk, gone), minted, Live', DOMAIN crops)
  BY <1>2, <1>5, PurgingSound
<1>7. QED
  BY <1>1, <1>3, <1>4, <1>6, CuratingStep, StoresStay

\* A merge request starts with nothing read.
LEMMA StartMergeKeeps ==
  ASSUME ServiceInv, NEW th \in Threads, NEW ids, StartMerge(th, ids)
  PROVE  Kept
<1> DEFINE tk == [Idle EXCEPT !.pc = "choose", !.op = "merge", !.ids = ids]
<1>1. Sound(tk, minted, Live, DOMAIN crops)
  BY DEF Sound, Carries, Idle, Fields, Nothing, Steps, InRun, Removals, Removes
<1>2. QED
  BY <1>1, LocalStep, StoresStay DEF StartMerge

\* What merge_faces reads was handed out, though it may be gone by now.
LEMMA ReadMemberKeeps ==
  ASSUME ServiceInv, NEW th \in Threads, ReadMember(th)
  PROVE  Kept
<1> DEFINE me == task[th]
<1>1. PICK c, tk : /\ Become(th, tk)
                   /\ \/ tk = Idle
                      \/ /\ c \in Live
                         /\ \/ tk = [me EXCEPT !.known = Add(@, c, Read(c))]
                            \/ tk = [[me EXCEPT !.known = Add(@, c, Read(c))]
                                       EXCEPT !.pc = "merge"]
  BY DEF ReadMember
<1>2. /\ me.pc = "choose" /\ Sound(me, minted, Live, DOMAIN crops)
  BY Serving DEF ReadMember, At
<1>3. Carries(me, minted) /\ Removes(me)
  BY <1>2 DEF Sound
<1>4. Sound(tk, minted, Live, DOMAIN crops)
  <2>1. CASE tk = Idle
    BY <2>1, IdleSound
  <2>2. ASSUME c \in Live PROVE DOMAIN Add(me.known, c, Read(c)) \subseteq minted
    BY <1>3, <2>2, Serving DEF Add, Carries
  <2>3. CASE c \in Live /\ tk = [me EXCEPT !.known = Add(@, c, Read(c))]
    BY <1>2, <1>3, <2>2, <2>3 DEF Sound, Carries, Removes, Fields, InRun, Removals
  <2>4. CASE c \in Live /\ tk = [[me EXCEPT !.known = Add(@, c, Read(c))] EXCEPT !.pc = "merge"]
    BY <1>2, <1>3, <2>2, <2>4 DEF Sound, Carries, Removes, Fields, InRun, Removals, Steps
  <2>5. QED
    BY <1>1, <2>1, <2>3, <2>4
<1>5. QED
  BY <1>1, <1>4, LocalStep, StoresStay DEF ReadMember

\* Merging, then purging what was merged away
LEMMA MergingKeeps ==
  ASSUME ServiceInv, NEW th \in Threads, NEW tk, Carries(tk, minted), Removes(tk),
         NEW o, NEW target, NEW sources,
         Merge(o, target, sources), Become(th, Purging(tk, sources)),
         UNCHANGED <<crops, frames>>
  PROVE  Kept
<1>1. /\ target \in ClusterIds /\ o \in Owners
      /\ sources \in SUBSET ClusterIds /\ sources \subseteq minted
  BY Serving DEF Merge, Owned
<1>2. Curates /\ Live' = Live \ sources
  BY MergeCurates DEF ServiceInv
<1>3. Sound(Purging(tk, sources), minted, Live', DOMAIN crops)
  BY <1>1, <1>2, PurgingSound
<1>4. LibraryNext
  BY <1>1 DEF LibraryNext, MergeAny
<1>5. QED
  BY <1>2, <1>3, <1>4, CuratingStep, StoresStay

\* merge_faces purges its sources only after the merge committed.
LEMMA MergeFacesKeeps ==
  ASSUME ServiceInv, NEW th \in Threads, MergeFaces(th)
  PROVE  Kept
<1> DEFINE me == task[th]
           target == MergeTarget(me.ids, me.known)
           sources == DOMAIN me.known \ {target}
           tk == [me EXCEPT !.ids = <<>>, !.known = Nothing]
<1>1. \/ (\E o \in Owners : Merge(o, target, sources)) /\ Become(th, Purging(tk, sources))
      \/ Become(th, Idle) /\ UNCHANGED libvars
  BY DEF MergeFaces
<1>2. UNCHANGED <<crops, frames>>
  BY DEF MergeFaces
<1>3. Carries(me, minted) /\ Removes(me)
  BY Serving DEF MergeFaces, At, Sound, Removals
<1>4. Carries(tk, minted) /\ Removes(tk)
  BY <1>3 DEF Carries, Removes, Fields, Nothing
<1>5. CASE (\E o \in Owners : Merge(o, target, sources)) /\ Become(th, Purging(tk, sources))
  BY <1>2, <1>4, <1>5, MergingKeeps
<1>6. CASE Become(th, Idle) /\ UNCHANGED libvars
  BY <1>2, <1>6, IdleSound, LocalStep, StoresStay
<1>7. QED
  BY <1>1, <1>5, <1>6

\* merge_duplicate_groups reads clusters that were handed out.
LEMMA StartDuplicatesKeeps ==
  ASSUME ServiceInv, NEW th \in Threads, NEW o, StartDuplicates(th, o)
  PROVE  Kept
<1> DEFINE tk == [Idle EXCEPT !.pc = "group", !.op = "duplicates", !.owner = o,
                              !.known = Snapshot(o)]
<1>1. DOMAIN Snapshot(o) \subseteq minted
  BY Serving DEF Snapshot
<1>2. Sound(tk, minted, Live, DOMAIN crops)
  BY <1>1 DEF Sound, Carries, Idle, Fields, Steps, InRun, Removals, Removes
<1>3. QED
  BY <1>2, LocalStep, StoresStay DEF StartDuplicates

\* Any groups may come of them.
LEMMA GroupDuplicatesKeeps ==
  ASSUME ServiceInv, NEW th \in Threads, GroupDuplicates(th)
  PROVE  Kept
<1> DEFINE me == task[th]
<1>1. PICK G : Become(th, Resume([me EXCEPT !.todo = G]))
  BY DEF GroupDuplicates
<1>2. Carries(me, minted) /\ Removes(me) /\ me.op = "duplicates"
  BY Serving DEF GroupDuplicates, At, Sound
<1>3. Carries([me EXCEPT !.todo = G], minted) /\ Removes([me EXCEPT !.todo = G])
  BY <1>2 DEF Carries, Removes, Fields
<1>4. Sound(Resume([me EXCEPT !.todo = G]), minted, Live, DOMAIN crops)
  BY <1>3, ResumeSound
<1>5. QED
  BY <1>1, <1>4, LocalStep, StoresStay DEF GroupDuplicates

\* A group whose members are gone is refused, so only gone people are purged.
LEMMA MergeGroupKeeps ==
  ASSUME ServiceInv, NEW th \in Threads, MergeGroup(th)
  PROVE  Kept
<1> DEFINE me == task[th]
           rest(g) == [me EXCEPT !.todo = @ \ {g}]
<1>1. PICK g \in me.todo :
        \/ \E target \in GroupTargets(me.known, g) :
             /\ Merge(me.owner, target, g \ {target})
             /\ Become(th, Purging(rest(g), g \ {target}))
        \/ Become(th, Resume(rest(g))) /\ UNCHANGED libvars
  BY DEF MergeGroup
<1>2. UNCHANGED <<crops, frames>>
  BY DEF MergeGroup
<1>3. Carries(me, minted) /\ Removes(me)
  BY Serving DEF MergeGroup, At, Sound, Removals
<1>4. Carries(rest(g), minted) /\ Removes(rest(g))
  BY <1>3, RestOf
<1>5. ASSUME NEW target, Merge(me.owner, target, g \ {target}),
             Become(th, Purging(rest(g), g \ {target}))
      PROVE  Kept
  BY <1>2, <1>4, <1>5, MergingKeeps
<1>6. CASE Become(th, Resume(rest(g))) /\ UNCHANGED libvars
  BY <1>2, <1>4, <1>6, ResumeSound, LocalStep, StoresStay
<1>7. QED
  BY <1>1, <1>5, <1>6

\* The cascade goes on to purge the clusters it deleted, and no others.
LEMMA CascadeStreamKeeps ==
  ASSUME ServiceInv, NEW th \in Threads, NEW s \in Streams, CascadeStream(th, s)
  PROVE  Kept
<1> DEFINE tk == [Idle EXCEPT !.pc = "frames", !.op = "cascade", !.stream = s,
                              !.purge = Live \ Live']
<1>1. /\ Cascade(s) /\ Become(th, tk) /\ UNCHANGED <<crops, frames>>
  BY DEF CascadeStream
<1>2. StoresTyped'
  BY <1>1, StoresStay
<1>3. Curates
  BY <1>1, CascadeCurates DEF ServiceInv
<1>4. LibraryNext
  BY <1>1 DEF LibraryNext, CascadeAny
<1>5. Live \ Live' \subseteq minted \ Live'
  BY Serving
<1>6. Sound(tk, minted, Live', DOMAIN crops)
  BY <1>5 DEF Sound, Carries, Idle, Fields, Nothing, Steps, InRun, Removals, Removes
<1>7. QED
  BY <1>1, <1>2, <1>3, <1>4, <1>6, CuratingStep

\* Deleting frames touches no crop.
LEMMA PurgeFramesKeeps ==
  ASSUME ServiceInv, NEW th \in Threads, PurgeFrames(th)
  PROVE  Kept
<1> DEFINE me == task[th]
<1>1. /\ Become(th, Purging(me, me.purge)) /\ UNCHANGED <<libvars, crops>>
      /\ frames' = frames \ {me.stream}
  BY DEF PurgeFrames
<1>2. /\ Carries(me, minted) /\ Removes(me) /\ me.purge \subseteq minted \ Live
  BY Serving DEF PurgeFrames, At, Sound
<1>3. Sound(Purging(me, me.purge), minted, Live, DOMAIN crops)
  BY <1>2, PurgingSound
<1>4. StoresTyped'
  BY <1>1 DEF ServiceInv, StoresTyped
<1>5. QED
  BY <1>1, <1>3, <1>4, LocalStep

(***************************************************************************)
(* Inference.                                                              *)
(***************************************************************************)

\* A run starts from the clusters it read.
LEMMA StartInferKeeps ==
  ASSUME ServiceInv, NEW th \in Threads, NEW o \in Owners, NEW s \in Streams,
         StartInfer(th, o, s)
  PROVE  Kept
<1> DEFINE tk == [Idle EXCEPT !.pc = "frame", !.op = "infer", !.owner = o, !.stream = s,
                              !.known = Snapshot(o)]
<1>1. DOMAIN Snapshot(o) \subseteq minted
  BY Serving DEF Snapshot
<1>2. Sound(tk, minted, Live, DOMAIN crops)
  BY <1>1 DEF Sound, Carries, Idle, Fields, Steps, InRun, Removals, Removes
<1>3. QED
  BY <1>2, LocalStep, StoresStay DEF StartInfer

\* An aborted run only has to answer.
LEMMA AbortInferKeeps ==
  ASSUME ServiceInv, NEW th \in Threads, AbortInfer(th)
  PROVE  Kept
<1> DEFINE me == task[th]
<1>1. me.pc = "frame" /\ Sound(me, minted, Live, DOMAIN crops)
  BY Serving DEF AbortInfer, At
<1>2. Sound([me EXCEPT !.pc = "aborted"], minted, Live, DOMAIN crops)
  BY <1>1 DEF Sound, Carries, Fields, Steps, InRun, Removals, Removes
<1>3. QED
  BY <1>2, LocalStep, StoresStay DEF AbortInfer

\* It answers and is idle.
LEMMA Answer499Keeps ==
  ASSUME ServiceInv, NEW th \in Threads, Answer499(th)
  PROVE  Kept
BY IdleSound, LocalStep, StoresStay DEF Answer499

\* The tick of a sampled frame is one a sample can have.
LEMMA TickIsSampled ==
  ASSUME NEW k \in Nat, k < FrameCount
  PROVE  k * Interval \in SampleTimes
<1>1. k \in 0 .. FrameCount - 1
  BY FrameAssumption
<1>2. QED
  BY <1>1, FrameAssumption

\* Taking a face down for a known cluster leaves the run sound.
LEMMA DetectedSound ==
  ASSUME NEW me, NEW M, NEW L, NEW D, NEW th, NEW c \in DOMAIN me.known,
         Sound(me, M, L, D), Detects(me), Detected(th, me, c)
  PROVE  \E tk : Become(th, tk) /\ Sound(tk, M, L, D)
<1> DEFINE tk(pc) == [me EXCEPT !.pc = pc, !.cluster = c, !.faces = @ + 1,
                                !.items = @ \cup {<<c, me.frame * Interval>>},
                                !.drift = @ \cup {c}]
<1>1. PICK pc \in {"frame", "put"} : Become(th, tk(pc))
  BY DEF Detected
<1>2. /\ me.pc = "frame" /\ me.op = "infer" /\ c \in M
      /\ me.frame * Interval \in SampleTimes
  BY TickIsSampled DEF Detects, Sound, Carries
<1>3. Carries(tk(pc), M)
  BY <1>2 DEF Sound, Carries, Fields
<1>4. /\ tk(pc).pc = pc /\ tk(pc).op = "infer" /\ tk(pc).cluster = c
      /\ tk(pc).owner = me.owner /\ tk(pc).stream = me.stream /\ tk(pc).purge = me.purge
  BY <1>2 DEF Sound, Carries, Fields
<1>5. /\ me.owner \in Owners /\ me.stream \in Streams /\ me.purge \subseteq M \ L
  BY <1>2 DEF Sound, InRun
<1>6. Sound(tk(pc), M, L, D)
  BY <1>2, <1>3, <1>4, <1>5 DEF Sound, InRun, Steps, Removals
<1>7. QED
  BY <1>1, <1>6

\* A face of a cluster the run knows: no table changes yet.
LEMMA FaceKnownKeeps ==
  ASSUME ServiceInv, NEW th \in Threads, FaceKnown(th)
  PROVE  Kept
<1>1. PICK c \in DOMAIN task[th].known : Detected(th, task[th], c)
  BY DEF FaceKnown
<1>2. PICK tk : Become(th, tk) /\ Sound(tk, minted, Live, DOMAIN crops)
  BY <1>1, Serving, DetectedSound DEF FaceKnown
<1>3. QED
  BY <1>2, LocalStep, StoresStay DEF FaceKnown

\* A fresh cluster has no pointer that could be wrong, and no handler has
\* heard of it.
LEMMA UpsertStep ==
  ASSUME ServiceInv, NEW o \in Owners, NEW v \in Centroids, NEW id \in ClusterIds,
         Upsert(o, v, id), UNCHANGED <<crops, frames>>, NEW th \in Threads, NEW tk,
         Become(th, tk), Sound(tk, minted', Live', DOMAIN crops)
  PROVE  Kept
<1>1. /\ id \notin minted /\ minted' = minted \cup {id} /\ Live' = Live \cup {id}
      /\ ~rows'[id].crop /\ \A c \in Live : rows'[c] = rows[c]
  BY UpsertEffect DEF ServiceInv
<1>2. Stable
  BY <1>1 DEF Stable
<1>3. TasksSound'
  BY <1>2, HandlerStep DEF ServiceInv
<1>4. CropPointerValid'
  BY <1>1 DEF ServiceInv, CropPointerValid
<1>5. LibraryNext
  BY DEF LibraryNext, UpsertAny
<1>6. QED
  BY <1>3, <1>4, <1>5, StoresStay DEF Kept

\* A face of nobody the run knows: the cluster is committed at once.
LEMMA FaceUnknownKeeps ==
  ASSUME ServiceInv, NEW th \in Threads, FaceUnknown(th)
  PROVE  Kept
<1> DEFINE me == task[th]
           met(id) == [me EXCEPT !.known = Add(@, id, Newborn)]
<1>1. PICK id \in ClusterIds, v \in Centroids :
        Upsert(me.owner, v, id) /\ Detected(th, met(id), id)
  BY DEF FaceUnknown
<1>2. /\ me.pc = "frame" /\ Detects(me) /\ UNCHANGED <<crops, frames>>
      /\ Sound(me, minted, Live, DOMAIN crops)
  BY Serving DEF FaceUnknown, Detects
<1>3. me.owner \in Owners
  BY <1>2 DEF Sound
<1>4. minted' = minted \cup {id} /\ Live' = Live \cup {id} /\ id \notin minted
  BY <1>1, UpsertEffect DEF ServiceInv
<1>5. Sound(me, minted', Live', DOMAIN crops)
  BY <1>2, <1>4, StaysSound
<1>6. /\ DOMAIN met(id).known = DOMAIN me.known \cup {id}
      /\ Detects(met(id)) /\ Sound(met(id), minted', Live', DOMAIN crops)
  BY <1>2, <1>4, <1>5 DEF Sound, Carries, Fields, InRun, Add, Detects, Removals, Removes
<1>7. PICK tk : Become(th, tk) /\ Sound(tk, minted', Live', DOMAIN crops)
  BY <1>1, <1>6, DetectedSound
<1>8. QED
  BY <1>1, <1>2, <1>3, <1>7, UpsertStep

\* On to the next frame, or to the append.
LEMMA NextFrameKeeps ==
  ASSUME ServiceInv, NEW th \in Threads, NextFrame(th)
  PROVE  Kept
<1> DEFINE me == task[th]
           done == [Idle EXCEPT !.pc = "append", !.op = "infer", !.owner = me.owner,
                                !.stream = me.stream, !.items = me.items, !.drift = me.drift]
           next == [me EXCEPT !.frame = @ + 1, !.faces = 0]
<1>1. Become(th, done) \/ Become(th, next)
  BY DEF NextFrame
<1>2. me.pc = "frame" /\ me.op = "infer" /\ Sound(me, minted, Live, DOMAIN crops)
  BY Serving DEF NextFrame, At, Sound
<1>3. Sound(done, minted, Live, DOMAIN crops)
  BY <1>2 DEF Sound, Carries, Fields, Idle, Nothing, InRun, Steps, Removals, Removes
<1>4. Sound(next, minted, Live, DOMAIN crops)
  BY <1>2 DEF Sound, Carries, Fields, InRun, Steps, Removals, Removes
<1>5. QED
  BY <1>1, <1>3, <1>4, LocalStep, StoresStay DEF NextFrame

(***************************************************************************)
(* Appending, moving centroids, storing a crop.                            *)
(***************************************************************************)

\* The append either writes all samples or fails on a cluster that is gone.
LEMMA AppendRunKeeps ==
  ASSUME ServiceInv, NEW th \in Threads, AppendRun(th)
  PROVE  Kept
<1> DEFINE me == task[th]
           next == IF me.drift = {} THEN Idle ELSE [me EXCEPT !.pc = "drift", !.items = {}]
<1>1. \/ AppendSamples(me.owner, me.stream, me.items) /\ Become(th, next)
      \/ Become(th, Idle) /\ UNCHANGED libvars
  BY DEF AppendRun
<1>2. UNCHANGED <<crops, frames>>
  BY DEF AppendRun
<1>3. me.pc = "append" /\ Sound(me, minted, Live, DOMAIN crops)
  BY Serving DEF AppendRun, At
<1>4. /\ me.owner \in Owners /\ me.stream \in Streams
      /\ me.items \in SUBSET (ClusterIds \X SampleTimes)
  BY <1>3, Serving DEF Sound, Carries
<1>5. CASE AppendSamples(me.owner, me.stream, me.items) /\ Become(th, next)
  <2>1. \A i \in me.items : Owned(i[1], me.owner)
    BY <1>5 DEF AppendSamples, ServiceInv, TasksOwn, Appends, Owned
  <2>2. Curates
    BY <1>5, AppendCurates DEF ServiceInv
  <2>3. LibraryNext
    BY <1>4, <1>5, <2>1 DEF LibraryNext, AppendAny
  <2>4. Live' = Live
    BY <1>4, <1>5, <2>1, AppendEffect DEF ServiceInv
  <2>5. Sound([me EXCEPT !.pc = "drift", !.items = {}], minted, Live, DOMAIN crops)
    BY <1>3 DEF Sound, Carries, Fields, InRun, Steps, Removals, Removes
  <2>6. Sound(next, minted, Live', DOMAIN crops)
    BY <2>4, <2>5, IdleSound
  <2>7. QED
    BY <1>2, <1>5, <2>2, <2>3, <2>6, CuratingStep, StoresStay
<1>6. CASE Become(th, Idle) /\ UNCHANGED libvars
  BY <1>2, <1>6, IdleSound, LocalStep, StoresStay
<1>7. QED
  BY <1>1, <1>5, <1>6

\* Moving one centroid, then the next, the crop or the answer.
LEMMA UpdateDriftKeeps ==
  ASSUME ServiceInv, NEW th \in Threads, UpdateDrift(th)
  PROVE  Kept
<1> DEFINE me == task[th]
<1>1. PICK c \in me.drift, v \in Centroids :
        /\ UpdateCentroid(c, me.owner, v)
        /\ \/ Become(th, [me EXCEPT !.drift = @ \ {c}])
           \/ Become(th, Idle)
           \/ me.op = "attach" /\ Become(th, [me EXCEPT !.pc = "put", !.drift = {}])
  BY DEF UpdateDrift
<1>2. UNCHANGED <<crops, frames>>
  BY DEF UpdateDrift
<1>3. me.pc = "drift" /\ Sound(me, minted, Live, DOMAIN crops)
  BY Serving DEF UpdateDrift, At
<1>4. me.owner \in Owners /\ c \in ClusterIds
  BY <1>3, Serving DEF Sound, Carries
<1>5. Curates /\ Live' = Live
  <2>1. Curates
    BY <1>1, CentroidCurates DEF ServiceInv
  <2>2. Live' = Live
    BY <1>1 DEF UpdateCentroid, Live
  <2>3. QED
    BY <2>1, <2>2
<1>6. LibraryNext
  BY <1>1, <1>4 DEF LibraryNext, CentroidAny
<1>7. Sound([me EXCEPT !.drift = @ \ {c}], minted, Live', DOMAIN crops)
  BY <1>3, <1>5 DEF Sound, Carries, Fields, InRun, Steps, Removals, Removes
<1>8. me.op = "attach" => Sound([me EXCEPT !.pc = "put", !.drift = {}], minted, Live', DOMAIN crops)
  BY <1>3, <1>5 DEF Sound, Carries, Fields, InRun, Steps, Removals, Removes
<1>9. QED
  BY <1>1, <1>2, <1>5, <1>6, <1>7, <1>8, IdleSound, CuratingStep, StoresStay

\* The object is stored under an id that was handed out, gone or not.
LEMMA PutCropKeeps ==
  ASSUME ServiceInv, NEW th \in Threads, PutCrop(th)
  PROVE  Kept
<1> DEFINE me == task[th]
           tk == [me EXCEPT !.pc = "set"]
           who == IF me.op = "recrop" THEN "user" ELSE "auto"
<1>1. /\ crops' = Add(crops, me.cluster, who) /\ Become(th, tk)
      /\ UNCHANGED <<libvars, frames>>
  BY DEF PutCrop
<1>2. me.pc = "put" /\ Sound(me, minted, Live, DOMAIN crops)
  BY Serving DEF PutCrop, At
<1>3. me.cluster \in minted /\ me.cluster \in ClusterIds
  BY <1>2, Serving DEF Sound
<1>4. /\ rows' = rows /\ minted' = minted /\ Live' = Live /\ UNCHANGED libvars
      /\ DOMAIN crops' = DOMAIN crops \cup {me.cluster}
      /\ \A k \in DOMAIN crops' : crops'[k] = IF k = me.cluster THEN who ELSE crops[k]
  BY <1>1 DEF libvars, Live, Add
<1>5. Stable
  BY <1>4 DEF Stable
<1>6. Sound(tk, minted', Live', DOMAIN crops')
  BY <1>2, <1>3, <1>4 DEF Sound, Carries, Fields, InRun, Steps, Removals, Removes
<1>7. TasksSound'
  BY <1>1, <1>5, <1>6, HandlerStep DEF ServiceInv
<1>8. StoresTyped'
  BY <1>1, <1>3, <1>4 DEF ServiceInv, StoresTyped
<1>9. CropPointerValid'
  BY <1>4 DEF ServiceInv, CropPointerValid
<1>10. QED
  BY <1>4, <1>7, <1>8, <1>9 DEF Kept

\* The pointer is set to an object that is still stored: nobody purges the crop of
\* a cluster that is there.
LEMMA SetCropPointerKeeps ==
  ASSUME ServiceInv, NEW th \in Threads, SetCropPointer(th)
  PROVE  Kept
<1> DEFINE me == task[th]
           back == [me EXCEPT !.pc = "frame", !.known[me.cluster].crop = TRUE]
           tk == IF me.op = "infer" THEN back ELSE Idle
<1>1. SetCrop(me.cluster, me.owner) /\ Become(th, tk) /\ UNCHANGED <<crops, frames>>
  BY DEF SetCropPointer
<1>2. me.pc = "set" /\ Sound(me, minted, Live, DOMAIN crops)
  BY Serving DEF SetCropPointer, At
<1>3. me.cluster \in ClusterIds /\ me.owner \in Owners
  BY <1>2, Serving DEF Sound
<1>4. /\ minted' = minted /\ Live' = Live
      /\ \A k \in Live : rows'[k].crop => rows[k].crop \/ k = me.cluster
  BY <1>1, SetCropEffect DEF ServiceInv
<1>5. Stable
  BY <1>1, <1>4 DEF Stable
<1>6. me.op = "infer" => Sound(back, minted, Live, DOMAIN crops)
  BY <1>2 DEF Sound, Carries, Fields, InRun, Steps, Removals, Removes
<1>7. TasksSound'
  BY <1>1, <1>4, <1>5, <1>6, IdleSound, HandlerStep DEF ServiceInv
<1>8. CropPointerValid'
  BY <1>1, <1>2, <1>4 DEF ServiceInv, CropPointerValid, Sound
<1>9. LibraryNext
  BY <1>1, <1>3 DEF LibraryNext, CropAny
<1>10. QED
  BY <1>1, <1>7, <1>8, <1>9, StoresStay DEF Kept

(***************************************************************************)
(* attach_frame_face and the routes that replace a crop.                   *)
(***************************************************************************)

\* attach_frame_face of a cluster that was found.
LEMMA StartAttachKeeps ==
  ASSUME ServiceInv, NEW th \in Threads, NEW c \in ClusterIds, NEW s \in Streams,
         NEW t \in SampleTimes, StartAttach(th, c, s, t)
  PROVE  Kept
<1> DEFINE tk == [Idle EXCEPT !.pc = "append", !.op = "attach", !.owner = rows[c].owner,
                              !.stream = s, !.cluster = c, !.known = Add(Nothing, c, Read(c)),
                              !.items = {<<c, t>>}, !.drift = {c}]
<1>1. c \in Live /\ Become(th, tk) /\ UNCHANGED <<libvars, crops, frames>>
  BY DEF StartAttach
<1>2. c \in minted /\ rows[c].owner \in Owners
  BY <1>1, Serving
<1>3. DOMAIN Add(Nothing, c, Read(c)) = {c}
  BY DEF Add, Nothing
<1>4. Sound(tk, minted, Live, DOMAIN crops)
  <2>1. /\ tk.pc = "append" /\ tk.op = "attach" /\ tk.owner = rows[c].owner
        /\ tk.stream = s /\ tk.cluster = c /\ tk.purge = {}
        /\ DOMAIN tk = Fields /\ tk.frame = 0 /\ DOMAIN tk.known = {c}
        /\ tk.items = {<<c, t>>} /\ tk.drift = {c}
    BY <1>3 DEF Idle, Fields
  <2>2. Carries(tk, minted)
    BY <1>2, <2>1 DEF Carries
  <2>3. QED
    BY <1>2, <2>1, <2>2 DEF Sound, InRun, Steps, Removals
<1>5. QED
  BY <1>1, <1>4, LocalStep, StoresStay

\* attach_frame_face that creates its cluster.
LEMMA StartAttachNewKeeps ==
  ASSUME ServiceInv, NEW th \in Threads, NEW o \in Owners, NEW s \in Streams,
         NEW t \in SampleTimes, StartAttachNew(th, o, s, t)
  PROVE  Kept
<1> DEFINE tk(id) == [Idle EXCEPT !.pc = "reread", !.op = "attach", !.owner = o, !.stream = s,
                                  !.cluster = id, !.items = {<<id, t>>}, !.drift = {id}]
<1>1. PICK id \in ClusterIds, v \in Centroids : Upsert(o, v, id) /\ Become(th, tk(id))
  BY DEF StartAttachNew
<1>2. UNCHANGED <<crops, frames>>
  BY DEF StartAttachNew
<1>3. id \in minted'
  BY <1>1, UpsertEffect DEF ServiceInv
<1>4. Sound(tk(id), minted', Live', DOMAIN crops)
  <2>1. /\ tk(id).pc = "reread" /\ tk(id).op = "attach" /\ tk(id).owner = o
        /\ tk(id).stream = s /\ tk(id).cluster = id /\ tk(id).purge = {}
        /\ DOMAIN tk(id) = Fields /\ tk(id).frame = 0 /\ DOMAIN tk(id).known = {}
        /\ tk(id).items = {<<id, t>>} /\ tk(id).drift = {id}
    BY DEF Idle, Fields, Nothing
  <2>2. Carries(tk(id), minted')
    BY <1>3, <2>1 DEF Carries
  <2>3. QED
    BY <1>3, <2>1, <2>2 DEF Sound, InRun, Steps, Removals
<1>5. QED
  BY <1>1, <1>2, <1>4, UpsertStep

\* The new cluster is read back, or is gone already.
LEMMA RereadKeeps ==
  ASSUME ServiceInv, NEW th \in Threads, Reread(th)
  PROVE  Kept
<1> DEFINE me == task[th]
           tk == [me EXCEPT !.pc = "append", !.known = Add(Nothing, me.cluster, Read(me.cluster))]
<1>1. \/ Become(th, Idle)
      \/ me.cluster \in Live /\ Become(th, tk)
  BY DEF Reread
<1>2. me.pc = "reread" /\ Sound(me, minted, Live, DOMAIN crops)
  BY Serving DEF Reread, At
<1>3. DOMAIN Add(Nothing, me.cluster, Read(me.cluster)) = {me.cluster}
  BY DEF Add, Nothing
<1>4. me.cluster \in Live => Sound(tk, minted, Live, DOMAIN crops)
  BY <1>2, <1>3, Serving DEF Sound, Carries, Fields, InRun, Steps, Removals, Removes
<1>5. QED
  BY <1>1, <1>4, IdleSound, LocalStep, StoresStay DEF Reread

\* A crop is replaced for a cluster that was found.
LEMMA StartRecropKeeps ==
  ASSUME ServiceInv, NEW th \in Threads, NEW c \in ClusterIds, StartRecrop(th, c)
  PROVE  Kept
<1> DEFINE tk == [Idle EXCEPT !.pc = "put", !.op = "recrop", !.owner = rows[c].owner,
                              !.cluster = c]
<1>1. c \in Live /\ Become(th, tk) /\ UNCHANGED <<libvars, crops, frames>>
  BY DEF StartRecrop
<1>2. c \in minted /\ rows[c].owner \in Owners
  BY <1>1, Serving
<1>3. Sound(tk, minted, Live, DOMAIN crops)
  BY <1>2 DEF Sound, Carries, Idle, Fields, Nothing, InRun, Steps, Removals, Removes
<1>4. QED
  BY <1>1, <1>3, LocalStep, StoresStay

(***************************************************************************)
(* The whole service.                                                      *)
(***************************************************************************)

\* Every request keeps everything.
LEMMA RequestKeeps ==
  ASSUME ServiceInv, NEW th \in Threads, Request(th)
  PROVE  Kept
BY StartSweepKeeps, StartDuplicatesKeeps, StartDeleteKeeps, StartInferKeeps,
   StartAttachNewKeeps, StartAttachKeeps, RenameFaceKeeps, DetachFaceKeeps, StartMergeKeeps,
   StartRecropKeeps, CascadeStreamKeeps DEF Request

\* So does every call of a request that is being served.
LEMMA WorkKeeps ==
  ASSUME ServiceInv, NEW th \in Threads, Work(th)
  PROVE  Kept
BY PurgeCropKeeps, DeleteNextKeeps, ReadMemberKeeps, MergeFacesKeeps, GroupDuplicatesKeeps,
   MergeGroupKeeps, PurgeFramesKeeps, FaceKnownKeeps, FaceUnknownKeeps, NextFrameKeeps,
   Answer499Keeps, AppendRunKeeps, UpdateDriftKeeps, PutCropKeeps, SetCropPointerKeeps,
   RereadKeeps DEF Work

\* And a request that ends in the middle.
LEMMA AbandonKeeps ==
  ASSUME ServiceInv, NEW th \in Threads, Abandon(th)
  PROVE  Kept
BY IdleSound, LocalStep, StoresStay DEF Abandon

\* And so does every step of the service.
LEMMA StepKeeps ==
  ASSUME ServiceInv, [Next]_vars
  PROVE  Kept
<1>1. CASE Next
  BY <1>1, RequestKeeps, WorkKeeps, PurgeFailsKeeps, AbortInferKeeps, AbandonKeeps DEF Next
<1>2. CASE UNCHANGED vars
  <2>1. /\ UNCHANGED <<libvars, crops, frames>> /\ Live' = Live
        /\ rows' = rows /\ task' = task /\ minted' = minted /\ crops' = crops
    BY <1>2 DEF vars, libvars, Live
  <2>2. TasksSound' /\ CropPointerValid'
    BY <2>1 DEF ServiceInv, TasksSound, CropPointerValid
  <2>3. QED
    BY <2>1, <2>2, StoresStay DEF Kept
<1>3. QED
  BY <1>1, <1>2

(***************************************************************************)
(* Whose clusters a request appends to.                                    *)
(***************************************************************************)

\* So only the handler that steps has to see to its own clusters.
LEMMA OwningStep ==
  ASSUME ServiceInv, Kept, NEW th \in Threads, NEW tk, Become(th, tk),
         \A c \in Appends(tk) \cap Live' : rows'[c].owner = tk.owner
  PROVE  TasksOwn'
<1> SUFFICES ASSUME NEW u \in Threads, NEW c \in Appends(task'[u]) \cap Live'
             PROVE  rows'[c].owner = task'[u].owner
  BY DEF TasksOwn
<1>1. CASE u = th
  BY <1>1 DEF Become, ServiceInv, TasksSound
<1>2. CASE u # th
  <2>1. task'[u] = task[u]
    BY <1>2 DEF Become, ServiceInv, TasksSound
  <2>2. c \in minted
    BY <2>1, Serving DEF Appends, Sound, Carries
  <2>3. c \in Live /\ rows'[c].owner = rows[c].owner
    BY <2>2, OwnersStay DEF ServiceInv, Kept
  <2>4. QED
    BY <2>1, <2>3 DEF ServiceInv, TasksOwn
<1>3. QED
  BY <1>1, <1>2

\* Going on with no more clusters than before, or with none
Fewer(tk, me) == \/ Appends(tk) = {}
                 \/ tk.owner = me.owner /\ Appends(tk) \subseteq Appends(me)

\* A handler that goes on with no more clusters owns them as before.
LEMMA FewerStep ==
  ASSUME ServiceInv, Kept, NEW th \in Threads, NEW tk, Become(th, tk), Fewer(tk, task[th])
  PROVE  TasksOwn'
<1> SUFFICES ASSUME NEW c \in Appends(tk) \cap Live'
             PROVE  rows'[c].owner = tk.owner
  BY OwningStep
<1>1. tk.owner = task[th].owner /\ c \in Appends(task[th])
  BY DEF Fewer
<1>2. c \in minted
  BY <1>1, Serving DEF Appends, Sound, Carries
<1>3. c \in Live /\ rows'[c].owner = rows[c].owner
  BY <1>2, OwnersStay DEF ServiceInv, Kept
<1>4. QED
  BY <1>1, <1>3 DEF ServiceInv, TasksOwn

\* A handler with nothing to do appends to nothing.
LEMMA IdleFewer == \A me : Fewer(Idle, me)
BY DEF Fewer, Appends, Idle, Nothing

\* A loop over clusters or groups, and a purge, append to nothing new.
LEMMA PurgingFewer ==
  ASSUME NEW tk, NEW M, Carries(tk, M), Removes(tk), NEW me, NEW C,
         tk.items = {} \/ (tk.items = me.items /\ tk.owner = me.owner)
  PROVE  Fewer(Purging(tk, C), me) /\ Fewer(Resume(tk), me)
<1>1. Fewer(Resume(tk), me)
  <2>1. CASE tk.todo = {}
    BY <2>1, IdleFewer DEF Resume
  <2>2. CASE tk.todo # {}
    <3>1. Resume(tk) = [tk EXCEPT !.pc = tk.op, !.purge = {}]
      BY <2>2 DEF Resume
    <3>2. ~InRun(Resume(tk))
      BY <3>1 DEF InRun, Removes, Removals, Carries, Fields
    <3>3. /\ Resume(tk).items = tk.items /\ Resume(tk).owner = tk.owner
      BY <3>1 DEF Carries, Fields
    <3>4. QED
      BY <3>2, <3>3 DEF Fewer, Appends
  <2>3. QED
    BY <2>1, <2>2
<1>2. CASE C = {}
  BY <1>1, <1>2 DEF Purging
<1>3. CASE C # {}
  <2>1. Purging(tk, C) = [tk EXCEPT !.pc = "purge", !.purge = C]
    BY <1>3 DEF Purging
  <2>2. ~InRun(Purging(tk, C))
    BY <2>1 DEF InRun, Removes, Removals, Carries, Fields
  <2>3. /\ Purging(tk, C).items = tk.items /\ Purging(tk, C).owner = tk.owner
    BY <2>1 DEF Carries, Fields
  <2>4. QED
    BY <1>1, <2>2, <2>3 DEF Fewer, Appends
<1>4. QED
  BY <1>1, <1>2, <1>3

\* A request with nothing to append goes on with none.
LEMMA StartsFewer ==
  ASSUME NEW me, NEW tk, tk.items = {}, ~InRun(tk)
  PROVE  Fewer(tk, me)
BY DEF Fewer, Appends

\* One that keeps what it is to append, and is not in a run, goes on with no more.
LEMMA NotRunning ==
  ASSUME NEW me, NEW tk, tk.items = me.items, tk.owner = me.owner, ~InRun(tk)
  PROVE  Fewer(tk, me)
BY DEF Fewer, Appends

\* So does one that was in its run before, with the same clusters.
LEMMA StillRunning ==
  ASSUME NEW me, NEW tk, tk.items = me.items, tk.owner = me.owner,
         tk.known = me.known, InRun(tk) => InRun(me)
  PROVE  Fewer(tk, me)
BY DEF Fewer, Appends

\* A request takes the owner of the clusters it finds, or its own.
LEMMA RequestOwns ==
  ASSUME ServiceInv, Kept, NEW th \in Threads, Request(th)
  PROVE  TasksOwn'
<1> DEFINE me == task[th]
<1>1. ASSUME NEW o \in Owners, StartSweep(th, o) \/ StartDuplicates(th, o)
      PROVE  TasksOwn'
  <2>1. CASE StartSweep(th, o)
    BY <2>1, StartsFewer, FewerStep DEF StartSweep, Idle, InRun
  <2>2. CASE StartDuplicates(th, o)
    BY <2>2, StartsFewer, FewerStep DEF StartDuplicates, Idle, InRun
  <2>3. QED
    BY <1>1, <2>1, <2>2
<1>2. ASSUME NEW o \in Owners, NEW C \in SUBSET ClusterIds, StartDelete(th, o, C)
      PROVE  TasksOwn'
  BY <1>2, StartsFewer, FewerStep DEF StartDelete, Idle, InRun
<1>3. ASSUME NEW o \in Owners, NEW s \in Streams, StartInfer(th, o, s)
      PROVE  TasksOwn'
  <2> DEFINE tk == [Idle EXCEPT !.pc = "frame", !.op = "infer", !.owner = o, !.stream = s,
                                !.known = Snapshot(o)]
  <2>1. Become(th, tk) /\ rows' = rows /\ Live' = Live
    BY <1>3 DEF StartInfer, libvars, Live
  <2>2. tk.items = {} /\ tk.owner = o /\ tk.known = Snapshot(o)
    BY DEF Idle
  <2>3. \A c \in Appends(tk) \cap Live' : rows'[c].owner = tk.owner
    <3> HIDE DEF tk
    <3>1. QED
      BY <2>1, <2>2 DEF Appends, Snapshot
  <2>4. QED
    BY <2>1, <2>3, OwningStep
<1>4. ASSUME NEW o \in Owners, NEW s \in Streams, NEW t \in SampleTimes,
             StartAttachNew(th, o, s, t)
      PROVE  TasksOwn'
  <2> DEFINE tk(id) == [Idle EXCEPT !.pc = "reread", !.op = "attach", !.owner = o,
                                    !.stream = s, !.cluster = id, !.items = {<<id, t>>},
                                    !.drift = {id}]
  <2>1. PICK id \in ClusterIds, v \in Centroids : Upsert(o, v, id) /\ Become(th, tk(id))
    BY <1>4 DEF StartAttachNew
  <2>2. tk(id).items = {<<id, t>>} /\ tk(id).owner = o /\ ~InRun(tk(id))
    BY DEF Idle, InRun
  <2>3. rows'[id].owner = o
    BY <2>1 DEF Upsert
  <2>4. \A c \in Appends(tk(id)) : c = id
    <3> HIDE DEF tk
    <3>1. QED
      BY <2>2 DEF Appends
  <2>5. QED
    BY <2>1, <2>2, <2>3, <2>4, OwningStep
<1>5. ASSUME NEW c \in ClusterIds, NEW s \in Streams, NEW t \in SampleTimes,
             StartAttach(th, c, s, t)
      PROVE  TasksOwn'
  <2> DEFINE tk == [Idle EXCEPT !.pc = "append", !.op = "attach", !.owner = rows[c].owner,
                                !.stream = s, !.cluster = c,
                                !.known = Add(Nothing, c, Read(c)),
                                !.items = {<<c, t>>}, !.drift = {c}]
  <2>1. Become(th, tk) /\ rows' = rows
    BY <1>5 DEF StartAttach, libvars
  <2>2. tk.items = {<<c, t>>} /\ tk.owner = rows[c].owner /\ ~InRun(tk)
    BY DEF Idle, InRun
  <2>3. \A k \in Appends(tk) : k = c
    <3> HIDE DEF tk
    <3>1. QED
      BY <2>2 DEF Appends
  <2>4. QED
    BY <2>1, <2>2, <2>3, OwningStep
<1>6. ASSUME NEW c \in ClusterIds, NEW n \in Names \cup {NoName}, RenameFace(th, c, n)
      PROVE  TasksOwn'
  <2> SUFFICES ASSUME NEW u \in Threads, NEW k \in Appends(task[u]) \cap Live'
               PROVE  rows'[k].owner = task[u].owner
    BY <1>6 DEF RenameFace, TasksOwn
  <2>1. k \in minted
    BY Serving DEF Appends, Sound, Carries
  <2>2. QED
    BY <2>1, OwnersStay DEF Kept, ServiceInv, TasksOwn
<1>7. ASSUME NEW c \in ClusterIds, NEW s \in Streams, DetachFace(th, c, s)
      PROVE  TasksOwn'
  <2> DEFINE tk == [Idle EXCEPT !.op = "detach", !.owner = rows[c].owner]
  <2>1. PICK C : Become(th, Purging(tk, C))
    BY <1>7 DEF DetachFace
  <2>2. Carries(tk, minted) /\ Removes(tk) /\ tk.items = {}
    BY DEF Carries, Removes, Idle, Fields, Nothing, Removals
  <2>3. QED
    BY <2>1, <2>2, PurgingFewer, FewerStep
<1>8. ASSUME NEW ids, StartMerge(th, ids)
      PROVE  TasksOwn'
  BY <1>8, StartsFewer, FewerStep DEF StartMerge, Idle, InRun
<1>9. ASSUME NEW c \in ClusterIds, StartRecrop(th, c)
      PROVE  TasksOwn'
  BY <1>9, StartsFewer, FewerStep DEF StartRecrop, Idle, InRun
<1>10. ASSUME NEW s \in Streams, CascadeStream(th, s)
      PROVE  TasksOwn'
  BY <1>10, StartsFewer, FewerStep DEF CascadeStream, Idle, InRun
<1>11. QED
  BY <1>1, <1>2, <1>3, <1>4, <1>5, <1>6, <1>7, <1>8, <1>9, <1>10 DEF Request

\* A handler that deletes or purges appends to nothing new.
LEMMA RemovingOwns ==
  ASSUME ServiceInv, Kept, NEW th \in Threads, NEW tk, NEW C,
         Carries(tk, minted), Removes(tk),
         tk.items = task[th].items, tk.owner = task[th].owner,
         Become(th, Purging(tk, C)) \/ Become(th, Resume(tk)) \/ Become(th, Idle)
  PROVE  TasksOwn'
BY PurgingFewer, IdleFewer, FewerStep

\* What a handler carries that is to delete or to purge
LEMMA Removing ==
  ASSUME ServiceInv, NEW th \in Threads,
         \/ PurgeCrop(th) \/ PurgeFails(th) \/ DeleteNext(th) \/ MergeFaces(th)
         \/ GroupDuplicates(th) \/ MergeGroup(th) \/ PurgeFrames(th)
  PROVE  Carries(task[th], minted) /\ Removes(task[th])
BY Serving DEF PurgeCrop, PurgeFails, DeleteNext, MergeFaces, GroupDuplicates, MergeGroup,
               PurgeFrames, At, Sound, Removals

\* Every call of a request goes on with the clusters it had, but for those
\* infer creates under its own owner.
LEMMA WorkOwns ==
  ASSUME ServiceInv, Kept, NEW th \in Threads,
         Work(th) \/ PurgeFails(th) \/ AbortInfer(th) \/ Abandon(th)
  PROVE  TasksOwn'
<1> DEFINE me == task[th]
<1>1. Sound(me, minted, Live, DOMAIN crops)
  BY Serving
<1>2. CASE PurgeCrop(th) \/ PurgeFails(th) \/ PurgeFrames(th)
  <2>1. \/ \E C : Become(th, Purging(me, C))
        \/ Become(th, Idle)
    BY <1>2 DEF PurgeCrop, PurgeFails, PurgeFrames
  <2>2. QED
    BY <1>2, <2>1, Removing, RemovingOwns
<1>3. CASE DeleteNext(th) \/ MergeGroup(th) \/ GroupDuplicates(th)
  <2>1. Carries(me, minted) /\ Removes(me)
    BY <1>3, Removing
  <2>2. PICK todo, C : LET tk == [me EXCEPT !.todo = todo]
                       IN /\ Become(th, Purging(tk, C)) \/ Become(th, Resume(tk))
                          /\ me.op \in {"detach", "cascade"} => todo = {}
    <3>1. CASE DeleteNext(th)
      BY <2>1, <3>1 DEF DeleteNext, Removes
    <3>2. CASE MergeGroup(th)
      BY <2>1, <3>2 DEF MergeGroup, Removes
    <3>3. CASE GroupDuplicates(th)
      BY <1>1, <3>3 DEF GroupDuplicates, At, Sound
    <3>4. QED
      BY <1>3, <3>1, <3>2, <3>3
  <2> DEFINE tk == [me EXCEPT !.todo = todo]
  <2>3. /\ Carries(tk, minted) /\ Removes(tk)
        /\ tk.items = me.items /\ tk.owner = me.owner
    BY <2>1, <2>2 DEF Carries, Removes, Fields
  <2>4. QED
    BY <2>2, <2>3, RemovingOwns
<1>4. CASE MergeFaces(th)
  <2> DEFINE tk == [me EXCEPT !.ids = <<>>, !.known = Nothing]
  <2>1. Carries(me, minted) /\ Removes(me)
    BY <1>4, Removing
  <2>2. \/ \E C : Become(th, Purging(tk, C))
        \/ Become(th, Idle)
    BY <1>4 DEF MergeFaces
  <2>3. /\ Carries(tk, minted) /\ Removes(tk)
        /\ tk.items = me.items /\ tk.owner = me.owner
    BY <2>1 DEF Carries, Removes, Fields, Nothing
  <2>4. QED
    BY <2>2, <2>3, RemovingOwns
<1>5. CASE ReadMember(th)
  <2>1. PICK known : \/ Become(th, Idle)
                     \/ Become(th, [me EXCEPT !.known = known])
                     \/ Become(th, [[me EXCEPT !.known = known] EXCEPT !.pc = "merge"])
    BY <1>5 DEF ReadMember
  <2>2. /\ DOMAIN me = Fields /\ me.op # "infer" /\ me.pc = "choose"
    BY <1>1, <1>5 DEF ReadMember, At, Sound, Carries, Removes, Removals
  <2>3. Fewer([me EXCEPT !.known = known], me)
    BY <2>2, NotRunning DEF Fields, InRun
  <2>4. Fewer([[me EXCEPT !.known = known] EXCEPT !.pc = "merge"], me)
    BY <2>2, NotRunning DEF Fields, InRun
  <2>5. QED
    BY <2>1, <2>3, <2>4, IdleFewer, FewerStep
<1>6. CASE Answer499(th) \/ Abandon(th)
  BY <1>6, IdleFewer, FewerStep DEF Answer499, Abandon
<1>7. CASE AbortInfer(th) \/ Reread(th) \/ PutCrop(th) \/ NextFrame(th) \/ UpdateDrift(th)
  <2>1. DOMAIN me = Fields
    BY <1>1 DEF Sound, Carries
  <2>2. CASE AbortInfer(th)
    <3>1. Fewer([me EXCEPT !.pc = "aborted"], me)
      BY <1>1, <2>1, <2>2, NotRunning DEF AbortInfer, At, Sound, Fields, InRun
    <3>2. QED
      BY <2>2, <3>1, FewerStep DEF AbortInfer
  <2>3. CASE Reread(th)
    <3> DEFINE known == Add(Nothing, me.cluster, Read(me.cluster))
    <3>1. Fewer([me EXCEPT !.pc = "append", !.known = known], me)
      <4> HIDE DEF known
      <4>1. QED
        BY <2>1, NotRunning DEF Fields, InRun
    <3>2. QED
      BY <2>3, <3>1, IdleFewer, FewerStep DEF Reread
  <2>4. CASE PutCrop(th)
    <3>1. Fewer([me EXCEPT !.pc = "set"], me)
      BY <2>1, <2>4, StillRunning DEF PutCrop, At, Fields, InRun
    <3>2. QED
      BY <2>4, <3>1, FewerStep DEF PutCrop
  <2>5. CASE NextFrame(th)
    <3> DEFINE done == [Idle EXCEPT !.pc = "append", !.op = "infer", !.owner = me.owner,
                               !.stream = me.stream, !.items = me.items, !.drift = me.drift]
               next == [me EXCEPT !.frame = @ + 1, !.faces = 0]
    <3>1. Fewer(done, me)
      BY NotRunning DEF Idle, InRun
    <3>2. Fewer(next, me)
      BY <2>1, StillRunning DEF Fields, InRun
    <3>3. Become(th, done) \/ Become(th, next)
      BY <2>5 DEF NextFrame
    <3>4. QED
      BY <3>1, <3>2, <3>3, FewerStep
  <2>6. CASE UpdateDrift(th)
    <3>1. PICK drift : \/ Become(th, [me EXCEPT !.drift = drift])
                       \/ Become(th, Idle)
                       \/ /\ me.op = "attach"
                          /\ Become(th, [me EXCEPT !.pc = "put", !.drift = {}])
      BY <2>6 DEF UpdateDrift
    <3>2. Fewer([me EXCEPT !.drift = drift], me)
      BY <2>1, StillRunning DEF Fields, InRun
    <3>3. me.op = "attach" => Fewer([me EXCEPT !.pc = "put", !.drift = {}], me)
      BY <2>1, NotRunning DEF Fields, InRun
    <3>4. QED
      BY <3>1, <3>2, <3>3, IdleFewer, FewerStep
  <2>7. QED
    BY <1>7, <2>2, <2>3, <2>4, <2>5, <2>6
<1>8. CASE AppendRun(th)
  <2> DEFINE tk == [me EXCEPT !.pc = "drift", !.items = {}]
  <2>1. Become(th, Idle) \/ Become(th, tk)
    BY <1>8 DEF AppendRun
  <2>2. tk.items = {} /\ ~InRun(tk)
    BY <1>1 DEF Sound, Carries, Fields, InRun
  <2>3. QED
    BY <2>1, <2>2, StartsFewer, IdleFewer, FewerStep
<1>9. CASE SetCropPointer(th)
  <2> DEFINE back == [me EXCEPT !.pc = "frame", !.known[me.cluster].crop = TRUE]
  <2>1. Become(th, Idle) \/ (me.op = "infer" /\ Become(th, back))
    BY <1>9 DEF SetCropPointer
  <2>2. me.pc = "set" /\ DOMAIN me = Fields
    BY <1>1, <1>9 DEF SetCropPointer, At, Sound, Carries
  <2>3. /\ back.items = me.items /\ back.owner = me.owner
        /\ DOMAIN back.known = DOMAIN me.known
    BY <2>2 DEF Fields
  <2>4. me.op = "infer" => Fewer(back, me)
    <3> HIDE DEF back
    <3>1. QED
      BY <2>2, <2>3 DEF Fewer, Appends, InRun
  <2>5. QED
    BY <2>1, <2>4, IdleFewer, FewerStep
<1>10. CASE FaceKnown(th)
  <2> DEFINE tk(pc, c) == [me EXCEPT !.pc = pc, !.cluster = c, !.faces = @ + 1,
                                !.items = @ \cup {<<c, me.frame * Interval>>},
                                !.drift = @ \cup {c}]
  <2>1. PICK c \in DOMAIN me.known : Detected(th, me, c)
    BY <1>10 DEF FaceKnown
  <2>2. PICK pc : Become(th, tk(pc, c))
    BY <2>1 DEF Detected
  <2>3. me.pc = "frame" /\ DOMAIN me = Fields
    BY <1>1, <1>10 DEF FaceKnown, Detects, Sound, Carries
  <2>4. /\ tk(pc, c).items = me.items \cup {<<c, me.frame * Interval>>}
        /\ tk(pc, c).owner = me.owner /\ tk(pc, c).known = me.known
    BY <2>3 DEF Fields
  <2>5. Fewer(tk(pc, c), me)
    <3> HIDE DEF tk
    <3>1. QED
      BY <2>3, <2>4 DEF Fewer, Appends, InRun
  <2>6. QED
    BY <2>2, <2>5, FewerStep
<1>11. CASE FaceUnknown(th)
  <2> DEFINE met(id) == [me EXCEPT !.known = Add(@, id, Newborn)]
             tk(pc, id) == [met(id) EXCEPT !.pc = pc, !.cluster = id, !.faces = @ + 1,
                                !.items = @ \cup {<<id, met(id).frame * Interval>>},
                                !.drift = @ \cup {id}]
  <2>1. PICK id \in ClusterIds, v \in Centroids :
          Upsert(me.owner, v, id) /\ Detected(th, met(id), id)
    BY <1>11 DEF FaceUnknown
  <2>2. PICK pc : Become(th, tk(pc, id))
    BY <2>1 DEF Detected
  <2>3. me.pc = "frame" /\ DOMAIN me = Fields
    BY <1>1, <1>11 DEF FaceUnknown, Detects, Sound, Carries
  <2>4. /\ tk(pc, id).items = me.items \cup {<<id, me.frame * Interval>>}
        /\ tk(pc, id).owner = me.owner /\ DOMAIN tk(pc, id).known = DOMAIN me.known \cup {id}
    BY <2>3 DEF Fields, Add
  <2>5. rows'[id].owner = me.owner
    BY <2>1 DEF Upsert
  <2>6. ASSUME NEW c \in Appends(tk(pc, id)) \cap Live' PROVE rows'[c].owner = me.owner
    <3>1. c = id \/ c \in Appends(me)
      <4> HIDE DEF tk
      <4>1. QED
        BY <2>3, <2>4, <2>6 DEF Appends, InRun
    <3>2. CASE c \in Appends(me)
      <4>1. c \in minted
        BY <1>1, <3>2 DEF Appends, Sound, Carries
      <4>2. c \in Live /\ rows'[c].owner = rows[c].owner
        BY <2>6, <4>1, OwnersStay DEF ServiceInv, Kept
      <4>3. QED
        BY <3>2, <4>2 DEF ServiceInv, TasksOwn
    <3>3. QED
      BY <2>5, <3>1, <3>2
  <2>7. QED
    BY <2>2, <2>4, <2>6, OwningStep
<1>12. QED
  BY <1>2, <1>3, <1>4, <1>5, <1>6, <1>7, <1>8, <1>9, <1>10, <1>11 DEF Work

\* So every handler keeps to clusters of the owner it appends for.
LEMMA StepOwns ==
  ASSUME ServiceInv, Kept, [Next]_vars
  PROVE  TasksOwn'
<1>1. CASE Next
  BY <1>1, RequestOwns, WorkOwns DEF Next
<1>2. CASE UNCHANGED vars
  BY <1>2 DEF vars, ServiceInv, TasksOwn, Live
<1>3. QED
  BY <1>1, <1>2

\* The invariant holds of the empty service.
LEMMA ServiceInvInit == Init => ServiceInv
<1> SUFFICES ASSUME Init PROVE ServiceInv
  OBVIOUS
<1>1. TypeInv
  BY TypeInit DEF Init
<1>2. StoresTyped
  BY DEF Init, StoresTyped, Nothing
<1>3. CropPointerValid
  BY DEF Init, CropPointerValid, LibraryInit, Live
<1>4. TasksSound
  BY IdleSound DEF Init, TasksSound
<1>5. TasksOwn
  BY DEF Init, TasksOwn, Appends, Idle, Nothing
<1>6. QED
  BY <1>1, <1>2, <1>3, <1>4, <1>5 DEF ServiceInv

\* It is inductive.
LEMMA ServiceInvStep == ServiceInv /\ [Next]_vars => ServiceInv'
<1> SUFFICES ASSUME ServiceInv, [Next]_vars PROVE ServiceInv'
  OBVIOUS
<1>1. Kept
  BY StepKeeps
<1>2. TypeInv'
  BY <1>1, TypeStep DEF Kept, ServiceInv
<1>3. TasksOwn'
  BY <1>1, StepOwns
<1>4. QED
  BY <1>1, <1>2, <1>3 DEF Kept, ServiceInv

\* It holds throughout.
LEMMA ServiceInvariant == Spec => []ServiceInv
BY ServiceInvInit, ServiceInvStep, PTL DEF Spec

\* The service implements the library: whatever its handlers do to the tables
\* is one of the transactions, with arguments the transactions expect.  So
\* all that is proved of the library holds of the service.
THEOREM ServiceImplementsLibrary == Spec => LibrarySpec
<1>1. Init => LibraryInit
  BY DEF Init
<1>2. ServiceInv /\ [Next]_vars => [LibraryNext]_libvars
  BY StepKeeps DEF Kept
<1>3. QED
  BY <1>1, <1>2, ServiceInvariant, PTL DEF Spec, LibrarySpec

\* Every object and every local variable stays in its domain.
THEOREM ServiceTyped == Spec => []ServiceTypeOK
<1>1. ServiceInv => ServiceTypeOK
  <2> SUFFICES ASSUME ServiceInv PROVE ServiceTypeOK
    OBVIOUS
  <2>1. TypeOK /\ minted \subseteq ClusterIds
    BY DEF ServiceInv, TypeInv, TypeOK
  <2>2. ASSUME NEW th \in Threads
        PROVE  /\ task[th].pc \in Steps
               /\ task[th].items \subseteq ClusterIds \X SampleTimes
               /\ task[th].drift \cup task[th].purge \subseteq ClusterIds
    BY <2>1, Serving DEF Sound, Carries
  <2>3. QED
    BY <2>1, <2>2 DEF ServiceInv, StoresTyped, ServiceTypeOK
<1>2. QED
  BY <1>1, ServiceInvariant, PTL

\* No row ever points at a crop that is not stored, however requests overlap
\* and wherever they stop.
THEOREM PointersStayValid == Spec => []CropPointerValid
<1>1. ServiceInv => CropPointerValid
  BY DEF ServiceInv
<1>2. QED
  BY <1>1, ServiceInvariant, PTL

\* A purge, however late, only deletes the crop of somebody who is gone.
THEOREM PurgesSpareTheLiving == Spec => PurgeOnlyGone
<1>1. ServiceInv /\ [Next]_vars => [\A c \in DOMAIN crops \ DOMAIN crops' : c \notin Live]_vars
  BY StepKeeps DEF Kept
<1>2. QED
  BY <1>1, ServiceInvariant, PTL DEF Spec, PurgeOnlyGone

=============================================================================
