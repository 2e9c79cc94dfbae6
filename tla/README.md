# A TLA+ model of faces-service

faces-service finds faces in sampled video frames, groups them into the people
of an owner, and lets the owner curate the result. These modules model what it
keeps in Postgres and MinIO, the requests that change it, the statements of its
transactions, the vectors that decide who is who, the per-process cache that the
frame assist reads, and what limits a process. TLC checks them on small
instances; TLAPS proves the properties of the database layer, of the handlers, of
the vectors, of the cache, of the connection slots and of the grouping for every value of
the constants.

## The system

| Part | State | Operations | Interacts with |
|---|---|---|---|
| People library, `app/db.py` | tables `clusters` (a person: owner, name, centroid, `sample_count`, `crop_object`) and `face_occurrences` (a face of a cluster in a stream at a second) | nine write transactions, each followed by `SUGGESTION_INDEX.bump` except `set_cluster_crop` | called by every route; `ON DELETE CASCADE` removes occurrences with their cluster |
| Object storage, `app/minio_client.py` | sampled frames per stream, one crop per cluster | get frame, put / delete crop, delete frames | a second store, without transactions across the two |
| Inference, `app/infer.py`, `POST /infer` | locals of a run: snapshot of the clusters, samples to append, moved centroids | per face: match or create a cluster, maybe store its crop; at the end one append and the centroids | runs for minutes on a worker thread; cancelled by a watcher on the event loop |
| Reader write routes, `app/routes/reader.py` | locals of a request | delete, delete-batch, delete-empty, rename, detach, merge, merge-duplicates, detect + attach, two ways to replace a crop | several database and storage calls each |
| Stream cascade, `app/routes/infer.py` | - | transaction, then frames, then crops; 500 when storage fails | retried by faces-worker |
| Suggestion index, `app/clustering.py` | epoch and entry per owner, per process | `bump`, `get` | bumped by write threads, read on the event loop by `/faces/detect` |
| Connection pool, `db.conn` | slots (semaphore) and the psycopg2 pool | acquire with timeout, getconn, putconn, release | around every transaction |
| Assist gate, `_INFER_SEMAPHORE` | two permits | taken by detect and attach on the event loop, by sample crops on worker threads | blocks the event loop |
| Matching, `app/clustering.py`, `app/infer.py` | centroids (running means) | `match_cluster`, `merge_centroid`, `best_match`, `frame_indices`, `_sample_frame_index` | decide what a run writes, and what the assist offers |
| Grouping, `app/clustering.py` | - | `build_similarity_groups`, `select_exact_duplicate_groups` | people list, merge-duplicates |
| Other reads, auth, config, metrics, health, face model | no state of their own that matters here | - | - |

Nothing locks a person or a stream across calls. A handler reads, calls
Postgres and MinIO several times, and uses what it read first until it ends; an
inference run does so for minutes. The correctness of the service therefore
rests on three things: what each transaction keeps true by itself, the order in
which a handler makes its calls, and what stale information can do in between.

What makes each part correct:

- library: `sample_count` is the number of occurrences, an occurrence belongs to
  a live cluster of its owner, names are unique per owner, samples are lost only
  where they are meant to be, a person does not end up empty;
- routes and inference: no pointer to a missing crop, no crop of a living person
  purged, no crop left over, names and chosen pictures survive, a stream whose
  cascade is answered has left nothing, nobody gets samples of another owner;
- matching: a centroid is a mean of embeddings whatever stale state a run writes
  back, two matchers agree, a sample shows its own face;
- grouping: groups are cliques with at most one name, nobody is left out for no
  reason;
- cache: an answer has every write that was answered before it was asked for
  (crops are an exception), and a bound on staleness where that fails;
- pool and gate: never more connections than the pool has, no slot lost, a
  waiting request gets its turn or its timeout.

## Modules

| Module | Models | Used by |
|---|---|---|
| `Library` | the tables and the write transactions of `db.py`, one atomic action each | `FacesService`, `ReadCommitted`, `Recognition`, `LibraryProofs` |
| `ReadCommitted` | the same transactions statement by statement, with row locks, key waits and deadlocks | `ReadCommittedProofs` |
| `FacesService` | the handlers, one step per database or storage call, on threads that interleave | `FacesProofs`, `AloneProofs` |
| `Recognition` | inference runs with vectors: matches, running means, frames and times, the assist's offer | `RecognitionProofs` |
| `SimilarityGroups` | what the routes rely on of the grouping | `FacesService`, `Grouping` |
| `Grouping` | the greedy loops of `build_similarity_groups` | `GroupingProofs` |
| `SuggestionIndex` | `SuggestionIndexCache`, one step per dictionary access, several processes | `SuggestionIndexProofs` |
| `ConnService` | the contract of `db.conn` | `Capacity` |
| `Capacity` | slots, pool and assist gate of one process | `CapacityProofs` |
| `LibraryProofs`, `ReadCommittedProofs`, `FacesProofs`, `AloneProofs`, `RecognitionProofs`, `SuggestionIndexProofs`, `CapacityProofs`, `GroupingProofs` | the theorems | |
| `MC...` | instances for TLC | the `.cfg` files |

The modules meet in `Library`. `FacesService` and `Recognition` extend it: a
step of theirs that writes the database *is* an action of `Library`, together
with the handler's own locals. `LibrarySpec` is the abstract specification of
the storage layer: run `overlap` checks, and `FacesProofs` proves, that `FacesService`
implements it (the variables `rows`, `occ` and `minted` are shared, so the refinement mapping is the
identity). That the statements of each transaction do, when no other transaction is
open, is `AloneIsLibrary`: run `pairs` checks it and `ReadCommittedProofs` proves it. `Grouping` implements the
choice `Groupings` and `GroupTargets` that `FacesService` makes, and `Capacity`
implements `ConnService` through `INSTANCE ... WITH`.

### Library

`rows` maps the ids in `clusters` to owner, name, `sample_count`, centroid and
whether `crop_object` is set; `occ` is the set of occurrences; `minted` holds
every uuid ever handed out, so that a deleted id does not come back. The unique
key `(stream_id, cluster_id, t_seconds)` is what `ON CONFLICT DO NOTHING` (`Fresh`)
and the nudging of a merge (`IsPlacement`) keep: `occ` is a set of records, and
no two of them differ in the owner alone as long as `OccurrencesOwned` holds.

- Data left out: embeddings, confidences, timestamps of rows. A name stands for
  one value of `lower(trim(name))`. `t_seconds` is counted in ticks of 1e-4 s,
  the step of the nudge, so a nudged sample lies on the next tick.
- `merge_clusters` reads the source rows without an `ORDER BY`. `IsPlacement`
  therefore describes where the loop can leave the samples in any order: at or
  after their own tick, on a tick of their own, past taken ticks only.
- `append_stream_occurrences` writes whatever clusters and owner it is given; only
  the foreign key looks at them. So does `AppendSamples`. That the clusters are the
  owner's is what the library expects of its callers, a guard of `AppendAny` alone;
  that the handlers keep to it is the point of `LibrarySpec` for `FacesService`.
- The schema (foreign key, unique keys) is not in this repository's source; it is
  modelled from the "Schema" section of the repository's README.
- A transaction is atomic here. Postgres runs them at READ COMMITTED, where the
  statements of two transactions interleave; that is `ReadCommitted`.

### ReadCommitted

`rows`, `occ` and `minted` are the committed tables; `txn[p]` is the transaction of
connection `p` and holds what it wrote and not yet committed. A statement sees
the tables as committed when it begins, and its own writes (`SeenOcc`,
`Version`). Locks are not variables: whom a statement waits for follows from what
the other open transactions wrote (`ForUpdate`, `ForDelete`, `ForShare`,
`ForOcc`, `ForKey`, `ForName`), after the row-lock table of Postgres and the
behaviour of its unique indexes. An `UPDATE ... SET sample_count = (SELECT
count(*) ...)` is two steps, the count (`Count`) and the write into the newest version of
the row (`CountRow`), because Postgres re-reads a row it had to wait for and
leaves the sub-select on the old snapshot. A cycle of waits ends by rolling back
one of its members (`DeadlockDetected`), and a violated key or foreign key by the
rollback of `conn()`.

Simplified: one transaction per connection; the lookups of a merge are one step
(`MergeInto`); `ReadTaken` may read the target's ticks of a stream before the
samples of other streams are moved; `Drop` waits for the row and for what the foreign
key takes along in one go; `upsert_cluster` is one step, since nobody can refer
to its row before it commits. The initial states are all consistent
contents of the tables, which is what transactions that ran one by one leave.

### FacesService

`task[th]` is the local state of a handler thread: the step it is at (`pc`), the
snapshot of the clusters it works with (`known`), the samples to append, the
centroids to write, the ids still to do, the crops still to purge. `crops` maps
the cluster ids with an object in MinIO to who stored it (a run or a user),
`frames` holds the streams whose sampled frames are stored. Neither an inference
nor an attach asks whether its stream exists, so both go on after the stream's
cascade, in the code and here. Whoever attaches may be an admin: the samples go
under the cluster's owner. A merge takes a sequence of up to `MaxSelected` ids in any
order, with repetitions (`MergeBody` allows 100).

| Route | Steps |
|---|---|
| `POST /infer` | `StartInfer` (snapshot), per face `FaceKnown` or `FaceUnknown` (commits a cluster), maybe `PutCrop` and `SetCropPointer`, `NextFrame`, then `AppendRun`, `UpdateDrift` per centroid; `AbortInfer` and `Answer499` when the caller is gone |
| `POST /streams/{id}/faces/attach` | `StartAttach`, or `StartAttachNew` and `Reread`; then `AppendRun`, `UpdateDrift`, maybe `PutCrop` and `SetCropPointer` |
| `PUT /faces/{id}/crop`, `.../crop/from-sample` | `StartRecrop`, `PutCrop`, `SetCropPointer` |
| `DELETE /faces/{id}`, `POST /faces/delete-batch` | `StartDelete`, `DeleteNext` per cluster, `PurgeCrop` |
| `POST /faces/delete-empty` | `StartSweep` (query), `DeleteNext`, `PurgeCrop` |
| `PATCH /faces/{id}` | `RenameFace` |
| `DELETE /streams/{id}/faces/{cid}` | `DetachFace`, `PurgeCrop` |
| `POST /faces/merge` | `StartMerge`, `ReadMember` per id, `MergeFaces`, `PurgeCrop` per source |
| `POST /faces/merge-duplicates` | `StartDuplicates`, `GroupDuplicates` (two reads), `MergeGroup` per group, `PurgeCrop` per source |
| `POST /streams/{id}/faces/delete` | `CascadeStream`, `PurgeFrames`, `PurgeCrop` per lost cluster |

The vectors decide which known cluster a face matches, which clusters are exact
duplicates, and where a mean moves; this model takes any of the possible
answers, and `Recognition` and `Grouping` say which.
A call that raises, or a worker process that dies, ends the request where it is
(`Abandon`); the reader routes log a failed purge and go on, the cascade answers
500 (`PurgeFails`). Nothing is kept in the process between requests, so a
restart is no more than that. A request whose first read already finds nothing
(404, 400, 503, 401, 403) changes nothing and is not a step.

### SuggestionIndex

The library is the number of writes committed, an index the number of writes its
builder saw. A write commits and then bumps, `set_cluster_crop` only commits
(`SetClusterCrop`), although the index carries `crop_object`. `announced` is the newest
write whose bump is complete, `finished` the newest write that is answered, whether or not it
bumped. `bump` is three steps (read the epoch, store it plus one, pop the
entry) because it is called from the thread pool without a lock; `get` is epoch,
lookup, build, store. `detect_faces` is an `async def` whose call of `get` has no
`await`, so a process has one reader at a time. The clock counts ticks; a `get`
takes at most `BuildTicks`.

### Recognition

An embedding is `<<x, y, 1>>`, a centroid `<<x, y, d>>` the point (x/d, y/d); a
similarity is compared exactly, by cross-multiplied squares, which needs
that no component is negative. `task[w].clusters` are the dictionaries a run
holds and changes as it goes (`cluster_map` holds the same objects), `drift` the means to
write, in the order of the Python dict, `embedding` the column of
`face_occurrences`. `video` fixes what each frame shows; `FrameIndices` is
`frame_indices(count, max_frames)`, and `SampleFrameIndex` computes
`round(t / interval - 0.5)` with Python's round-half-to-even on ticks.
Runs overlap with each other and with rename, delete and merge.
Two faces have the same direction only if they are the same (`DirectionAssumption`):
no cosine tells them apart. No face is the zero vector (`EmbeddingsAssumption`), thresholds are
between 0 and 1, and every sampled frame has a tick. The list of an owner's clusters is ordered by a
`CHOOSE` of its only sorted arrangement, and the loop of `match_cluster` is the recursive
function `BestSoFar`, so that both can be reasoned about.

Left out: crops and failures (`FacesService` has them), and attach, whose
samples have arbitrary times. `_render_sample_crop` detects at `assist_det_size` and
with `assist_min_face_ratio`, where the run took the full size and faces of any size, so
it may miss any of the faces: `Rendered(x, found)` is what it shows when it finds the faces
`found`, and `SampleShowsItsFace` is about every `found`. If the sample's own face is
missed, the answer is 404, or another face that reaches `SAMPLE_MATCH_FLOOR`. Nudges stay below half a sampling
interval, which is 24 999 nudges of one second in reality.

### Grouping

The two nested loops, a step per person visited and per candidate looked at. A
similarity is a number, not computed from vectors: any symmetric matrix is
possible, more than vectors could give. Python's sorts are stable on lists whose
order the routes choose, so ties are broken either way. The ordering of the
result is left out.

### Capacity

One program counter per client: worker threads of the anyio pool and `Loop`, the
event loop, which runs one async handler at a time and blocks in it. Inside
`conn()` every call is a step that may raise, with the release it does on that
path (`GetConnFails`, `RunQuery` to `put`, `ReleaseSlot`). `Busy` is the timeout: it can
pass only while no slot is free. The pool itself is `used`, the clients that have a connection.
`pool` says whether the pool exists: `init_db` failing at start-up is
logged, and then the first request creates it or fails before it takes a slot.

## What is checked

Passing runs:

| Run | Instance | Shows |
|---|---|---|
| `library` | 3 clusters, 2 owners, 2 streams, 1 name, samples at 2 adjacent ticks, states with more than 4 samples not extended | `SampleCountExact`, `OccurrencesOwned`, `NamesUnique`, `NeverEmptied`, `SamplesLeaveOnlyByRemoval`, `RemovalStaysInStream` for all transactions in any order |
| `alone` | 1 thread, all requests, 1 owner, 3 clusters, 2 names, 2 streams, 2 frames with up to 1 face, merges of up to 3, no failures | what a request promises when it runs alone: `NoOrphanCrop`, `NoEmptyPeople`, `CascadeComplete`, `MergeKeepsAName`, `DuplicatesKeepNames`, `UserCropKept` |
| `overlap` | 2 threads, every request but rename, 2 owners, 2 clusters, 1 stream, failures anywhere | `CropPointerValid`, `PurgeOnlyGone`, and that the service implements `LibrarySpec`: what it asks of the library is what that expects |
| `index` | 2 processes with a writer each, a reader in one of them, 3 writes, some without a bump, 5 ticks | `FreshAfterBump` for writes of the reader's process that bump, `BoundedStaleness` for all writes |
| `capacity` | 3 workers and the event loop, 2 slots, 2 permits, any call failing | `SlotsConserved`, `PoolNeverExhausted`, `ServiceKept`, `WaitEnds`, `LoopComesBack` |
| `pairs` | any 2 transactions, 2 clusters, 1 stream, 1 name, 1 tick, from every consistent state | `OccurrencesOwned`, `NamesUnique`, `AloneIsLibrary`, `TransactionsEnd` |
| `grouping` | 4 people, 3 similarities (below, at, above the threshold), 2 counts, named or not | `GroupsAsPromised`, `GroupsAreCliques`, `LeftoversNamed` |
| `recognition` | 2 runs, 3 embeddings, 3 frames of which 2 are sampled and show 2 and 1 faces, 3 clusters; rename, delete, merge meanwhile | `AssistAgrees`, `RepeatedFaceKnown`, `SampleShowsItsFace` whatever the renderer finds, and `RecognitionTypeOK`, in which every centroid is a mean of embeddings |

Each module also has its type invariant in one of them.

Why these bounds are enough. Three clusters are what a merge with two sources
that collide with the target and with each other needs; two adjacent ticks make
the nudge run over a taken tick; two owners make the owner filters matter; two
streams tell "loses its last sample" from "loses its samples here". Four samples
let a merge move several into a stream that has some. Requests that overlap work
on at most two clusters at once, one of which the other request deletes, merges
away or fills; one stream and one frame are enough for that, since all frames of
a run share one snapshot and one append. Two owners make an append under the wrong
one possible. `overlap` leaves out names: no step of
its properties reads one except the choice of a merge target, which is the first
member then. In `alone` three selected people and two names are every
pattern of named and unnamed ones before and after the one to keep; two faces in one
frame are in `recognition`. Ids, streams, owners and threads are interchangeable (symmetry sets);
no definition singles one out. `capacity` has one client more than slots and permits together could block with.
In `pairs` two transactions and two clusters give every cycle of waits two
transactions can form; a tick is taken or not, which is all a nudge and
a key wait can meet. In `grouping` four people are a chain of three with
someone else to join, or two cliques that compete for a member. The embeddings of
`recognition` are at cosines 0 and 0.71, the means a run forms bring in values
between the two thresholds; the constraint `ThreeFaces` keeps the videos in which two
different faces meet in one frame and one returns later, `FewSamples` ends a
branch after a merge could nudge.

Runs that show a promise of the docs broken (findings in `PROJECT.json`):

- `writers`: two writers of one process commit and both read epoch 0; one stores 1.
  A detect reads epoch 1 and builds its index. A third write commits, takes the
  epoch to 2 and is answered; the detect stores its index under epoch 1; the other
  writer's late store puts the epoch back to 1. The next detect takes that index
  as valid and misses the third write, which was answered before it began.
- `crop`: a detect builds the index and is answered; a crop is set and answered; the next
  detect finds the entry of the first, of the right epoch and not too old, and misses the crop.
  Since the key of a cluster's crop never changes, only a first crop can be missed:
  the overlay shows no picture of the person until another write or the TTL.
- `detach`: a person has a sample in stream 2 only. A detach from stream 2 deletes it
  and counts 0; an append to stream 1 commits; the detach writes 0 into the row,
  deletes the person, and the foreign key takes the sample of stream 1.
- `rerun`: one worker, one video. The first run makes a person of the first face
  and lets the second one, similar to it, replace its mean (`sample_count` is 0 in
  memory); the third moves it further. The second run over the same frames
  starts with that mean, no longer finds the first face in it, and makes a second person.

Traces the models have beyond these. The properties of `alone` are stated for
requests that run one after the other because they fail in other overlaps, or
with failures; give that instance two threads, or `Faults` of `"raise"` and
`"cancel"`, to see them:

- A run is cancelled after a frame that created a person: the person stays,
  without samples, although `infer.py:67` says "Nothing is written in that case"
  (`NoEmptyPeople`; the same when a run fails).
- delete-empty lists a person an inference has just created; the run appends its
  samples; delete-empty deletes the person with them, although `reader.py:192` says
  such clusters "are skipped".
- merge-duplicates reads the names, the owner names one of two duplicates, the merge
  deletes it as a source (`DuplicatesKeepNames`).
- A cascade commits, storage fails, the worker retries; the retry finds no cluster,
  purges no crop and answers 200 (`NoOrphanCrop`).
- An inference reads its frames, the stream's cascade is answered 200, the run
  appends its samples. Or, with one thread: the cascade is answered, and a page that is still open
  attaches a face at a second of the stream. Nobody asks whether the stream exists, and
  no further cascade comes. `CascadeComplete` is about the moment of the answer and says nothing of these.
- An inference that looked up a cluster before it was deleted stores a crop that
  nothing will ever purge (`NoOrphanCrop`); one that read "no crop" overwrites the
  picture the user uploaded meanwhile (`UserCropKept`).

In `ReadCommitted` likewise: the recounts of an append and of a merge, detach or
append overlap and leave a wrong `sample_count` (`SampleCountExact` fails when it is
added to `pairs`), and a sample appended to a merge's source between the read
and the delete is lost with the source.

Where the docs and the code disagree without an execution to show: `README.md:219`
describes similarity groups as union-find, the code builds cliques;
`README.md:230` says a centroid is persisted "only if a new sample was added",
the code writes every centroid a face touched, also when all its samples were
duplicates; `README.md:255` says a count beyond
`FACES_MAX_FRAMES` is rejected, `infer()` subsamples it; `reader.py:528` calls
pausing again on the same second "a no-op", but the centroid moves again.

Fairness. `FacesService`, `Recognition` and `SuggestionIndex` state none: their properties are
safety. Waiting for a connection slot is outside `FacesService`; that it ends with a slot or with
`DBBusyError`, which is `Abandon` there, is what `Capacity` shows. In `Capacity` the next step of a call that
was made (`Proceed`) is weakly fair per client: statements and embeddings end,
timeouts expire. A waiter has no fair turn at a slot: `WaitEnds` holds because
the timeout can pass at any moment no slot is free. `LoopComesBack` cannot be
had unconditionally, since the semaphore is not fair and worker threads
rendering sample crops may overtake the event loop for ever; it is stated for the case that the
workers stop asking. In `ReadCommitted` a statement that does not wait runs, and
Postgres detects deadlocks (weak fairness of `Work` per connection).
Deadlock checking is off except for `capacity`, since a service without requests,
or whose bounds are used up, may rest.

## What is proved

All theorems are about every value of the constants; the assumptions are the
named `ASSUME`s of the modules (`NoName` is not a name, ticks are naturals, ids and ticks are
finite sets; every sampled frame has a tick; threads have a process, no thread is writer and reader; there is a slot
and a permit, the loop is no worker; people are a finite set, similarities
integers). `ReadCommitted` also starts from finitely many occurrences. Some results
state a condition of their own, for which the sections below give the reason: one
bumping write at a time per process (`OneWriterFresh`), a positive TTL (`StalenessBounded`; the code's is
300 s), one handler thread (`AloneProofs`), and there for some of them no failures. `RecognitionProofs` has two more, given there.

`LibraryProofs`: `Typed`, `CountsExact`, `OccurrencesStayOwned`,
`NamesStayUnique`, `NeverEmptiedHolds`, `RemovalStaysInStreamHolds` and
`SamplesLeaveOnlyByRemovalHolds` establish the seven properties of run
`library`. Their inductive invariant is `LibraryInv`: types, finiteness of
`occ`, ownership, exact counts and unique names. None of these is inductive
alone: the recount of an append is restricted to the owner's clusters of the
stream, so exact counts need that occurrences belong to their cluster's owner;
detach deletes by owner, likewise; ownership needs that ids are never reused, so
that a fresh cluster cannot inherit occurrences. The action properties follow
from the invariant in the state before and after a step. The merge needs most
work: the placement `f` is injective per stream on the moved samples and avoids
the target's, so the number of samples of each stream is kept.

`FacesProofs`: `ServiceImplementsLibrary` (`Spec => LibrarySpec`, so everything proved of
the library holds of the service; for most steps this is by construction, since they are written with
actions of `Library`, but not for the append, whose guard in the library no handler
checks), `PointersStayValid`, `PurgesSpareTheLiving`
and `ServiceTyped`, for any number of overlapping requests with failures
anywhere. None of them is inductive: a pointer stays valid because no purge takes the
crop of a live cluster, and that in turn because of what a handler carries
between two calls. `ServiceInv` says it in `Sound`: the clusters on a handler's purge list
were handed out and are gone; a pointer about to be set, of a cluster that is
still there, has its object; whatever else is carried was handed out. `StaysSound` is the
argument for overlap: all of this survives any step of the other handlers as long as they
only add ids, revive none and delete no crop of a live cluster (`Stable`), which is
shown of each action. `TasksOwn` is the same for owners: the clusters a request may still append
samples to are, as far as they are still there, of the owner it appends for. They were when
it read or created them, an owner never changes, and ids never come back. An attach must therefore
pass on the cluster's owner and not its caller's id. So the handlers need no lock for these
properties, only that ids are never reused and that every one of them stores the object before the
pointer and deletes the row before the object.

`ReadCommittedProofs`: `RecordsTyped`, `OverlapKeepsOwnership` and
`OverlapKeepsNames`, for any number of open transactions whose statements interleave. No
transaction checks anything when it commits, so the committed tables alone are
not inductive: what an uncommitted transaction will write must already be fine.
`RCInv` says why it is. Rows that a transaction has written, deleted or referred
to are still there (`Secured`), because two transactions hold no conflicting
locks (`Apart`): the key share lock of an append's foreign key check keeps a delete out, and the
lock of a delete keeps new references out, so a cluster that is about to go has
no occurrences but those the transaction deletes. A transaction that has checked an owner remembers it although
the lock came later (`Remembers`), for which ids must never be reused. And names are
apart in every version, committed or not (`NamesApart`), which is what waiting on the
unique index is good for; the `SELECT` before the `UPDATE` is not needed for it. That the
counts stay exact is not provable: `SampleCountExact` fails (see above).

`AloneImplementsLibrary`, in the same module: a transaction during which no other is open
changes the tables as its transaction of `Library` does, or not at all. This is the step
from statements to transactions for every size of the tables: `Library` says
in one expression what `db.py` does with a loop over samples, an `UPDATE` per row, a
foreign key that cascades and a nudge per sample. The invariant `LoneInv` says of an open
transaction that has been alone how far it has come (`Progress`, one definition per
function): its deletions are the rows its `WHERE` names but for those
still to do (`TakesAway`), each recount it has written or is about to write is the count of
what it sees (`Tallied`), a cascade has removed exactly those clusters, of the ones it has
looked at, that keep no sample (`Emptied`), and the samples a merge has moved are a
placement of `Library` of just those samples (`Placed`), while `occ_cache` knows every tick
of the target (`TicksKnown`). Each statement carries `Progress` on (`WorkAdvances`),
each commit turns it into the action of `Library` (`CommitMeans`). Two
steps are less obvious. `PlacementGrows`: the tick that the `while` of `merge_clusters` stops
at is the first free one, given the samples moved before it. `CountDecides`: the recount a
detach or a cascade has just written is zero exactly when its own deletion took the
cluster's last sample, so `WHERE sample_count = 0` removes neither too much nor too little.
Rows that an `upsert_cluster` adds meanwhile change nothing of it (`ProgressStands`).

`AloneProofs`: the promises of run `alone`, for any number of clusters, streams,
frames and faces, in a service with a single handler thread, that is, for requests that
run one after the other; with two threads most of them are false. The theorems say
which failures each promise survives:

| Theorem | Property | Failures |
|---|---|---|
| `CascadesComplete` | `CascadeComplete` | any |
| `DuplicatesSpareNames` | `DuplicatesKeepNames` | any |
| `MergesKeepAName` | `MergeKeepsAName` | any |
| `NoCropOrphaned` | `NoOrphanCrop` | cancelled runs, but no call that raises |
| `UserCropsKept` | `UserCropKept` | cancelled runs, but no call that raises |
| `NobodyEmpty` | `NoEmptyPeople` | none |

The invariant `AloneInv` has a part for each row of that division. All say that
what a handler has read is still true, and what a request that is half done owes:
`NamesInv` that the names it read are right, that groups still to be merged have one name, and that
the stream of a cascade that is on its way has no samples and, once it purges crops, no frames; `CropsInv` that every crop
of nobody is on the purge list, that a stored crop has its pointer except between
`PutCrop` and `SetCropPointer`, and that a crop is stored only where there is none unless a
user asked for it; `PeopleInv` that whoever has no samples is about to get one from the items of the run.
`UserCropKept` needs that `known[c].crop` and the pointer agree, which needs
that nothing raises between storing an object and pointing at it.

`SuggestionIndexProofs`: `IndexTyped`, and `OneWriterFresh`: if no process ever
runs two bumping writes at once, `FreshAfterBump` holds for any number of processes,
readers and writes, without a lock and without the TTL. The invariant `FreshInv(p)`
says, per process, that whatever carries the current epoch (the entry, or an
index being stored) covers every write the process announced or is about to, and
that whatever carries the epoch of a reader in progress covers that reader's
floor. Crops set meanwhile do no harm to it, but get no promise from it either (run `crop`). The
assumption is exactly what run `writers` breaks. `StalenessBounded` is what remains
without it, for any epochs and for writes that never bump: `AgeInv` bounds from below what an index in the making, in
the cache and in an answer has seen, by the time it was begun, stored and asked for.

`RecognitionProofs`: all four properties of run `recognition`, and
`RecognitionIsLibrary` (`Spec => LibrarySpec`), for any number of threads, people,
frames and faces.

- `RecognitionIsLibrary` rests on `RunsOwn`: a run appends only to clusters that are its owner's
  if they are still there, as in `FacesProofs`.
- `CentroidsStayMeans`, by `RecInv`: the library's invariant, every centroid in the
  tables or in the locals of a run a mean (`Means`), and the face assigned last passing for
  somebody in the list (`PassedBy`). `MergedMean` shows that `merge_centroid` leads from means to
  means under any count, which is why the stale counts of overlapping runs do no more harm than
  to weigh a mean wrongly.
- `AssistAgreesHolds`: the loop of `match_cluster` is followed turn by turn
  (`IsMatch`, `TurnMatches`): after `i` clusters it holds the first of the nearest that pass. The
  nearest of all passes if anything does that is unnamed, since its threshold is no higher.
  Nearness is transitive because centroids are not the zero vector (`NotCloserChain`).
- `RepeatedFacesKnown`: a mean to which a face is added is at least as near to it as before
  (`SumNearer`, from `CauchySchwarz`), so who passed still does (`MergedSimilar`).
- `SamplesShowTheirFaces`, by `PictureInv`: every sample stands on a tick of the
  frame that shows its face, at the frame's time or with an unbroken row of ticks of its own person
  before it (`Unbroken`), and the samples of a frame and the people without one there are
  together no more than the people there ever were (`FewSamplesEach`). So a merge cannot push a sample as far as half an
  interval (`SlackBound`, `NoOverflow`: the first frame that overflows would have more
  samples than people), `round(t / interval - 0.5)` finds the frame (`FrameFound`), which shows the
  face, and whatever else the renderer finds in it, no other face is preferred, two equal
  ones being equal (`ItselfOnly`).

The theorems assume `Vectors \subseteq Centroids`: `Centroids` is the column type that
`Library` checks against and `Recognition` never reads, and the `.cfg` files set it to `Vectors`.
`SamplesShowTheirFaces` also assumes `FewPeople`: no more cluster ids than ticks in half an
interval, so that the nudges of a merge, fewer than the people it could have met, stay within it; the
instance has 3 of both, the service 25 000 ticks for an interval of five seconds.

`CapacityProofs`: `CapacityTyped`, `SlotsStayConserved`, `PoolHasRoom` and
`ConnServes`, the refinement of `ConnService`. The invariant `CapacityInv` ties both
semaphores to program counters: free slots and clients between acquire and
release add up to `MaxConn`, free permits and clients in `embed` to `Permits`,
and `used` is exactly the clients at `query` or `put`. That a client at `get` finds
room is then counting: `used` and that client are among those that hold a slot.

`GroupingProofs`: `GroupingTyped`, `GroupsKeepPromise`, `GroupsStayCliques` and
`LeftoversAreNamed`. The invariant says of the growing clique what is to hold
of the group (`CliqueSound`: at most one name, all pairs similar), and of who was
refused why: as long as the seed is alone, every free look-alike it has turned
down is named, as it is itself (`RefusedNamed`: the first candidate that is not refused for its
name fits), and a person the outer loop has left behind in no group is similar to
others without one only if both are named (`LeftNamed`). The last two are what
makes `LeftoversNamed` inductive: who is in a group stays there, so the free
look-alikes of a person only become fewer after its visit.

Only model-checked: `WaitEnds`, `LoopComesBack` and
`TransactionsEnd`. They are liveness under fairness, out of the prover's reach.

## Not modelled

- `auth.py`, configuration, metrics, health, deployment, the rest of start-up: no
  state that the properties depend on. Every modelled request is an authorised one.
- The face model: its result is any faces. `iou` and `face_is_large_enough` choose
  among its detections, which are open anyway.
- The reads that only select, sort and page: search, suggest, get, stream faces,
  the flat part of the people list. They change nothing; of the reads, the
  models have what `detect` offers, what a sample crop shows and the groups.
- `SuggestionIndexCache.clear`, which no request calls, and `close_db`, which runs at
  shutdown.
- A prefix deletion in MinIO that fails half way; the model's deletion of frames
  is one call.
- Attach in `Recognition`; negative similarities; floating-point rounding of means
  and of `t_seconds`.
- More than one transaction per connection in `ReadCommitted`: a third
  transaction that arrives at what two left inconsistent.

## Plan

Done: the core (`Library`, `FacesService`, `SuggestionIndex`), then capacity,
transactions at READ COMMITTED, grouping and recognition, and the proofs that the
service implements the library and that a transaction's statements do. Open:

1. The partition of `list_faces` into pages and groups against what its docstring says.
