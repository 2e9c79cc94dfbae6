---------------------------- MODULE ReadCommitted ----------------------------
(***************************************************************************)
(* The write transactions of app/db.py statement by statement, as Postgres *)
(* runs them at READ COMMITTED: a statement sees what was committed when   *)
(* it began and what its own transaction wrote; it waits for a row another *)
(* open transaction writes and then goes on with the row's newest version, *)
(* while its sub-selects keep the old snapshot.                            *)
(*                                                                         *)
(* rows, occ and minted are the committed tables; what a transaction wrote *)
(* is in its record until it commits.  Each connection runs one            *)
(* transaction, the bound of this model.                                   *)
(***************************************************************************)
EXTENDS Library

CONSTANT Conns

VARIABLE txn   \* connection |-> its transaction

vars == <<rows, occ, minted, txn>>

NoRows == [c \in {} |-> 0]

NoTxn == [op |-> "none", pc |-> "idle", owner |-> NoName, cluster |-> NoName,
          stream |-> NoName, value |-> NoName,
          ids   |-> {},      \* clusters, or <<cluster, tick>>, a loop has still to do
          cur   |-> NoName,  \* the cluster the loop is at
          todo  |-> {},      \* rows the current statement has still to write
          snap  |-> NoRows,  \* count(*) per cluster, as its statement saw it
          taken |-> NoRows,  \* merge: stream |-> ticks of the target (occ_cache)
          put   |-> NoRows,  \* cluster rows it updated (row lock NO KEY UPDATE)
          gone  |-> {},      \* cluster rows it deleted (row lock UPDATE)
          ins   |-> {},      \* occurrences it inserted, and
          share |-> {},      \*   the clusters these refer to (lock KEY SHARE)
          del   |-> {},      \* occurrences it deleted
          alone |-> TRUE]    \* history: no other transaction was open meanwhile

Open(p) == txn[p].pc \notin {"idle", "done"}

At(p, pc) == txn[p].pc = pc

Step(p, tx) == txn' = [txn EXCEPT ![p] = tx] /\ UNCHANGED libvars

\* The transaction ends and its locks are released
Ended(p) == [NoTxn EXCEPT !.op = txn[p].op, !.pc = "done"]

\* Mutant: the exception leaves the transaction open
RollbackForgotten(p) == Step(p, [txn[p] EXCEPT !.pc = "raised"])

\* conn(): an exception rolls back and is raised on
Rollback(p) == Step(p, Ended(p))

(***************************************************************************)
(* What a statement sees, and whom it waits for.                           *)
(***************************************************************************)

Shows(p, c) == c \in Live \ txn[p].gone

\* The newest version of a row that p may write
Version(p, c) == IF c \in DOMAIN txn[p].put THEN txn[p].put[c] ELSE rows[c]

SeenOcc(p) == (occ \ txn[p].del) \cup txn[p].ins

Others(p) == {q \in Conns \ {p} : Open(q)}

Writes(q, c) == c \in DOMAIN txn[q].put \cup txn[q].gone

ForUpdate(p, c) == {q \in Others(p) : Writes(q, c)}

ForDelete(p, c) == {q \in Others(p) : \/ Writes(q, c) \/ c \in txn[q].share
                                      \/ OccOf(occ, c) \cap txn[q].del # {}}

\* The foreign key's check of an INSERT (lock KEY SHARE)
ForShare(p, c) == {q \in Others(p) : c \in txn[q].gone}

ForOcc(p, x) == {q \in Others(p) : x \in txn[q].del}

SameKey(x, y) == x.stream = y.stream /\ x.cluster = y.cluster /\ x.t = y.t

\* unique (stream_id, cluster_id, t_seconds)
ForKey(p, x) == {q \in Others(p) : \E y \in txn[q].ins \cup txn[q].del : SameKey(x, y)}

\* unique (owner_id, lower(name))
ForName(p, o, n) ==
  {q \in Others(p) : n # NoName /\
     \/ \E k \in DOMAIN txn[q].put : txn[q].put[k].owner = o /\ txn[q].put[k].name = n
     \/ \E k \in Live : Writes(q, k) /\ rows[k].owner = o /\ rows[k].name = n}

(***************************************************************************)
(* Statements several transactions share.                                  *)
(***************************************************************************)

AfterUnlink(op) == CASE op = "detach" -> "count" [] op = "cascade" -> "loop" [] OTHER -> "drop"

AfterCount(op) == IF op \in {"detach", "cascade"} THEN "drop" ELSE "commit"

AfterDrop(op) == IF op \in {"merge", "cascade"} THEN "loop" ELSE "commit"

\* Occurrences the WHERE of the transaction's DELETE names
Unlinked(me) ==
  CASE me.op = "detach"  -> {x \in occ : /\ x.cluster = me.cluster /\ x.stream = me.stream
                                         /\ x.owner = me.owner}
    [] me.op = "cascade" -> OccIn(occ, me.stream)
    [] OTHER             -> OccOf(occ, me.cur)

\* DELETE FROM face_occurrences: the rows it sees ...
Unlink(p) ==
  /\ At(p, "unlink")
  /\ Step(p, [txn[p] EXCEPT !.todo = Unlinked(txn[p]) \ txn[p].del, !.pc = "unlinking"])

\* ... one after the other; one that another transaction deletes is waited for
UnlinkRow(p) ==
  LET me == txn[p] IN
  /\ At(p, "unlinking")
  /\ \/ \E x \in me.todo :
          /\ ForOcc(p, x) = {}
          /\ Step(p, [me EXCEPT !.todo = @ \ {x}, !.del = @ \cup ({x} \cap occ)])
     \/ me.todo = {} /\ Step(p, [me EXCEPT !.pc = AfterUnlink(me.op)])

\* Clusters the WHERE of the transaction's recount names
Recounted(p) ==
  LET me == txn[p] IN
  CASE me.op = "append" -> {c \in Live : /\ rows[c].owner = me.owner
                                         /\ OccIn(OccOf(SeenOcc(p), c), me.stream) # {}}
    [] OTHER            -> {me.cur} \cap Live

\* UPDATE clusters SET sample_count = (SELECT count(*) ...): what it counts is
\* what was committed when it began ...
Count(p) ==
  LET T == Recounted(p) IN
  /\ At(p, "count")
  /\ Step(p, [txn[p] EXCEPT !.pc = "counting", !.todo = T,
                            !.snap = [c \in T |-> Cardinality(OccOf(SeenOcc(p), c))]])

\* ... and is written into the newest version of the row
CountRow(p) ==
  LET me == txn[p] IN
  /\ At(p, "counting")
  /\ \/ \E c \in me.todo :
          /\ ForUpdate(p, c) = {}
          /\ Step(p, [me EXCEPT !.todo = @ \ {c},
                 !.put = [k \in DOMAIN @ \cup ({c} \cap Live) |->
                            IF k = c THEN [Version(p, c) EXCEPT !.samples = me.snap[c]]
                                     ELSE @[k]]])
     \/ me.todo = {} /\ Step(p, [me EXCEPT !.pc = AfterCount(me.op), !.snap = NoRows])

\* Whether the WHERE of the transaction's DELETE FROM clusters holds
Drops(p) ==
  LET me == txn[p] IN
  /\ Shows(p, me.cur)
  /\ me.op \in {"detach", "cascade"} => Version(p, me.cur).samples = 0

\* DELETE FROM clusters; the foreign key's ON DELETE CASCADE takes every
\* occurrence that is committed by now
Drop(p) ==
  LET me == txn[p]
      c  == me.cur
  IN /\ At(p, "drop")
     /\ \/ /\ Drops(p)
           /\ ForDelete(p, c) = {}
           /\ Step(p, [me EXCEPT !.pc = AfterDrop(me.op), !.gone = @ \cup {c},
                                 !.put = [k \in DOMAIN @ \ {c} |-> @[k]],
                                 !.del = @ \cup OccOf(occ, c)])
        \/ /\ ~Drops(p)
           /\ Step(p, [me EXCEPT !.pc = AfterDrop(me.op)])

Commit(p) ==
  LET me == txn[p] IN
  /\ At(p, "commit")
  /\ rows' = [c \in Live \ me.gone |-> Version(p, c)]
  /\ occ' = SeenOcc(p)
  /\ txn' = [txn EXCEPT ![p] = Ended(p)]
  /\ UNCHANGED minted

(***************************************************************************)
(* The transactions.  Each begins with its first SELECT.                   *)
(***************************************************************************)

Begin(p, tx) ==
  /\ At(p, "idle")
  /\ txn' = [q \in Conns |-> IF q = p THEN [tx EXCEPT !.alone = Others(p) = {}]
                             ELSE IF Open(q) THEN [txn[q] EXCEPT !.alone = FALSE]
                             ELSE txn[q]]
  /\ UNCHANGED libvars

\* append_stream_occurrences, called with clusters of the owner
Append(p, o, s, items) ==
  /\ \A i \in items : Owned(i[1], o)
  /\ Begin(p, [NoTxn EXCEPT !.op = "append", !.pc = "insert", !.owner = o, !.stream = s,
                            !.ids = items])

Occurrence(s, c, t, o) == [stream |-> s, cluster |-> c, t |-> t, owner |-> o]

\* Mutant: without the foreign key
InsertUnreferenced(p) ==
  LET me == txn[p] IN
  /\ At(p, "insert")
  /\ \/ \E i \in me.ids :
          LET x == Occurrence(me.stream, i[1], i[2], me.owner) IN
          /\ ForKey(p, x) = {}
          /\ Step(p, [me EXCEPT !.ids = @ \ {i}, !.ins = @ \cup {x}])
     \/ me.ids = {} /\ Step(p, [me EXCEPT !.pc = "count"])

\* INSERT ... ON CONFLICT DO NOTHING, for each item
Insert(p) ==
  LET me == txn[p] IN
  /\ At(p, "insert")
  /\ \/ \E i \in me.ids :
          LET x == Occurrence(me.stream, i[1], i[2], me.owner) IN
          /\ ForKey(p, x) = {}
          /\ \/ /\ \E y \in occ : SameKey(x, y)
                /\ Step(p, [me EXCEPT !.ids = @ \ {i}])
             \/ /\ ~\E y \in occ : SameKey(x, y)
                /\ ForShare(p, i[1]) = {}
                /\ \/ /\ i[1] \in Live
                      /\ Step(p, [me EXCEPT !.ids = @ \ {i}, !.ins = @ \cup {x},
                                            !.share = @ \cup {i[1]}])
                   \/ i[1] \notin Live /\ Rollback(p)
     \/ me.ids = {} /\ Step(p, [me EXCEPT !.pc = "count"])

\* delete_cluster
DeleteCluster(p, c, o) ==
  /\ Owned(c, o)
  /\ Begin(p, [NoTxn EXCEPT !.op = "delete", !.pc = "unlink", !.owner = o, !.cur = c])

\* detach_cluster_from_stream
DetachCluster(p, c, s, o) ==
  /\ Owned(c, o)
  /\ Begin(p, [NoTxn EXCEPT !.op = "detach", !.pc = "unlink", !.owner = o, !.cluster = c,
                            !.stream = s, !.cur = c])

\* cascade_stream: the clusters are read before the samples are deleted
CascadeOf(p, s) ==
  Begin(p, [NoTxn EXCEPT !.op = "cascade", !.pc = "unlink", !.stream = s,
                         !.ids = {x.cluster : x \in OccIn(occ, s)}])

CascadeLoop(p) ==
  LET me == txn[p] IN
  /\ At(p, "loop") /\ me.op = "cascade"
  /\ \/ \E c \in me.ids : Step(p, [me EXCEPT !.ids = @ \ {c}, !.cur = c, !.pc = "count"])
     \/ me.ids = {} /\ Step(p, [me EXCEPT !.pc = "commit"])

\* rename_cluster; without a name nothing is to be checked
RenameTo(p, c, o, n) ==
  /\ Owned(c, o)
  /\ Begin(p, [NoTxn EXCEPT !.op = "rename", !.pc = "check", !.owner = o, !.cluster = c,
                            !.value = n])

\* Another cluster has the name already: "conflict", nothing was written
CheckName(p) ==
  LET me == txn[p] IN
  /\ At(p, "check")
  /\ Step(p, [me EXCEPT !.pc = IF NameTaken(me.cluster, me.owner, me.value)
                               THEN "commit" ELSE "name"])

\* Mutant: no unique index stands behind the check
SetNameUnindexed(p) ==
  LET me == txn[p] IN
  /\ At(p, "name")
  /\ ForUpdate(p, me.cluster) = {}
  /\ Step(p, [me EXCEPT !.pc = "commit",
                        !.put = [k \in {me.cluster} \cap Live |->
                                   [rows[k] EXCEPT !.name = me.value]]])

\* The UPDATE of rename_cluster; the unique index raises on a name that was
\* committed after the check
SetName(p) ==
  LET me == txn[p] IN
  /\ At(p, "name")
  /\ ForUpdate(p, me.cluster) \cup ForName(p, me.owner, me.value) = {}
  /\ \/ /\ me.cluster \in Live /\ NameTaken(me.cluster, me.owner, me.value)
        /\ Rollback(p)
     \/ /\ ~(me.cluster \in Live /\ NameTaken(me.cluster, me.owner, me.value))
        /\ Step(p, [me EXCEPT !.pc = "commit",
                              !.put = [k \in {me.cluster} \cap Live |->
                                         [rows[k] EXCEPT !.name = me.value]]])

\* merge_clusters: target and sources are looked up before anything is written
MergeInto(p, o, target, sources) ==
  /\ \A c \in sources \cup {target} : Owned(c, o)
  /\ target \notin sources
  /\ Begin(p, [NoTxn EXCEPT !.op = "merge", !.pc = "loop", !.owner = o, !.cluster = target,
                            !.ids = sources])

\* The next source and its samples, or the recount of the target
MergeLoop(p) ==
  LET me == txn[p] IN
  /\ At(p, "loop") /\ me.op = "merge"
  /\ \/ \E c \in me.ids :
          Step(p, [me EXCEPT !.ids = @ \ {c}, !.cur = c, !.pc = "move",
                             !.todo = OccOf(SeenOcc(p), c)])
     \/ me.ids = {} /\ Step(p, [me EXCEPT !.cur = me.cluster, !.pc = "count"])

\* occupied(stream_id), kept in occ_cache
ReadTaken(p) ==
  LET me == txn[p] IN
  /\ At(p, "move")
  /\ \E s \in {x.stream : x \in me.todo} \ DOMAIN me.taken :
       Step(p, [me EXCEPT !.taken =
                  [r \in DOMAIN @ \cup {s} |->
                     IF r = s THEN {x.t : x \in OccIn(OccOf(SeenOcc(p), me.cluster), s)}
                              ELSE @[r]]])

\* while t in occ_cache[stream_id]: t += 1e-4
Nudged(t, taken) ==
  CHOOSE u \in t .. t + Cardinality(taken) : u \notin taken /\ \A v \in t .. u - 1 : v \in taken

\* Mutant: a sample is inserted at its own tick
MoveWithoutNudge(p) ==
  LET me == txn[p] IN
  /\ At(p, "move")
  /\ \/ \E x \in me.todo :
          LET y == Occurrence(x.stream, me.cluster, x.t, me.owner) IN
          /\ x.stream \in DOMAIN me.taken
          /\ ForKey(p, y) \cup ForShare(p, me.cluster) = {}
          /\ \/ /\ me.cluster \in Live
                /\ Step(p, [me EXCEPT !.todo = @ \ {x}, !.ins = @ \cup {y},
                                      !.share = @ \cup {me.cluster}])
             \/ me.cluster \notin Live /\ Rollback(p)
     \/ me.todo = {} /\ Step(p, [me EXCEPT !.pc = "unlink"])

\* INSERT of one sample at the target; the key or the target may be gone from
\* under it
Move(p) ==
  LET me == txn[p] IN
  /\ At(p, "move")
  /\ \/ \E x \in me.todo :
          /\ x.stream \in DOMAIN me.taken
          /\ LET t == Nudged(x.t, me.taken[x.stream])
                 y == Occurrence(x.stream, me.cluster, t, me.owner)
                 fails == \/ me.cluster \notin Live
                          \/ \E z \in occ \ me.del : SameKey(y, z)
             IN /\ ForKey(p, y) \cup ForShare(p, me.cluster) = {}
                /\ \/ /\ ~fails
                      /\ Step(p, [me EXCEPT !.todo = @ \ {x}, !.ins = @ \cup {y},
                                            !.share = @ \cup {me.cluster},
                                            !.taken[x.stream] = @ \cup {t}])
                   \/ fails /\ Rollback(p)
     \/ me.todo = {} /\ Step(p, [me EXCEPT !.pc = "unlink"])

\* upsert_cluster: nobody can wait for, or refer to, a row before it is
\* committed, so its one INSERT and the commit are one step
InsertCluster(p, o, v, id) ==
  /\ At(p, "idle")
  /\ Upsert(o, v, id)
  /\ txn' = [txn EXCEPT ![p] = [NoTxn EXCEPT !.op = "upsert", !.pc = "done"]]

\* update_cluster_centroid and set_cluster_crop: one UPDATE WHERE id AND
\* owner_id
CentroidOf(p, c, o, v) ==
  Begin(p, [NoTxn EXCEPT !.op = "centroid", !.pc = "update", !.owner = o, !.cluster = c,
                         !.value = v])

CropOf(p, c, o) ==
  Begin(p, [NoTxn EXCEPT !.op = "crop", !.pc = "update", !.owner = o, !.cluster = c])

Updated(me, row) == IF me.op = "crop" THEN [row EXCEPT !.crop = TRUE]
                                      ELSE [row EXCEPT !.centroid = me.value]

Update(p) ==
  LET me == txn[p] IN
  /\ At(p, "update")
  /\ ForUpdate(p, me.cluster) = {}
  /\ Step(p, [me EXCEPT !.pc = "commit",
                        !.put = [k \in {c \in {me.cluster} : Owned(c, me.owner)} |->
                                   Updated(me, rows[k])]])

(***************************************************************************)
(* Deadlocks: Postgres rolls back one of the transactions in a cycle.      *)
(***************************************************************************)

\* Whom p waits for, one set for each way its statement could go on
Waits(p) ==
  LET me == txn[p] IN
  CASE me.pc = "update"    -> {ForUpdate(p, me.cluster)}
    [] me.pc = "unlinking" -> {ForOcc(p, x) : x \in me.todo}
    [] me.pc = "counting"  -> {ForUpdate(p, c) : c \in me.todo}
    [] me.pc = "drop"      -> IF Drops(p) THEN {ForDelete(p, me.cur)} ELSE {}
    [] me.pc = "name"      -> {ForUpdate(p, me.cluster) \cup ForName(p, me.owner, me.value)}
    [] me.pc = "insert"    -> {ForKey(p, Occurrence(me.stream, i[1], i[2], me.owner))
                                 \cup ForShare(p, i[1]) : i \in me.ids}
    [] me.pc = "move"      ->
         {ForShare(p, me.cluster) \cup
          ForKey(p, Occurrence(x.stream, me.cluster, Nudged(x.t, me.taken[x.stream]), me.owner)) :
            x \in {y \in me.todo : y.stream \in DOMAIN me.taken}}
    [] OTHER -> {}

Deadlocked(C) == \A p \in C : Waits(p) # {} /\ \A W \in Waits(p) : W \cap C # {}

DeadlockDetected(p) ==
  /\ \E C \in SUBSET Conns : p \in C /\ Deadlocked(C)
  /\ Rollback(p)

(***************************************************************************)

\* Where a database can be when transactions ran one by one: exact counts,
\* owned occurrences, unique names
Init ==
  /\ minted \in SUBSET ClusterIds
  /\ rows \in [minted -> [owner : Owners, name : Names \cup {NoName},
                          samples : 0 .. Cardinality(Streams) * Cardinality(SampleTimes),
                          centroid : Centroids, crop : {FALSE}]]
  /\ occ \in SUBSET [stream : Streams, cluster : minted, t : SampleTimes, owner : Owners]
  /\ IsFiniteSet(occ)
  /\ SampleCountExact /\ OccurrencesOwned /\ NamesUnique
  /\ txn = [p \in Conns |-> NoTxn]

Arrive(p) ==
  \/ \E o \in Owners, s \in Streams, items \in SUBSET (ClusterIds \X SampleTimes) :
       items # {} /\ Append(p, o, s, items)
  \/ \E o \in Owners, v \in Centroids, id \in ClusterIds : InsertCluster(p, o, v, id)
  \/ \E c \in ClusterIds, o \in Owners :
       \/ CropOf(p, c, o)
       \/ \E v \in Centroids : CentroidOf(p, c, o, v)
       \/ DeleteCluster(p, c, o)
       \/ \E s \in Streams : DetachCluster(p, c, s, o)
       \/ \E n \in Names \cup {NoName} : RenameTo(p, c, o, n)
       \/ \E sources \in SUBSET ClusterIds : MergeInto(p, o, c, sources)
  \/ \E s \in Streams : CascadeOf(p, s)

Work(p) ==
  \/ Unlink(p) \/ UnlinkRow(p) \/ Count(p) \/ CountRow(p) \/ Drop(p) \/ Commit(p)
  \/ Insert(p) \/ CascadeLoop(p) \/ CheckName(p) \/ SetName(p)
  \/ MergeLoop(p) \/ ReadTaken(p) \/ Move(p) \/ Update(p)
  \/ DeadlockDetected(p)

Next == \E p \in Conns : Arrive(p) \/ Work(p)

\* A statement that is not waiting runs, and deadlock detection does
Spec == Init /\ [][Next]_vars /\ \A p \in Conns : WF_vars(Work(p))

(***************************************************************************)
(* What overlapping transactions leave intact.                             *)
(***************************************************************************)

\* Every connection's record stays in its domain, and with it the committed
\* tables: what a statement has still to do are rows of its kind.
RCTypeOK ==
  /\ TypeOK
  /\ \A p \in Conns :
       /\ DOMAIN txn[p] = DOMAIN NoTxn
       /\ txn[p].todo \subseteq ClusterIds \/ txn[p].todo \subseteq Sample
       /\ txn[p].put \in [DOMAIN txn[p].put -> Row]
       /\ DOMAIN txn[p].put \cup txn[p].gone \cup txn[p].share \subseteq ClusterIds
       /\ txn[p].ins \cup txn[p].del \subseteq Sample
       /\ DOMAIN txn[p].put \cap txn[p].gone = {}

\* The transaction of Library that an open one stands for
Meant(me) ==
  CASE me.op = "append"   -> \E items \in SUBSET (ClusterIds \X SampleTimes) :
                               AppendSamples(me.owner, me.stream, items)
    [] me.op = "delete"   -> Delete(me.cur, me.owner)
    [] me.op = "detach"   -> Detach(me.cluster, me.stream, me.owner)
    [] me.op = "cascade"  -> Cascade(me.stream)
    [] me.op = "rename"   -> Rename(me.cluster, me.owner, me.value)
    [] me.op = "merge"    -> Merge(me.owner, me.cluster, me.gone)
    [] me.op = "crop"     -> SetCrop(me.cluster, me.owner)
    [] me.op = "centroid" -> UpdateCentroid(me.cluster, me.owner, me.value)

\* A transaction during which no other one was open changes the tables as its
\* transaction of Library does, or not at all: the statements of db.py, with
\* their loops, recounts and nudges, implement it.
AloneIsLibrary ==
  [][\A p \in Conns : Open(p) /\ txn[p].alone /\ At(p, "done")' =>
       [Meant(txn[p])]_libvars]_vars

\* Every transaction commits or rolls back: whatever rows others hold, whatever
\* order they are taken in, and whichever transaction a deadlock ends.
TransactionsEnd == \A p \in Conns : Open(p) ~> At(p, "done")

(***************************************************************************)
(* A promise of the code that does not survive overlap.                    *)
(***************************************************************************)

\* "Remove the association between a person and one of their streams": what
\* detach takes away is of that stream.
DetachStaysInStream ==
  [][\A p \in Conns : txn[p].op = "detach" /\ At(p, "commit") /\ At(p, "done")' =>
       \A x \in occ \ occ' : x.stream = txn[p].stream]_vars

=============================================================================
