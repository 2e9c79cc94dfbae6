------------------------- MODULE ReadCommittedProofs -------------------------
(***************************************************************************)
(* Proofs about ReadCommitted, for any number of connections, clusters,    *)
(* streams and samples: however the statements of open transactions        *)
(* interleave, the foreign key and the ownership of the samples hold at    *)
(* every commit, and so do unique names.                                   *)
(*                                                                         *)
(* No transaction validates anything when it commits.  What makes commits  *)
(* safe are the row locks held since the statement that checked: the       *)
(* invariant says what a lock still guarantees when its holder commits.    *)
(* A transaction that no other overlaps implements its transaction of      *)
(* Library: the last part follows one through its statements.              *)
(***************************************************************************)
EXTENDS ReadCommitted, LibraryProofs

Fields == {"op", "pc", "owner", "cluster", "stream", "value", "ids", "cur", "todo", "snap",
           "taken", "put", "gone", "ins", "share", "del", "alone"}

(***************************************************************************)
(* What the record of one transaction says, whatever the others do.        *)
(***************************************************************************)

HoldsNothing(me) ==
  me.put = NoRows /\ me.gone = {} /\ me.ins = {} /\ me.share = {} /\ me.del = {}

Closed(me) == me.pc \in {"idle", "done"} /\ HoldsNothing(me)

AppendCourse(me) ==
  /\ me.pc \in {"insert", "count", "counting", "commit"}
  /\ me.owner \in Owners /\ me.stream \in Streams
  /\ me.ids \subseteq ClusterIds \X SampleTimes
  /\ me.gone = {}

DeleteCourse(me) ==
  /\ me.pc \in {"unlink", "unlinking", "drop", "commit"}
  /\ me.share = {}

DetachCourse(me) ==
  /\ me.pc \in {"unlink", "unlinking", "count", "counting", "drop", "commit"}
  /\ me.share = {}
  /\ me.pc # "commit" => me.gone = {}

CascadeCourse(me) ==
  /\ me.pc \in {"unlink", "unlinking", "loop", "count", "counting", "drop", "commit"}
  /\ me.share = {}
  /\ me.ids \cap me.gone = {}
  /\ me.pc \in {"count", "counting", "drop"} => me.cur \notin me.ids \cup me.gone

MergeCourse(me) ==
  /\ me.pc \in {"loop", "move", "unlink", "unlinking", "drop", "count", "counting", "commit"}
  /\ me.owner \in Owners
  /\ me.cluster \notin me.ids \cup me.gone
  /\ me.share \subseteq {me.cluster}
  /\ me.pc \in {"move", "unlink", "unlinking", "drop"} => me.cur # me.cluster
  /\ me.pc \in {"count", "counting"} => me.cur = me.cluster

RenameCourse(me) ==
  /\ me.pc \in {"check", "name", "commit"}
  /\ me.value \in Names \cup {NoName}
  /\ me.gone = {}

FieldCourse(me) ==
  /\ me.pc \in {"update", "commit"}
  /\ me.op = "centroid" => me.value \in Centroids
  /\ me.gone = {}

Course(me) ==
  \/ Closed(me)
  \/ me.op = "append"  /\ AppendCourse(me)
  \/ me.op = "delete"  /\ DeleteCourse(me)
  \/ me.op = "detach"  /\ DetachCourse(me)
  \/ me.op = "cascade" /\ CascadeCourse(me)
  \/ me.op = "merge"   /\ MergeCourse(me)
  \/ me.op = "rename"  /\ RenameCourse(me)
  \/ me.op \in {"crop", "centroid"} /\ FieldCourse(me)

\* What the current statement has still to do
Doing(me) ==
  /\ me.pc \in {"unlinking", "move"} => me.todo \subseteq Sample
  /\ me.pc = "counting" =>
       me.todo \subseteq ClusterIds \ me.gone /\ \A c \in me.todo : me.snap[c] \in Nat
  /\ me.pc \notin {"unlinking", "move", "counting"} => me.todo = {}
  /\ \A s \in DOMAIN me.taken : me.taken[s] \subseteq Nat /\ IsFiniteSet(me.taken[s])

\* What it wrote
Wrote(me) ==
  /\ me.put \in [DOMAIN me.put -> Row]
  /\ me.ins \subseteq Sample /\ me.del \subseteq Sample /\ IsFiniteSet(me.ins)
  /\ (DOMAIN me.put \cup me.share) \cap me.gone = {}
  /\ \A x \in me.ins : x.cluster \in me.share

Valid(me) == DOMAIN me = Fields /\ Course(me) /\ Doing(me) /\ Wrote(me)

(***************************************************************************)
(* What its locks guarantee about the committed tables and the others.     *)
(***************************************************************************)

\* The rows it locked are still there; what it wrote and will write is of
\* their owner; a cluster it deleted gets no sample any more.
Secured(me) ==
  /\ DOMAIN me.put \cup me.gone \cup me.share \subseteq Live
  /\ \A c \in DOMAIN me.put : me.put[c].owner = rows[c].owner
  /\ \A x \in me.ins : x.owner = rows[x.cluster].owner
  /\ \A c \in me.gone : OccOf(occ, c) \subseteq me.del

\* A cluster whose owner it has checked is his as long as it exists
Checked(me, c) == c \in minted /\ (c \in Live => rows[c].owner = me.owner)

Remembers(me) ==
  /\ me.pc = "insert" => \A i \in me.ids : Checked(me, i[1])
  /\ /\ me.op \in {"rename", "merge"}
     /\ me.pc \in {"check", "name", "loop", "move", "unlink", "unlinking", "drop"}
     => Checked(me, me.cluster)

\* Two transactions hold no conflicting locks.
Apart(a, b) ==
  /\ (DOMAIN a.put \cup a.gone) \cap (DOMAIN b.put \cup b.gone) = {}
  /\ a.gone \cap b.share = {} /\ b.gone \cap a.share = {}

\* The committed version of a row, and the one a transaction will commit
Versions(c) == {rows[c]} \cup {txn[p].put[c] : p \in {q \in Conns : c \in DOMAIN txn[q].put}}

SameName(v, w) == v.owner = w.owner /\ v.name = w.name /\ v.name # NoName

\* Whichever of them are committed, no two rows will carry one name.
NamesApart == \A c, k \in Live : \A v \in Versions(c), w \in Versions(k) :
                SameName(v, w) => c = k

RCInv ==
  /\ TypeInv /\ OccurrencesOwned /\ NamesApart
  /\ DOMAIN txn = Conns
  /\ \A p \in Conns : Valid(txn[p]) /\ Secured(txn[p]) /\ Remembers(txn[p])
  /\ \A p, q \in Conns : p # q => Apart(txn[p], txn[q])

(***************************************************************************)
(* Arithmetic of the nudge.                                                *)
(***************************************************************************)

\* How many ticks there are from a to b.
LEMMA TicksCounted ==
  ASSUME NEW a \in Nat, NEW b \in Nat, a <= b
  PROVE  IsFiniteSet(a .. b) /\ Cardinality(a .. b) = b - a + 1
<1>1. a \in Int /\ b \in Int /\ ~(a > b)
  OBVIOUS
<1>2. /\ IsFiniteSet(a .. b)
      /\ Cardinality(a .. b) = IF a > b THEN 0 ELSE b - a + 1
  BY <1>1, FS_Interval, Zenon
<1>3. QED
  BY <1>1, <1>2

\* n + 1 ticks are more than n taken ones cover.
LEMMA TickFree ==
  ASSUME NEW a \in Nat, NEW b \in Nat, NEW taken, IsFiniteSet(taken), b = a + Cardinality(taken)
  PROVE  \E u \in a .. b : u \notin taken
<1>1. Cardinality(taken) \in Nat /\ a <= b
  BY FS_CardinalityType
<1>2. IsFiniteSet(a .. b) /\ Cardinality(a .. b) = b - a + 1
  BY <1>1, TicksCounted
<1>3. Cardinality(a .. b) = Cardinality(taken) + 1
  BY <1>1, <1>2
<1>4. ~(a .. b \subseteq taken)
  <2>1. a .. b \subseteq taken => Cardinality(a .. b) <= Cardinality(taken)
    BY FS_Subset
  <2>2. QED
    BY <1>1, <1>3, <2>1
<1>5. QED
  BY <1>4

\* The loop that looks for a free tick ends at or after the sample's own one,
\* on a free tick, past taken ones only.
LEMMA NudgedFacts ==
  ASSUME NEW t \in Nat, NEW taken \in SUBSET Nat, IsFiniteSet(taken)
  PROVE  /\ Nudged(t, taken) \in Nat /\ Nudged(t, taken) >= t /\ Nudged(t, taken) \notin taken
         /\ Nudged(t, taken) <= t + Cardinality(taken)
         /\ \A v \in t .. Nudged(t, taken) - 1 : v \in taken
<1> DEFINE b == t + Cardinality(taken)
           free == (t .. b) \ taken
<1>1. b \in Nat
  BY FS_CardinalityType
<1>2. free # {}
  BY <1>1, TickFree
<1>3. PICK u \in free : \A k \in free : u <= k
  <2>1. free \in SUBSET Nat
    BY <1>1
  <2>2. QED
    BY <1>2, <2>1, LeastNatural
<1>4. u \in t .. b /\ u \notin taken /\ \A v \in t .. u - 1 : v \in taken
  BY <1>1, <1>3
<1>5. /\ Nudged(t, taken) \in t .. b /\ Nudged(t, taken) \notin taken
      /\ \A v \in t .. Nudged(t, taken) - 1 : v \in taken
  BY <1>4 DEF Nudged
<1>6. QED
  BY <1>1, <1>5

(***************************************************************************)
(* Steps of one transaction that leave the committed tables alone.         *)
(***************************************************************************)

\* The same record, but for the history flag.
SameButAlone(new, old) == new = old \/ \E b \in BOOLEAN : new = [old EXCEPT !.alone = b]

\* A step of p: its record becomes tx.
Turns(p, tx) ==
  /\ UNCHANGED libvars
  /\ DOMAIN txn' = Conns /\ txn'[p] = tx
  /\ \A q \in Conns \ {p} : SameButAlone(txn'[q], txn[q])

\* The history flag is not looked at.
LEMMA AloneIsHistory ==
  ASSUME NEW old, NEW new, DOMAIN old = Fields, SameButAlone(new, old)
  PROVE  /\ DOMAIN new = Fields
         /\ Course(old) => Course(new)
         /\ Doing(old) => Doing(new)
         /\ Wrote(old) => Wrote(new)
         /\ Secured(old) => Secured(new)
         /\ Remembers(old) => Remembers(new)
         /\ HoldsNothing(old) => HoldsNothing(new)
         /\ new.put = old.put /\ new.gone = old.gone /\ new.share = old.share
<1>1. DOMAIN new = Fields /\ \A f \in Fields \ {"alone"} : new[f] = old[f]
  BY DEF SameButAlone
<1>2. /\ new.op = old.op /\ new.pc = old.pc /\ new.owner = old.owner
      /\ new.cluster = old.cluster /\ new.stream = old.stream
      /\ new.value = old.value /\ new.ids = old.ids /\ new.cur = old.cur
      /\ new.todo = old.todo /\ new.snap = old.snap /\ new.taken = old.taken
      /\ new.put = old.put /\ new.gone = old.gone /\ new.ins = old.ins
      /\ new.share = old.share /\ new.del = old.del
  BY <1>1 DEF Fields
<1>3. Course(old) => Course(new)
  BY <1>2 DEF Course, Closed, HoldsNothing, AppendCourse, DeleteCourse,
     DetachCourse, CascadeCourse, MergeCourse, RenameCourse, FieldCourse
<1>4. (Doing(old) => Doing(new)) /\ (Wrote(old) => Wrote(new))
  BY <1>2 DEF Doing, Wrote
<1>5. (Secured(old) => Secured(new)) /\ (Remembers(old) => Remembers(new))
  BY <1>2 DEF Secured, Remembers, Checked
<1>6. QED
  BY <1>1, <1>2, <1>3, <1>4, <1>5 DEF HoldsNothing

\* After a step of p the others hold what they held.
LEMMA OthersAsBefore ==
  ASSUME RCInv, NEW p \in Conns, NEW tx, Turns(p, tx), NEW q \in Conns \ {p}
  PROVE  /\ Valid(txn'[q]) /\ Secured(txn'[q]) /\ Remembers(txn'[q])
         /\ txn'[q].put = txn[q].put /\ txn'[q].gone = txn[q].gone
         /\ txn'[q].share = txn[q].share
<1>1. Valid(txn[q]) /\ Secured(txn[q]) /\ Remembers(txn[q]) /\ DOMAIN txn[q] = Fields
  BY DEF RCInv, Valid
<1>2. SameButAlone(txn'[q], txn[q])
  BY DEF Turns
<1>3. QED
  BY <1>1, <1>2, AloneIsHistory DEF Valid

\* Everything but the names.
LEMMA TurnKeeps ==
  ASSUME RCInv, NEW p \in Conns, NEW tx, Turns(p, tx), NamesApart',
         Valid(tx), Secured(tx), Remembers(tx),
         \A q \in Conns \ {p} : Apart(tx, txn[q])
  PROVE  RCInv'
<1>1. rows' = rows /\ occ' = occ /\ minted' = minted /\ Live' = Live
  BY DEF Turns, libvars, Live
<1>2. TypeInv' /\ OccurrencesOwned'
  BY <1>1 DEF RCInv, TypeInv, TypeOK, OccFinite, OccurrencesOwned
<1>3. DOMAIN txn' = Conns
  BY DEF Turns
<1>4. ASSUME NEW q \in Conns PROVE (Valid(txn[q]) /\ Secured(txn[q]) /\ Remembers(txn[q]))'
  <2>1. Valid(txn'[q]) /\ Secured(txn'[q]) /\ Remembers(txn'[q])
    BY OthersAsBefore DEF Turns
  <2>2. Valid(txn[q])'
    BY <2>1 DEF Valid, Course, Closed, HoldsNothing, AppendCourse, DeleteCourse,
       DetachCourse, CascadeCourse, MergeCourse, RenameCourse, FieldCourse, Doing, Wrote
  <2>3. Secured(txn[q])' /\ Remembers(txn[q])'
    BY <1>1, <2>1 DEF Secured, Remembers, Checked
  <2>4. QED
    BY <2>2, <2>3
<1>5. ASSUME NEW q \in Conns, NEW r \in Conns, q # r PROVE Apart(txn[q], txn[r])'
  <2>1. \A k \in Conns \ {p} : /\ txn'[k].put = txn[k].put /\ txn'[k].gone = txn[k].gone
                               /\ txn'[k].share = txn[k].share
    BY OthersAsBefore
  <2>2. txn'[p] = tx
    BY DEF Turns
  <2>3. CASE q # p /\ r # p
    BY <1>5, <2>1, <2>3 DEF RCInv, Apart
  <2>4. CASE q = p
    BY <1>5, <2>1, <2>2, <2>4 DEF Apart
  <2>5. CASE r = p
    BY <1>5, <2>1, <2>2, <2>5 DEF Apart
  <2>6. QED
    BY <2>3, <2>4, <2>5
<1>6. QED
  BY <1>2, <1>3, <1>4, <1>5 DEF RCInv

\* A step that gives no row an owner or a name no version of it has.
LEMMA NamesKept ==
  ASSUME RCInv, NEW p \in Conns, NEW tx, Turns(p, tx), DOMAIN tx.put \subseteq Live,
         \A c \in DOMAIN tx.put : \E v \in Versions(c) :
           v.owner = tx.put[c].owner /\ v.name = tx.put[c].name
  PROVE  NamesApart'
<1>1. rows' = rows /\ Live' = Live /\ txn'[p] = tx
  BY DEF Turns, libvars, Live
<1>2. \A q \in Conns \ {p} : txn'[q].put = txn[q].put
  BY OthersAsBefore
<1>3. ASSUME NEW c \in Live, NEW v, v \in Versions(c)'
      PROVE  \E w \in Versions(c) : w.owner = v.owner /\ w.name = v.name
  <2>1. CASE v = rows[c]
    BY <2>1 DEF Versions
  <2>2. CASE v # rows[c]
    <3>1. PICK q \in Conns : c \in DOMAIN txn'[q].put /\ v = txn'[q].put[c]
      BY <1>1, <1>3, <2>2 DEF Versions
    <3>2. CASE q = p
      BY <1>1, <3>1, <3>2
    <3>3. CASE q # p
      BY <1>2, <3>1, <3>3 DEF Versions
    <3>4. QED
      BY <3>2, <3>3
  <2>3. QED
    BY <2>1, <2>2
<1>4. QED
  BY <1>1, <1>3 DEF RCInv, NamesApart, SameName

(***************************************************************************)
(* Steps that write nothing.                                               *)
(***************************************************************************)

\* Only p's record changes.
LEMMA StepTurns ==
  ASSUME RCInv, NEW p \in Conns, NEW tx, Step(p, tx)
  PROVE  Turns(p, tx)
BY DEF RCInv, Step, Turns, SameButAlone

\* No cluster is written and no sample inserted; samples may be deleted.
SameWrites(tx, me) ==
  /\ tx.put = me.put /\ tx.gone = me.gone /\ tx.ins = me.ins
  /\ tx.share = me.share /\ me.del \subseteq tx.del /\ tx.del \subseteq Sample

\* A step that looks, goes on in a loop or deletes samples.
LEMMA LookKeeps ==
  ASSUME RCInv, NEW p \in Conns, NEW tx, Step(p, tx), SameWrites(tx, txn[p]),
         DOMAIN tx = Fields, Course(tx), Doing(tx), Remembers(tx)
  PROVE  RCInv'
<1>1. Valid(txn[p]) /\ Secured(txn[p]) /\ Turns(p, tx)
  BY StepTurns DEF RCInv
<1>2. Valid(tx) /\ Secured(tx)
  BY <1>1 DEF SameWrites, Valid, Wrote, Secured
<1>3. \A q \in Conns \ {p} : Apart(tx, txn[q])
  BY DEF RCInv, SameWrites, Apart
<1>4. NamesApart'
  <2>1. DOMAIN tx.put \subseteq Live /\ \A c \in DOMAIN tx.put : tx.put[c] \in Versions(c)
    BY <1>2 DEF SameWrites, Secured, Versions
  <2>2. QED
    BY <1>1, <2>1, NamesKept
<1>5. QED
  BY <1>1, <1>2, <1>3, <1>4, TurnKeeps

\* A record without writes is compatible with every state.
LEMMA NothingHeld ==
  ASSUME RCInv, NEW p \in Conns, NEW tx, HoldsNothing(tx)
  PROVE  /\ Wrote(tx) /\ Secured(tx) /\ DOMAIN tx.put = {}
         /\ \A q \in Conns \ {p} : Apart(tx, txn[q])
<1>1. DOMAIN tx.put = {} /\ tx.gone = {} /\ tx.ins = {} /\ tx.share = {} /\ tx.del = {}
  BY DEF HoldsNothing, NoRows
<1>2. IsFiniteSet({})
  BY FS_EmptySet
<1>3. tx.put \in [DOMAIN tx.put -> Row]
  BY DEF HoldsNothing, NoRows
<1>4. Wrote(tx)
  BY <1>1, <1>2, <1>3 DEF Wrote
<1>5. QED
  BY <1>1, <1>4 DEF Secured, Apart

\* A transaction that ends without a commit, or begins.
LEMMA FreeKeeps ==
  ASSUME RCInv, NEW p \in Conns, NEW tx, Turns(p, tx), HoldsNothing(tx),
         DOMAIN tx = Fields, Course(tx), Doing(tx), Remembers(tx)
  PROVE  RCInv'
<1>1. Valid(tx) /\ Secured(tx) /\ \A q \in Conns \ {p} : Apart(tx, txn[q])
  BY NothingHeld DEF Valid
<1>2. NamesApart'
  BY NothingHeld, NamesKept
<1>3. QED
  BY <1>1, <1>2, TurnKeeps

\* What an ended transaction's record says.
LEMMA EndedFacts ==
  ASSUME NEW p
  PROVE  /\ DOMAIN Ended(p) = Fields /\ HoldsNothing(Ended(p)) /\ Ended(p).pc = "done"
         /\ Course(Ended(p)) /\ Doing(Ended(p)) /\ Remembers(Ended(p))
<1>1. /\ DOMAIN Ended(p) = Fields /\ HoldsNothing(Ended(p)) /\ Ended(p).pc = "done"
      /\ Ended(p).todo = {} /\ Ended(p).taken = NoRows
  BY DEF Ended, NoTxn, Fields, HoldsNothing
<1>2. Course(Ended(p)) /\ Doing(Ended(p)) /\ Remembers(Ended(p))
  BY <1>1 DEF Course, Closed, Doing, Remembers, NoRows
<1>3. QED
  BY <1>1, <1>2

\* An exception undoes everything.
LEMMA RollbackKeeps ==
  ASSUME RCInv, NEW p \in Conns, Rollback(p)
  PROVE  RCInv'
BY StepTurns, EndedFacts, FreeKeeps DEF Rollback

\* The DELETE takes its snapshot.
LEMMA UnlinkKeeps ==
  ASSUME RCInv, NEW p \in Conns, Unlink(p)
  PROVE  RCInv'
<1> DEFINE me == txn[p]
           tx == [me EXCEPT !.todo = Unlinked(me) \ me.del, !.pc = "unlinking"]
<1>1. Valid(me) /\ Secured(me) /\ Remembers(me) /\ me.pc = "unlink" /\ Step(p, tx)
  BY DEF RCInv, Unlink, At
<1>2. DOMAIN tx = Fields /\ tx.pc = "unlinking" /\ tx.todo = Unlinked(me) \ me.del
      /\ \A f \in Fields \ {"pc", "todo"} : tx[f] = me[f]
  BY <1>1 DEF Valid, Fields
<1>3. Unlinked(me) \subseteq Sample
  BY DEF RCInv, TypeInv, TypeOK, Unlinked, OccIn, OccOf
<1> HIDE DEF tx
<1>4. /\ tx.op = me.op /\ tx.owner = me.owner /\ tx.cluster = me.cluster
      /\ tx.ids = me.ids /\ tx.cur = me.cur /\ tx.value = me.value /\ tx.stream = me.stream
      /\ tx.gone = me.gone /\ tx.share = me.share /\ tx.taken = me.taken
      /\ SameWrites(tx, me)
  BY <1>1, <1>2 DEF Fields, SameWrites, Valid, Wrote
<1>5. Course(tx)
  BY <1>1, <1>2, <1>4 DEF Valid, Course, Closed, AppendCourse, DeleteCourse,
       DetachCourse, CascadeCourse, MergeCourse, RenameCourse, FieldCourse
<1>6. Doing(tx) /\ Remembers(tx)
  BY <1>1, <1>2, <1>3, <1>4 DEF Valid, Doing, Remembers, Checked
<1>7. QED
  BY <1>1, <1>2, <1>4, <1>5, <1>6, LookKeeps

\* One row of the DELETE, or its end.
LEMMA UnlinkRowKeeps ==
  ASSUME RCInv, NEW p \in Conns, UnlinkRow(p)
  PROVE  RCInv'
<1> DEFINE me == txn[p]
<1>1. Valid(me) /\ Secured(me) /\ Remembers(me) /\ me.pc = "unlinking" /\ DOMAIN me = Fields
  BY DEF RCInv, UnlinkRow, At, Valid
<1>2. occ \subseteq Sample
  BY DEF RCInv, TypeInv, TypeOK
<1>3. ASSUME NEW x \in me.todo,
             Step(p, [me EXCEPT !.todo = @ \ {x}, !.del = @ \cup ({x} \cap occ)])
      PROVE  RCInv'
  <2> DEFINE tx == [me EXCEPT !.todo = @ \ {x}, !.del = @ \cup ({x} \cap occ)]
  <2>1. /\ DOMAIN tx = Fields /\ tx.todo = me.todo \ {x}
        /\ tx.del = me.del \cup ({x} \cap occ)
        /\ \A f \in Fields \ {"del", "todo"} : tx[f] = me[f]
    BY <1>1 DEF Fields
  <2>2. Step(p, tx)
    BY <1>3
  <2> HIDE DEF tx
  <2>3. /\ tx.op = me.op /\ tx.owner = me.owner /\ tx.cluster = me.cluster /\ tx.pc = me.pc
        /\ tx.ids = me.ids /\ tx.cur = me.cur /\ tx.value = me.value /\ tx.stream = me.stream
        /\ tx.gone = me.gone /\ tx.share = me.share /\ tx.taken = me.taken
        /\ SameWrites(tx, me)
    BY <1>1, <1>2, <2>1 DEF Fields, SameWrites, Valid, Wrote
  <2>4. Course(tx)
    BY <1>1, <2>3 DEF Valid, Course, Closed, AppendCourse, DeleteCourse,
         DetachCourse, CascadeCourse, MergeCourse, RenameCourse, FieldCourse
  <2>5. Doing(tx) /\ Remembers(tx)
    BY <1>1, <2>1, <2>3 DEF Valid, Doing, Remembers, Checked
  <2>6. QED
    BY <2>1, <2>2, <2>3, <2>4, <2>5, LookKeeps
<1>4. ASSUME me.todo = {}, Step(p, [me EXCEPT !.pc = AfterUnlink(me.op)])
      PROVE  RCInv'
  <2> DEFINE tx == [me EXCEPT !.pc = AfterUnlink(me.op)]
  <2>1. /\ DOMAIN tx = Fields /\ tx.pc = AfterUnlink(me.op)
        /\ \A f \in Fields \ {"pc"} : tx[f] = me[f]
    BY <1>1 DEF Fields
  <2>2. Step(p, tx)
    BY <1>4
  <2> HIDE DEF tx
  <2>3. /\ tx.op = me.op /\ tx.owner = me.owner /\ tx.cluster = me.cluster /\ tx.todo = {}
        /\ tx.ids = me.ids /\ tx.cur = me.cur /\ tx.value = me.value /\ tx.stream = me.stream
        /\ tx.gone = me.gone /\ tx.share = me.share /\ tx.taken = me.taken
        /\ SameWrites(tx, me)
    BY <1>1, <1>4, <2>1 DEF Fields, SameWrites, Valid, Wrote
  <2>4. tx.pc \in {"count", "loop", "drop"} /\ (tx.pc = "count" <=> me.op = "detach")
        /\ (tx.pc = "loop" <=> me.op = "cascade")
    BY <2>1 DEF AfterUnlink
  <2>5. Course(tx)
    BY <1>1, <2>3, <2>4 DEF Valid, Course, Closed, AppendCourse, DeleteCourse,
         DetachCourse, CascadeCourse, MergeCourse, RenameCourse, FieldCourse
  <2>6. Doing(tx) /\ Remembers(tx)
    BY <1>1, <2>3, <2>4 DEF Valid, Doing, Remembers, Checked
  <2>7. QED
    BY <2>1, <2>2, <2>3, <2>5, <2>6, LookKeeps
<1>5. QED
  BY <1>3, <1>4 DEF UnlinkRow

\* What a transaction sees is well-formed.
LEMMA SeenFacts ==
  ASSUME RCInv, NEW p \in Conns
  PROVE  SeenOcc(p) \subseteq Sample /\ IsFiniteSet(SeenOcc(p))
<1>1. occ \subseteq Sample /\ IsFiniteSet(occ)
  BY DEF RCInv, TypeInv, TypeOK, OccFinite
<1>2. txn[p].ins \subseteq Sample /\ IsFiniteSet(txn[p].ins)
  BY DEF RCInv, Valid, Wrote
<1>3. IsFiniteSet(occ \ txn[p].del)
  BY <1>1, FS_Subset
<1>4. QED
  BY <1>1, <1>2, <1>3, FS_Union DEF SeenOcc

\* The count UPDATE takes its snapshot.
LEMMA CountKeeps ==
  ASSUME RCInv, NEW p \in Conns, Count(p)
  PROVE  RCInv'
<1> DEFINE me == txn[p]
           T == Recounted(p)
           counts == [c \in T |-> Cardinality(OccOf(SeenOcc(p), c))]
           tx == [me EXCEPT !.pc = "counting", !.todo = T, !.snap = counts]
<1>1. Valid(me) /\ Secured(me) /\ Remembers(me) /\ me.pc = "count" /\ DOMAIN me = Fields
  BY DEF RCInv, Count, At, Valid
<1>2. Live \subseteq ClusterIds
  BY DEF RCInv, TypeInv, TypeOK
<1>3. T \subseteq ClusterIds \ me.gone
  BY <1>1, <1>2 DEF Recounted, Valid, Course, Closed, AppendCourse, DeleteCourse,
       DetachCourse, CascadeCourse, MergeCourse, RenameCourse, FieldCourse
<1>4. \A c \in T : counts[c] \in Nat
  BY SeenFacts, PartsFinite
<1>5. Step(p, tx)
  BY DEF Count
<1>6. /\ DOMAIN tx = Fields /\ tx.pc = "counting" /\ tx.todo = T /\ tx.snap = counts
      /\ \A f \in Fields \ {"pc", "todo", "snap"} : tx[f] = me[f]
  BY <1>1 DEF Fields
<1> HIDE DEF tx, T, counts
<1>7. /\ tx.op = me.op /\ tx.owner = me.owner /\ tx.cluster = me.cluster
      /\ tx.ids = me.ids /\ tx.cur = me.cur /\ tx.value = me.value /\ tx.stream = me.stream
      /\ tx.gone = me.gone /\ tx.share = me.share /\ tx.taken = me.taken
      /\ SameWrites(tx, me)
  BY <1>1, <1>6 DEF Fields, SameWrites, Valid, Wrote
<1>8. Course(tx)
  BY <1>1, <1>6, <1>7 DEF Valid, Course, Closed, AppendCourse, DeleteCourse,
       DetachCourse, CascadeCourse, MergeCourse, RenameCourse, FieldCourse
<1>9. Doing(tx) /\ Remembers(tx)
  BY <1>1, <1>3, <1>4, <1>6, <1>7 DEF Valid, Doing, Remembers, Checked
<1>10. QED
  BY <1>5, <1>6, <1>7, <1>8, <1>9, LookKeeps

\* The next cluster of a cascade, or its end.
LEMMA CascadeLoopKeeps ==
  ASSUME RCInv, NEW p \in Conns, CascadeLoop(p)
  PROVE  RCInv'
<1> DEFINE me == txn[p]
<1>1. /\ Valid(me) /\ Secured(me) /\ Remembers(me) /\ me.pc = "loop" /\ me.op = "cascade"
      /\ DOMAIN me = Fields
  BY DEF RCInv, CascadeLoop, At, Valid
<1>2. me.share = {} /\ me.ids \cap me.gone = {} /\ me.todo = {}
  BY <1>1 DEF Valid, Course, Closed, CascadeCourse, Doing
<1>3. ASSUME NEW c \in me.ids, Step(p, [me EXCEPT !.ids = @ \ {c}, !.cur = c, !.pc = "count"])
      PROVE  RCInv'
  <2> DEFINE tx == [me EXCEPT !.ids = @ \ {c}, !.cur = c, !.pc = "count"]
  <2>1. /\ DOMAIN tx = Fields /\ tx.pc = "count" /\ tx.cur = c /\ tx.ids = me.ids \ {c}
        /\ \A f \in Fields \ {"pc", "cur", "ids"} : tx[f] = me[f]
    BY <1>1 DEF Fields
  <2>2. Step(p, tx)
    BY <1>3
  <2> HIDE DEF tx
  <2>3. /\ tx.op = me.op /\ tx.todo = {} /\ tx.gone = me.gone /\ tx.share = me.share
        /\ tx.taken = me.taken /\ SameWrites(tx, me)
    BY <1>1, <1>2, <2>1 DEF Fields, SameWrites, Valid, Wrote
  <2>4. Course(tx)
    BY <1>1, <1>2, <2>1, <2>3 DEF Course, CascadeCourse
  <2>5. Doing(tx) /\ Remembers(tx)
    BY <1>1, <2>1, <2>3 DEF Valid, Doing, Remembers
  <2>6. QED
    BY <2>1, <2>2, <2>3, <2>4, <2>5, LookKeeps
<1>4. ASSUME Step(p, [me EXCEPT !.pc = "commit"])
      PROVE  RCInv'
  <2> DEFINE tx == [me EXCEPT !.pc = "commit"]
  <2>1. /\ DOMAIN tx = Fields /\ tx.pc = "commit"
        /\ \A f \in Fields \ {"pc"} : tx[f] = me[f]
    BY <1>1 DEF Fields
  <2>2. Step(p, tx)
    BY <1>4
  <2> HIDE DEF tx
  <2>3. /\ tx.op = me.op /\ tx.todo = {} /\ tx.gone = me.gone /\ tx.share = me.share
        /\ tx.ids = me.ids /\ tx.taken = me.taken /\ SameWrites(tx, me)
    BY <1>1, <1>2, <2>1 DEF Fields, SameWrites, Valid, Wrote
  <2>4. Course(tx)
    BY <1>1, <1>2, <2>1, <2>3 DEF Course, CascadeCourse
  <2>5. Doing(tx) /\ Remembers(tx)
    BY <1>1, <2>1, <2>3 DEF Valid, Doing, Remembers
  <2>6. QED
    BY <2>1, <2>2, <2>3, <2>4, <2>5, LookKeeps
<1>5. QED
  BY <1>3, <1>4 DEF CascadeLoop

\* The next source of a merge, or the recount of its target.
LEMMA MergeLoopKeeps ==
  ASSUME RCInv, NEW p \in Conns, MergeLoop(p)
  PROVE  RCInv'
<1> DEFINE me == txn[p]
<1>1. /\ Valid(me) /\ Secured(me) /\ Remembers(me) /\ me.pc = "loop" /\ me.op = "merge"
      /\ DOMAIN me = Fields
  BY DEF RCInv, MergeLoop, At, Valid
<1>2. MergeCourse(me) /\ me.todo = {} /\ Checked(me, me.cluster)
  BY <1>1 DEF Valid, Course, Closed, Doing, Remembers
<1>3. ASSUME NEW c \in me.ids,
             Step(p, [me EXCEPT !.ids = @ \ {c}, !.cur = c, !.pc = "move",
                                !.todo = OccOf(SeenOcc(p), c)])
      PROVE  RCInv'
  <2> DEFINE from == OccOf(SeenOcc(p), c)
             tx == [me EXCEPT !.ids = @ \ {c}, !.cur = c, !.pc = "move", !.todo = from]
  <2>1. from \subseteq Sample
    BY SeenFacts DEF OccOf
  <2>2. /\ DOMAIN tx = Fields /\ tx.pc = "move" /\ tx.cur = c /\ tx.ids = me.ids \ {c}
        /\ tx.todo = from
        /\ \A f \in Fields \ {"pc", "cur", "ids", "todo"} : tx[f] = me[f]
    BY <1>1 DEF Fields
  <2>3. Step(p, tx)
    BY <1>3
  <2> HIDE DEF tx, from
  <2>4. /\ tx.op = "merge" /\ tx.gone = me.gone /\ tx.share = me.share
        /\ tx.taken = me.taken /\ tx.owner = me.owner /\ tx.cluster = me.cluster
        /\ SameWrites(tx, me)
    BY <1>1, <2>2 DEF Fields, SameWrites, Valid, Wrote
  <2>5. MergeCourse(tx)
    BY <1>2, <2>2, <2>4 DEF MergeCourse
  <2>6. Doing(tx) /\ Remembers(tx)
    BY <1>1, <1>2, <2>1, <2>2, <2>4 DEF Valid, Doing, Remembers, Checked
  <2>7. QED
    BY <2>2, <2>3, <2>4, <2>5, <2>6, LookKeeps DEF Course
<1>4. ASSUME Step(p, [me EXCEPT !.cur = me.cluster, !.pc = "count"])
      PROVE  RCInv'
  <2> DEFINE tx == [me EXCEPT !.cur = me.cluster, !.pc = "count"]
  <2>1. /\ DOMAIN tx = Fields /\ tx.pc = "count" /\ tx.cur = me.cluster
        /\ \A f \in Fields \ {"pc", "cur"} : tx[f] = me[f]
    BY <1>1 DEF Fields
  <2>2. Step(p, tx)
    BY <1>4
  <2> HIDE DEF tx
  <2>3. /\ tx.op = "merge" /\ tx.todo = {} /\ tx.gone = me.gone /\ tx.share = me.share
        /\ tx.taken = me.taken /\ tx.owner = me.owner /\ tx.cluster = me.cluster
        /\ tx.ids = me.ids /\ SameWrites(tx, me)
    BY <1>1, <1>2, <2>1 DEF Fields, SameWrites, Valid, Wrote
  <2>4. MergeCourse(tx)
    BY <1>2, <2>1, <2>3 DEF MergeCourse
  <2>5. Doing(tx) /\ Remembers(tx)
    BY <1>1, <2>1, <2>3 DEF Valid, Doing, Remembers
  <2>6. QED
    BY <2>1, <2>2, <2>3, <2>4, <2>5, LookKeeps DEF Course
<1>5. QED
  BY <1>3, <1>4 DEF MergeLoop

\* The ticks of the target are read.
LEMMA ReadTakenKeeps ==
  ASSUME RCInv, NEW p \in Conns, ReadTaken(p)
  PROVE  RCInv'
<1> DEFINE me == txn[p]
           ticks(s) == {x.t : x \in OccIn(OccOf(SeenOcc(p), me.cluster), s)}
<1>1. /\ Valid(me) /\ Secured(me) /\ Remembers(me) /\ me.pc = "move" /\ DOMAIN me = Fields
  BY DEF RCInv, ReadTaken, At, Valid
<1>2. PICK s \in {x.stream : x \in me.todo} \ DOMAIN me.taken :
        Step(p, [me EXCEPT !.taken =
                   [r \in DOMAIN @ \cup {s} |-> IF r = s THEN ticks(s) ELSE @[r]]])
  BY DEF ReadTaken
<1> DEFINE read == [r \in DOMAIN me.taken \cup {s} |-> IF r = s THEN ticks(s) ELSE me.taken[r]]
           tx == [me EXCEPT !.taken = read]
<1>3. ticks(s) \subseteq Nat /\ IsFiniteSet(ticks(s))
  <2> DEFINE T == OccIn(OccOf(SeenOcc(p), me.cluster), s)
  <2>1. T \subseteq Sample /\ IsFiniteSet(T)
    BY SeenFacts, FS_Subset DEF OccOf, OccIn
  <2>2. \A x \in T : x.t \in Nat
    BY <2>1 DEF Sample
  <2> HIDE DEF T
  <2> DEFINE g == [x \in T |-> x.t]
  <2>3. g \in Surjection(T, {x.t : x \in T})
    BY DEF Surjection
  <2>4. IsFiniteSet({x.t : x \in T})
    BY <2>1, <2>3, FS_Surjection
  <2>5. QED
    BY <2>2, <2>4 DEF T
<1>4. \A r \in DOMAIN read : read[r] \subseteq Nat /\ IsFiniteSet(read[r])
  BY <1>1, <1>3 DEF Valid, Doing
<1>5. /\ DOMAIN tx = Fields /\ tx.taken = read
      /\ \A f \in Fields \ {"taken"} : tx[f] = me[f]
  BY <1>1 DEF Fields
<1>6. Step(p, tx)
  BY <1>2
<1> HIDE DEF tx, read
<1>7. /\ tx.op = me.op /\ tx.owner = me.owner /\ tx.cluster = me.cluster /\ tx.pc = me.pc
      /\ tx.ids = me.ids /\ tx.cur = me.cur /\ tx.value = me.value /\ tx.stream = me.stream
      /\ tx.gone = me.gone /\ tx.share = me.share /\ tx.todo = me.todo
      /\ SameWrites(tx, me)
  BY <1>1, <1>5 DEF Fields, SameWrites, Valid, Wrote
<1>8. Course(tx)
  BY <1>1, <1>7 DEF Valid, Course, Closed, AppendCourse, DeleteCourse,
       DetachCourse, CascadeCourse, MergeCourse, RenameCourse, FieldCourse
<1>9. Doing(tx) /\ Remembers(tx)
  BY <1>1, <1>4, <1>5, <1>7 DEF Valid, Doing, Remembers, Checked
<1>10. QED
  BY <1>5, <1>6, <1>7, <1>8, <1>9, LookKeeps

\* The name is looked up.
LEMMA CheckNameKeeps ==
  ASSUME RCInv, NEW p \in Conns, CheckName(p)
  PROVE  RCInv'
<1> DEFINE me == txn[p]
           to == IF NameTaken(me.cluster, me.owner, me.value) THEN "commit" ELSE "name"
           tx == [me EXCEPT !.pc = to]
<1>1. /\ Valid(me) /\ Secured(me) /\ Remembers(me) /\ me.pc = "check" /\ DOMAIN me = Fields
  BY DEF RCInv, CheckName, At, Valid
<1>2. to \in {"commit", "name"}
  OBVIOUS
<1>3. DOMAIN tx = Fields /\ tx.pc = to /\ \A f \in Fields \ {"pc"} : tx[f] = me[f]
  BY <1>1 DEF Fields
<1>4. Step(p, tx)
  BY DEF CheckName
<1> HIDE DEF tx, to
<1>5. /\ tx.op = me.op /\ tx.owner = me.owner /\ tx.cluster = me.cluster
      /\ tx.value = me.value /\ tx.gone = me.gone /\ tx.todo = me.todo /\ tx.taken = me.taken
      /\ SameWrites(tx, me)
  BY <1>1, <1>3 DEF Fields, SameWrites, Valid, Wrote
<1>6. me.op = "rename" /\ RenameCourse(me)
  BY <1>1 DEF Valid, Course, Closed, AppendCourse, DeleteCourse,
       DetachCourse, CascadeCourse, MergeCourse, FieldCourse
<1>7. Course(tx)
  BY <1>2, <1>3, <1>5, <1>6 DEF Course, RenameCourse
<1>8. Doing(tx) /\ Remembers(tx)
  BY <1>1, <1>2, <1>3, <1>5, <1>6 DEF Valid, Doing, Remembers, Checked
<1>9. QED
  BY <1>3, <1>4, <1>5, <1>7, <1>8, LookKeeps

(***************************************************************************)
(* Transactions begin.                                                     *)
(***************************************************************************)

\* A transaction that has written nothing yet.
LEMMA BeginKeeps ==
  ASSUME RCInv, NEW p \in Conns, NEW tx, Begin(p, tx), DOMAIN tx = Fields,
         HoldsNothing(tx), Course(tx), Doing(tx), Remembers(tx)
  PROVE  RCInv'
<1> DEFINE new == [tx EXCEPT !.alone = Others(p) = {}]
<1>1. SameButAlone(new, tx)
  BY DEF SameButAlone
<1>2. DOMAIN new = Fields /\ HoldsNothing(new) /\ Course(new) /\ Doing(new) /\ Remembers(new)
  BY <1>1, AloneIsHistory
<1>3. Turns(p, new)
  <2>1. \A q \in Conns \ {p} : txn'[q] = [txn[q] EXCEPT !.alone = FALSE] \/ txn'[q] = txn[q]
    BY DEF Begin
  <2>2. \A q \in Conns \ {p} : SameButAlone(txn'[q], txn[q])
    BY <2>1 DEF SameButAlone
  <2>3. DOMAIN txn' = Conns /\ txn'[p] = new /\ UNCHANGED libvars
    BY DEF Begin
  <2>4. QED
    BY <2>2, <2>3 DEF Turns
<1> HIDE DEF new
<1>4. QED
  BY <1>2, <1>3, FreeKeeps

\* What the record of a new transaction says.
Starts(tx, op, pc) ==
  /\ DOMAIN tx = Fields /\ tx.op = op /\ tx.pc = pc /\ HoldsNothing(tx)
  /\ tx.todo = {} /\ tx.taken = NoRows

\* Such a record has no statement under way and holds no lock.
LEMMA StartsFacts ==
  ASSUME NEW tx, NEW op, NEW pc, Starts(tx, op, pc), pc \notin {"counting"}
  PROVE  Doing(tx) /\ tx.gone = {} /\ tx.share = {}
BY DEF Starts, Doing, HoldsNothing, NoRows

\* append_stream_occurrences, whose caller has checked the owner of the clusters.
LEMMA AppendBegins ==
  ASSUME RCInv, NEW p \in Conns, NEW o \in Owners, NEW s \in Streams,
         NEW items \in SUBSET (ClusterIds \X SampleTimes), Append(p, o, s, items)
  PROVE  RCInv'
<1> DEFINE tx == [NoTxn EXCEPT !.op = "append", !.pc = "insert", !.owner = o, !.stream = s,
                               !.ids = items]
<1>1. /\ Starts(tx, "append", "insert") /\ tx.owner = o /\ tx.stream = s /\ tx.ids = items
  BY DEF Starts, NoTxn, Fields, HoldsNothing
<1>2. Begin(p, tx) /\ \A i \in items : Owned(i[1], o)
  BY DEF Append
<1> HIDE DEF tx
<1>3. Doing(tx) /\ tx.gone = {}
  BY <1>1, StartsFacts
<1>4. Course(tx)
  BY <1>1, <1>3 DEF Course, AppendCourse, Starts
<1>5. Live \subseteq minted
  BY DEF RCInv, TypeInv, TypeOK
<1>6. Remembers(tx)
  BY <1>1, <1>2, <1>5 DEF Remembers, Checked, Owned, Starts
<1>7. QED
  BY <1>1, <1>2, <1>3, <1>4, <1>6, BeginKeeps DEF Starts

\* rename_cluster, which has found the cluster and its owner.
LEMMA RenameBegins ==
  ASSUME RCInv, NEW p \in Conns, NEW c \in ClusterIds, NEW o \in Owners,
         NEW n \in Names \cup {NoName}, RenameTo(p, c, o, n)
  PROVE  RCInv'
<1> DEFINE tx == [NoTxn EXCEPT !.op = "rename", !.pc = "check", !.owner = o, !.cluster = c,
                               !.value = n]
<1>1. Starts(tx, "rename", "check") /\ tx.owner = o /\ tx.cluster = c /\ tx.value = n
  BY DEF Starts, NoTxn, Fields, HoldsNothing
<1>2. Begin(p, tx) /\ Owned(c, o)
  BY DEF RenameTo
<1> HIDE DEF tx
<1>3. Doing(tx) /\ tx.gone = {}
  BY <1>1, StartsFacts
<1>4. Course(tx)
  BY <1>1, <1>3 DEF Course, RenameCourse, Starts
<1>5. Live \subseteq minted
  BY DEF RCInv, TypeInv, TypeOK
<1>6. Remembers(tx)
  BY <1>1, <1>2, <1>5 DEF Remembers, Checked, Owned, Starts
<1>7. QED
  BY <1>1, <1>2, <1>3, <1>4, <1>6, BeginKeeps DEF Starts

\* merge_clusters, which has found target and sources.
LEMMA MergeBegins ==
  ASSUME RCInv, NEW p \in Conns, NEW c \in ClusterIds, NEW o \in Owners,
         NEW sources \in SUBSET ClusterIds, MergeInto(p, o, c, sources)
  PROVE  RCInv'
<1> DEFINE tx == [NoTxn EXCEPT !.op = "merge", !.pc = "loop", !.owner = o, !.cluster = c,
                               !.ids = sources]
<1>1. Starts(tx, "merge", "loop") /\ tx.owner = o /\ tx.cluster = c /\ tx.ids = sources
  BY DEF Starts, NoTxn, Fields, HoldsNothing
<1>2. Begin(p, tx) /\ Owned(c, o) /\ c \notin sources
  BY DEF MergeInto
<1> HIDE DEF tx
<1>3. Doing(tx) /\ tx.gone = {} /\ tx.share = {}
  BY <1>1, StartsFacts
<1>4. Course(tx)
  BY <1>1, <1>2, <1>3 DEF Course, MergeCourse, Starts
<1>5. Live \subseteq minted
  BY DEF RCInv, TypeInv, TypeOK
<1>6. Remembers(tx)
  BY <1>1, <1>2, <1>5 DEF Remembers, Checked, Owned, Starts
<1>7. QED
  BY <1>1, <1>2, <1>3, <1>4, <1>6, BeginKeeps DEF Starts

\* The transactions that begin by unlinking samples.
LEMMA RemovalBegins ==
  ASSUME RCInv, NEW p \in Conns,
         \/ \E c \in ClusterIds, o \in Owners : DeleteCluster(p, c, o)
         \/ \E c \in ClusterIds, s \in Streams, o \in Owners : DetachCluster(p, c, s, o)
         \/ \E s \in Streams : CascadeOf(p, s)
  PROVE  RCInv'
<1>1. ASSUME NEW tx, NEW op \in {"delete", "detach", "cascade"}, Starts(tx, op, "unlink"),
             Begin(p, tx)
      PROVE  RCInv'
  <2>1. Doing(tx) /\ tx.gone = {} /\ tx.share = {}
    BY <1>1, StartsFacts
  <2>2. Course(tx)
    BY <1>1, <2>1 DEF Course, DeleteCourse, DetachCourse, CascadeCourse, Starts
  <2>3. Remembers(tx)
    BY <1>1 DEF Remembers, Starts
  <2>4. QED
    BY <1>1, <2>1, <2>2, <2>3, BeginKeeps DEF Starts
<1>2. ASSUME NEW c, NEW o, DeleteCluster(p, c, o) PROVE RCInv'
  <2> DEFINE tx == [NoTxn EXCEPT !.op = "delete", !.pc = "unlink", !.owner = o, !.cur = c]
  <2>1. Starts(tx, "delete", "unlink") /\ Begin(p, tx)
    BY <1>2 DEF DeleteCluster, Starts, NoTxn, Fields, HoldsNothing
  <2> HIDE DEF tx
  <2>2. QED
    BY <1>1, <2>1
<1>3. ASSUME NEW c, NEW s, NEW o, DetachCluster(p, c, s, o) PROVE RCInv'
  <2> DEFINE tx == [NoTxn EXCEPT !.op = "detach", !.pc = "unlink", !.owner = o, !.cluster = c,
                                 !.stream = s, !.cur = c]
  <2>1. Starts(tx, "detach", "unlink") /\ Begin(p, tx)
    BY <1>3 DEF DetachCluster, Starts, NoTxn, Fields, HoldsNothing
  <2> HIDE DEF tx
  <2>2. QED
    BY <1>1, <2>1
<1>4. ASSUME NEW s, CascadeOf(p, s) PROVE RCInv'
  <2> DEFINE touched == {x.cluster : x \in OccIn(occ, s)}
             tx == [NoTxn EXCEPT !.op = "cascade", !.pc = "unlink", !.stream = s,
                                 !.ids = touched]
  <2>1. Starts(tx, "cascade", "unlink") /\ Begin(p, tx)
    BY <1>4 DEF CascadeOf, Starts, NoTxn, Fields, HoldsNothing
  <2> HIDE DEF tx
  <2>2. QED
    BY <1>1, <2>1
<1>5. QED
  BY <1>2, <1>3, <1>4

\* set_cluster_crop and update_cluster_centroid.
LEMMA UpdateBegins ==
  ASSUME RCInv, NEW p \in Conns, NEW c \in ClusterIds, NEW o \in Owners,
         CropOf(p, c, o) \/ \E v \in Centroids : CentroidOf(p, c, o, v)
  PROVE  RCInv'
<1>1. ASSUME NEW tx, NEW op \in {"crop", "centroid"}, Starts(tx, op, "update"), Begin(p, tx),
             op = "centroid" => tx.value \in Centroids
      PROVE  RCInv'
  <2>1. Doing(tx) /\ tx.gone = {} /\ tx.share = {}
    BY <1>1, StartsFacts
  <2>2. Course(tx)
    BY <1>1, <2>1 DEF Course, FieldCourse, Starts
  <2>3. Remembers(tx)
    BY <1>1 DEF Remembers, Starts
  <2>4. QED
    BY <1>1, <2>1, <2>2, <2>3, BeginKeeps DEF Starts
<1>2. ASSUME CropOf(p, c, o) PROVE RCInv'
  <2> DEFINE tx == [NoTxn EXCEPT !.op = "crop", !.pc = "update", !.owner = o, !.cluster = c]
  <2>1. Starts(tx, "crop", "update") /\ Begin(p, tx)
    BY <1>2 DEF CropOf, Starts, NoTxn, Fields, HoldsNothing
  <2> HIDE DEF tx
  <2>2. QED
    BY <1>1, <2>1
<1>3. ASSUME NEW v \in Centroids, CentroidOf(p, c, o, v) PROVE RCInv'
  <2> DEFINE tx == [NoTxn EXCEPT !.op = "centroid", !.pc = "update", !.owner = o,
                                 !.cluster = c, !.value = v]
  <2>1. Starts(tx, "centroid", "update") /\ Begin(p, tx) /\ tx.value \in Centroids
    BY <1>3 DEF CentroidOf, Starts, NoTxn, Fields, HoldsNothing
  <2> HIDE DEF tx
  <2>2. QED
    BY <1>1, <2>1
<1>4. QED
  BY <1>2, <1>3

(***************************************************************************)
(* Steps that write.                                                       *)
(***************************************************************************)

\* A row nobody else writes, when a statement need not wait for it.
LEMMA NotWritten ==
  ASSUME RCInv, NEW p \in Conns, NEW c, ForUpdate(p, c) = {}, NEW q \in Conns \ {p}
  PROVE  c \notin DOMAIN txn[q].put \cup txn[q].gone
<1>1. CASE Open(q)
  BY <1>1 DEF ForUpdate, Others, Writes
<1>2. CASE ~Open(q)
  <2>1. HoldsNothing(txn[q])
    BY <1>2 DEF RCInv, Valid, Course, Open, Closed, AppendCourse, DeleteCourse,
       DetachCourse, CascadeCourse, MergeCourse, RenameCourse, FieldCourse
  <2>2. QED
    BY <2>1 DEF HoldsNothing, NoRows
<1>3. QED
  BY <1>1, <1>2

\* A row nobody else has deleted, when an INSERT may refer to it.
LEMMA NotGone ==
  ASSUME RCInv, NEW p \in Conns, NEW c, ForShare(p, c) = {}, NEW q \in Conns \ {p}
  PROVE  c \notin txn[q].gone
<1>1. CASE Open(q)
  BY <1>1 DEF ForShare, Others
<1>2. CASE ~Open(q)
  <2>1. HoldsNothing(txn[q])
    BY <1>2 DEF RCInv, Valid, Course, Open, Closed, AppendCourse, DeleteCourse,
       DetachCourse, CascadeCourse, MergeCourse, RenameCourse, FieldCourse
  <2>2. QED
    BY <2>1 DEF HoldsNothing, NoRows
<1>3. QED
  BY <1>1, <1>2

\* What one transaction's version of a row says.
LEMMA VersionFacts ==
  ASSUME RCInv, NEW p \in Conns, NEW c \in Live
  PROVE  /\ Version(p, c) \in Row /\ Version(p, c).owner = rows[c].owner
         /\ Version(p, c) \in Versions(c)
<1>1. rows[c] \in Row
  BY DEF RCInv, TypeInv, TypeOK
<1>2. CASE c \in DOMAIN txn[p].put
  BY <1>2 DEF Version, Versions, RCInv, Valid, Wrote, Secured
<1>3. CASE c \notin DOMAIN txn[p].put
  BY <1>1, <1>3 DEF Version, Versions
<1>4. QED
  BY <1>2, <1>3

\* A step that writes the row c, and no other one.
LEMMA PutKeeps ==
  ASSUME RCInv, NEW p \in Conns, NEW tx, Step(p, tx), NEW c, ForUpdate(p, c) = {},
         c \notin txn[p].gone,
         tx.gone = txn[p].gone, tx.ins = txn[p].ins, tx.share = txn[p].share,
         tx.del = txn[p].del,
         DOMAIN tx.put \subseteq DOMAIN txn[p].put \cup {c}, DOMAIN tx.put \subseteq Live,
         tx.put \in [DOMAIN tx.put -> Row],
         \A k \in DOMAIN tx.put : tx.put[k].owner = rows[k].owner,
         DOMAIN tx = Fields, Course(tx), Doing(tx), Remembers(tx), NamesApart'
  PROVE  RCInv'
<1>1. Valid(txn[p]) /\ Secured(txn[p]) /\ Turns(p, tx)
  BY StepTurns DEF RCInv
<1>2. Wrote(tx)
  BY <1>1 DEF Valid, Wrote
<1>3. Secured(tx)
  BY <1>1 DEF Secured
<1>4. ASSUME NEW q \in Conns \ {p} PROVE Apart(tx, txn[q])
  <2>1. Apart(txn[p], txn[q]) /\ c \notin DOMAIN txn[q].put \cup txn[q].gone
    BY NotWritten DEF RCInv
  <2>2. QED
    BY <2>1 DEF Apart
<1>5. QED
  BY <1>1, <1>2, <1>3, <1>4, TurnKeeps DEF Valid

\* A step that inserts the sample x.
LEMMA InsertKeepsAll ==
  ASSUME RCInv, NEW p \in Conns, NEW tx, Step(p, tx), NEW x \in Sample,
         ForShare(p, x.cluster) = {}, x.cluster \in Live \ txn[p].gone,
         x.owner = rows[x.cluster].owner,
         tx.put = txn[p].put, tx.gone = txn[p].gone, tx.del = txn[p].del,
         tx.ins = txn[p].ins \cup {x}, tx.share = txn[p].share \cup {x.cluster},
         DOMAIN tx = Fields, Course(tx), Doing(tx), Remembers(tx)
  PROVE  RCInv'
<1>1. Valid(txn[p]) /\ Secured(txn[p]) /\ Turns(p, tx)
  BY StepTurns DEF RCInv
<1>2. IsFiniteSet(txn[p].ins \cup {x})
  BY <1>1, FS_AddElement DEF Valid, Wrote
<1>3. Wrote(tx)
  BY <1>1, <1>2 DEF Valid, Wrote
<1>4. Secured(tx)
  BY <1>1 DEF Secured
<1>5. ASSUME NEW q \in Conns \ {p} PROVE Apart(tx, txn[q])
  <2>1. Apart(txn[p], txn[q]) /\ x.cluster \notin txn[q].gone
    BY NotGone DEF RCInv
  <2>2. QED
    BY <2>1 DEF Apart
<1>6. NamesApart'
  <2>1. DOMAIN tx.put \subseteq Live /\ \A c \in DOMAIN tx.put : tx.put[c] \in Versions(c)
    BY <1>1 DEF Secured, Versions
  <2>2. QED
    BY <1>1, <2>1, NamesKept
<1>7. QED
  BY <1>1, <1>3, <1>4, <1>5, <1>6, TurnKeeps DEF Valid

\* One row of the count UPDATE, or its end.
LEMMA CountRowKeeps ==
  ASSUME RCInv, NEW p \in Conns, CountRow(p)
  PROVE  RCInv'
<1> DEFINE me == txn[p]
<1>1. Valid(me) /\ Secured(me) /\ Remembers(me) /\ me.pc = "counting" /\ DOMAIN me = Fields
  BY DEF RCInv, CountRow, At, Valid
<1>2. /\ me.todo \subseteq ClusterIds \ me.gone /\ \A c \in me.todo : me.snap[c] \in Nat
      /\ \A s \in DOMAIN me.taken : me.taken[s] \subseteq Nat /\ IsFiniteSet(me.taken[s])
  BY <1>1 DEF Valid, Doing
<1>3. ASSUME NEW c \in me.todo, ForUpdate(p, c) = {},
             Step(p, [me EXCEPT !.todo = @ \ {c},
                 !.put = [k \in DOMAIN @ \cup ({c} \cap Live) |->
                            IF k = c THEN [Version(p, c) EXCEPT !.samples = me.snap[c]]
                                     ELSE @[k]]])
      PROVE  RCInv'
  <2> DEFINE row == [Version(p, c) EXCEPT !.samples = me.snap[c]]
             put == [k \in DOMAIN me.put \cup ({c} \cap Live) |->
                       IF k = c THEN row ELSE me.put[k]]
             tx == [me EXCEPT !.todo = @ \ {c}, !.put = put]
  <2>1. DOMAIN me.put \subseteq Live
    BY <1>1 DEF Secured
  <2>2. c \in Live => row \in Row /\ row.owner = rows[c].owner /\ row.name = Version(p, c).name
    BY <1>2, VersionFacts DEF Row
  <2>3. put \in [DOMAIN put -> Row] /\ DOMAIN put = DOMAIN me.put \cup ({c} \cap Live)
    BY <1>1, <2>1, <2>2 DEF Valid, Wrote
  <2>4. ASSUME NEW k \in DOMAIN put
        PROVE  /\ put[k].owner = rows[k].owner
               /\ \E v \in Versions(k) : v.owner = put[k].owner /\ v.name = put[k].name
    <3>1. CASE k = c
      BY <2>1, <2>2, <2>3, <3>1, VersionFacts
    <3>2. CASE k # c
      BY <1>1, <2>3, <3>2 DEF Secured, Versions
    <3>3. QED
      BY <3>1, <3>2
  <2>5. /\ DOMAIN tx = Fields /\ tx.todo = me.todo \ {c} /\ tx.put = put
        /\ \A f \in Fields \ {"put", "todo"} : tx[f] = me[f]
    BY <1>1 DEF Fields
  <2>6. Step(p, tx)
    BY <1>3
  <2> HIDE DEF tx, put, row
  <2>7. /\ tx.op = me.op /\ tx.owner = me.owner /\ tx.cluster = me.cluster /\ tx.pc = me.pc
        /\ tx.ids = me.ids /\ tx.cur = me.cur /\ tx.value = me.value /\ tx.stream = me.stream
        /\ tx.gone = me.gone /\ tx.share = me.share /\ tx.taken = me.taken
        /\ tx.ins = me.ins /\ tx.del = me.del /\ tx.snap = me.snap
    BY <2>5 DEF Fields
  <2>8. Course(tx)
    BY <1>1, <2>7 DEF Valid, Course, Closed, AppendCourse, DeleteCourse,
         DetachCourse, CascadeCourse, MergeCourse, RenameCourse, FieldCourse
  <2>9. Doing(tx) /\ Remembers(tx)
    BY <1>1, <1>2, <2>5, <2>7 DEF Doing, Remembers
  <2>10. DOMAIN tx.put \subseteq DOMAIN me.put \cup {c} /\ DOMAIN tx.put \subseteq Live
    BY <2>1, <2>3, <2>5
  <2>11. NamesApart'
    BY <2>4, <2>5, <2>6, <2>10, StepTurns, NamesKept
  <2>12. QED
    BY <1>2, <1>3, <2>3, <2>4, <2>5, <2>6, <2>7, <2>8, <2>9, <2>10, <2>11, PutKeeps
<1>4. ASSUME me.todo = {}, Step(p, [me EXCEPT !.pc = AfterCount(me.op), !.snap = NoRows])
      PROVE  RCInv'
  <2> DEFINE tx == [me EXCEPT !.pc = AfterCount(me.op), !.snap = NoRows]
  <2>1. /\ DOMAIN tx = Fields /\ tx.pc = AfterCount(me.op)
        /\ \A f \in Fields \ {"pc", "snap"} : tx[f] = me[f]
    BY <1>1 DEF Fields
  <2>2. Step(p, tx)
    BY <1>4
  <2> HIDE DEF tx
  <2>3. /\ tx.op = me.op /\ tx.owner = me.owner /\ tx.cluster = me.cluster /\ tx.todo = {}
        /\ tx.ids = me.ids /\ tx.cur = me.cur /\ tx.value = me.value /\ tx.stream = me.stream
        /\ tx.gone = me.gone /\ tx.share = me.share /\ tx.taken = me.taken
        /\ SameWrites(tx, me)
    BY <1>1, <1>4, <2>1 DEF Fields, SameWrites, Valid, Wrote
  <2>4. tx.pc = IF me.op \in {"detach", "cascade"} THEN "drop" ELSE "commit"
    BY <2>1 DEF AfterCount
  <2>5. Course(tx)
    BY <1>1, <2>3, <2>4 DEF Valid, Course, Closed, AppendCourse, DeleteCourse,
         DetachCourse, CascadeCourse, MergeCourse, RenameCourse, FieldCourse
  <2>6. Doing(tx) /\ Remembers(tx)
    BY <1>2, <2>3, <2>4 DEF Doing, Remembers
  <2>7. QED
    BY <2>1, <2>2, <2>3, <2>5, <2>6, LookKeeps
<1>5. QED
  BY <1>3, <1>4 DEF CountRow

\* The one UPDATE of a crop key or a centroid.
LEMMA UpdateKeeps ==
  ASSUME RCInv, NEW p \in Conns, Update(p)
  PROVE  RCInv'
<1> DEFINE me == txn[p]
           D == {c \in {me.cluster} : Owned(c, me.owner)}
           put == [k \in D |-> Updated(me, rows[k])]
           tx == [me EXCEPT !.pc = "commit", !.put = put]
<1>1. /\ Valid(me) /\ Secured(me) /\ Remembers(me) /\ me.pc = "update" /\ DOMAIN me = Fields
      /\ ForUpdate(p, me.cluster) = {} /\ Step(p, tx)
  BY DEF RCInv, Update, At, Valid
<1>2. me.op \in {"crop", "centroid"} /\ FieldCourse(me) /\ me.todo = {} /\ Doing(me)
  BY <1>1 DEF Valid, Doing, Course, Closed, AppendCourse, DeleteCourse,
       DetachCourse, CascadeCourse, MergeCourse, RenameCourse
<1>3. D \subseteq Live /\ D \subseteq {me.cluster} /\ DOMAIN put = D
  BY DEF Owned
<1>4. ASSUME NEW k \in D
      PROVE  put[k] \in Row /\ put[k].owner = rows[k].owner /\ put[k].name = rows[k].name
  <2>1. rows[k] \in Row
    BY <1>3 DEF RCInv, TypeInv, TypeOK
  <2>2. QED
    BY <1>2, <2>1 DEF Updated, FieldCourse, Row
<1>5. /\ DOMAIN tx = Fields /\ tx.pc = "commit" /\ tx.put = put
      /\ \A f \in Fields \ {"put", "pc"} : tx[f] = me[f]
  BY <1>1 DEF Fields
<1>6. put \in [D -> Row]
  BY <1>4
<1> HIDE DEF tx, put, D
<1>7. /\ tx.op = me.op /\ tx.owner = me.owner /\ tx.cluster = me.cluster
      /\ tx.value = me.value /\ tx.gone = me.gone /\ tx.share = me.share
      /\ tx.taken = me.taken /\ tx.todo = me.todo /\ tx.ins = me.ins /\ tx.del = me.del
  BY <1>5 DEF Fields
<1>8. Course(tx)
  BY <1>2, <1>5, <1>7 DEF Course, FieldCourse
<1>9. Doing(tx) /\ Remembers(tx)
  BY <1>1, <1>2, <1>5, <1>7 DEF Doing, Remembers
<1>10. NamesApart'
  <2>1. \A k \in DOMAIN tx.put : rows[k] \in Versions(k)
    BY DEF Versions
  <2>2. QED
    BY <1>1, <1>3, <1>4, <1>5, <2>1, StepTurns, NamesKept
<1>11. me.cluster \notin me.gone
  BY <1>2 DEF FieldCourse
<1>12. QED
  BY <1>1, <1>3, <1>4, <1>5, <1>6, <1>7, <1>8, <1>9, <1>10, <1>11, PutKeeps

\* A name nobody else writes or frees, when the unique index lets it in.
LEMMA NameNotWritten ==
  ASSUME RCInv, NEW p \in Conns, NEW o, NEW n, n # NoName, ForName(p, o, n) = {},
         NEW q \in Conns \ {p}, NEW k \in DOMAIN txn[q].put
  PROVE  ~(txn[q].put[k].owner = o /\ txn[q].put[k].name = n)
<1>1. CASE Open(q)
  BY <1>1 DEF ForName, Others
<1>2. CASE ~Open(q)
  <2>1. HoldsNothing(txn[q])
    BY <1>2 DEF RCInv, Valid, Course, Open, Closed, AppendCourse, DeleteCourse,
       DetachCourse, CascadeCourse, MergeCourse, RenameCourse, FieldCourse
  <2>2. QED
    BY <2>1 DEF HoldsNothing, NoRows
<1>3. QED
  BY <1>1, <1>2

\* The UPDATE of a name, or the error of the unique index.
LEMMA SetNameKeeps ==
  ASSUME RCInv, NEW p \in Conns, SetName(p)
  PROVE  RCInv'
<1> DEFINE me == txn[p]
           c == me.cluster
           D == {c} \cap Live
           put == [k \in D |-> [rows[k] EXCEPT !.name = me.value]]
           tx == [me EXCEPT !.pc = "commit", !.put = put]
<1>1. /\ Valid(me) /\ Secured(me) /\ Remembers(me) /\ me.pc = "name" /\ DOMAIN me = Fields
      /\ ForUpdate(p, c) = {} /\ ForName(p, me.owner, me.value) = {}
  BY DEF RCInv, SetName, At, Valid
<1>2. me.op = "rename" /\ RenameCourse(me) /\ me.todo = {} /\ Doing(me)
  BY <1>1 DEF Valid, Doing, Course, Closed, AppendCourse, DeleteCourse,
       DetachCourse, CascadeCourse, MergeCourse, FieldCourse
<1>3. CASE Rollback(p)
  BY <1>3, RollbackKeeps
<1>4. ASSUME ~(c \in Live /\ NameTaken(c, me.owner, me.value)), Step(p, tx)
      PROVE  RCInv'
  <2>1. \A k \in D : /\ put[k] \in Row /\ put[k].owner = rows[k].owner
                     /\ put[k].owner = me.owner /\ put[k].name = me.value
    <3>1. \A k \in D : rows[k] \in Row /\ rows[k].owner = me.owner
      BY <1>1, <1>2 DEF RCInv, TypeInv, TypeOK, Remembers, Checked
    <3>2. QED
      BY <1>2, <3>1 DEF RenameCourse, Row
  <2>2. put \in [D -> Row] /\ DOMAIN put = D
    BY <2>1
  <2>3. /\ DOMAIN tx = Fields /\ tx.pc = "commit" /\ tx.put = put
        /\ \A f \in Fields \ {"put", "pc"} : tx[f] = me[f]
    BY <1>1 DEF Fields
  <2>4. Step(p, tx) /\ D \subseteq Live /\ D \subseteq {c}
    BY <1>4
  <2> HIDE DEF tx, put
  <2>5. /\ tx.op = me.op /\ tx.owner = me.owner /\ tx.cluster = me.cluster
        /\ tx.value = me.value /\ tx.gone = me.gone /\ tx.share = me.share
        /\ tx.taken = me.taken /\ tx.todo = me.todo /\ tx.ins = me.ins /\ tx.del = me.del
    BY <2>3 DEF Fields
  <2>6. Course(tx)
    BY <1>2, <2>3, <2>5 DEF Course, RenameCourse
  <2>7. Doing(tx) /\ Remembers(tx)
    BY <1>1, <1>2, <2>3, <2>5 DEF Doing, Remembers
  <2>8. NamesApart'
    <3>1. rows' = rows /\ Live' = Live /\ txn'[p] = tx
          /\ \A q \in Conns \ {p} : txn'[q] = txn[q]
      BY <2>4 DEF Step, libvars, Live, RCInv
    \* A version is an old one, or the row that gets its name
    <3>2. ASSUME NEW k \in Live, NEW v, v \in Versions(k)'
          PROVE  \/ v = rows[k]
                 \/ \E q \in Conns \ {p} : k \in DOMAIN txn[q].put /\ v = txn[q].put[k]
                 \/ k = c /\ v.owner = me.owner /\ v.name = me.value
      <4>1. v = rows[k] \/ \E q \in Conns : k \in DOMAIN txn'[q].put /\ v = txn'[q].put[k]
        BY <3>1, <3>2 DEF Versions
      <4>2. QED
        BY <2>1, <2>2, <2>3, <2>4, <3>1, <4>1
    \* Nobody else has or gets that name
    <3>3. ASSUME NEW k \in Live, k # c, c \in Live, me.value # NoName, NEW w,
                 \/ w = rows[k]
                 \/ \E q \in Conns \ {p} : k \in DOMAIN txn[q].put /\ w = txn[q].put[k]
          PROVE  ~(w.owner = me.owner /\ w.name = me.value)
      <4>1. CASE w = rows[k]
        BY <1>4, <3>3, <4>1 DEF NameTaken
      <4>2. CASE \E q \in Conns \ {p} : k \in DOMAIN txn[q].put /\ w = txn[q].put[k]
        BY <1>1, <3>3, <4>2, NameNotWritten
      <4>3. QED
        BY <3>3, <4>1, <4>2
    <3>4. ASSUME NEW k \in Live, NEW v,
                 \/ v = rows[k]
                 \/ \E q \in Conns \ {p} : k \in DOMAIN txn[q].put /\ v = txn[q].put[k]
          PROVE  v \in Versions(k)
      BY <3>4 DEF Versions
    <3>5. ASSUME NEW k \in Live, NEW j \in Live, NEW v, NEW w,
                 v \in Versions(k)', w \in Versions(j)', SameName(v, w), k # j
          PROVE  FALSE
      <4>1. CASE k = c /\ v.owner = me.owner /\ v.name = me.value
        BY <3>2, <3>3, <3>5, <4>1 DEF SameName
      <4>2. CASE j = c /\ w.owner = me.owner /\ w.name = me.value
        BY <3>2, <3>3, <3>5, <4>2 DEF SameName
      <4>3. CASE v \in Versions(k) /\ w \in Versions(j)
        BY <3>5, <4>3 DEF RCInv, NamesApart
      <4>4. QED
        BY <3>2, <3>4, <3>5, <4>1, <4>2, <4>3
    <3>6. QED
      BY <3>1, <3>5 DEF NamesApart
  <2>9. c \notin me.gone
    BY <1>2 DEF RenameCourse
  <2>10. QED
    BY <1>1, <2>1, <2>2, <2>3, <2>4, <2>5, <2>6, <2>7, <2>8, <2>9, PutKeeps
<1>5. QED
  BY <1>3, <1>4 DEF SetName

\* One item of append_stream_occurrences, or the end of the loop.
LEMMA InsertKeeps ==
  ASSUME RCInv, NEW p \in Conns, Insert(p)
  PROVE  RCInv'
<1> DEFINE me == txn[p]
<1>1. /\ Valid(me) /\ Secured(me) /\ Remembers(me) /\ me.pc = "insert" /\ DOMAIN me = Fields
  BY DEF RCInv, Insert, At, Valid
<1>2. me.op = "append" /\ AppendCourse(me) /\ me.todo = {} /\ Doing(me)
  BY <1>1 DEF Valid, Doing, Course, Closed, RenameCourse, DeleteCourse,
       DetachCourse, CascadeCourse, MergeCourse, FieldCourse
<1>3. ASSUME NEW i \in me.ids, Step(p, [me EXCEPT !.ids = @ \ {i}])
      PROVE  RCInv'
  <2> DEFINE tx == [me EXCEPT !.ids = @ \ {i}]
  <2>1. /\ DOMAIN tx = Fields /\ tx.ids = me.ids \ {i}
        /\ \A f \in Fields \ {"ids"} : tx[f] = me[f]
    BY <1>1 DEF Fields
  <2>2. Step(p, tx)
    BY <1>3
  <2> HIDE DEF tx
  <2>3. /\ tx.op = "append" /\ tx.owner = me.owner /\ tx.pc = "insert"
        /\ tx.stream = me.stream /\ tx.gone = me.gone /\ tx.todo = me.todo
        /\ tx.taken = me.taken /\ SameWrites(tx, me)
    BY <1>1, <1>2, <2>1 DEF Fields, SameWrites, Valid, Wrote
  <2>4. AppendCourse(tx) /\ Doing(tx) /\ Remembers(tx)
    BY <1>1, <1>2, <2>1, <2>3 DEF AppendCourse, Doing, Remembers, Checked
  <2>5. QED
    BY <2>1, <2>2, <2>3, <2>4, LookKeeps DEF Course
<1>4. ASSUME NEW i \in me.ids, i[1] \in Live, ForShare(p, i[1]) = {},
             Step(p, [me EXCEPT !.ids = @ \ {i},
                                !.ins = @ \cup {Occurrence(me.stream, i[1], i[2], me.owner)},
                                !.share = @ \cup {i[1]}])
      PROVE  RCInv'
  <2> DEFINE x == Occurrence(me.stream, i[1], i[2], me.owner)
             tx == [me EXCEPT !.ids = @ \ {i}, !.ins = @ \cup {x}, !.share = @ \cup {i[1]}]
  <2>1. i[1] \in ClusterIds /\ i[2] \in Nat
    BY <1>2, TimesAssumption DEF AppendCourse
  <2>2. x \in Sample /\ x.cluster = i[1] /\ x.owner = me.owner
    BY <1>2, <2>1 DEF Occurrence, Sample, AppendCourse
  <2>3. x.owner = rows[x.cluster].owner
    BY <1>1, <1>4, <2>2 DEF Remembers, Checked
  <2>4. /\ DOMAIN tx = Fields /\ tx.ids = me.ids \ {i} /\ tx.ins = me.ins \cup {x}
        /\ tx.share = me.share \cup {i[1]}
        /\ \A f \in Fields \ {"ids", "ins", "share"} : tx[f] = me[f]
    BY <1>1 DEF Fields
  <2>5. Step(p, tx)
    BY <1>4
  <2> HIDE DEF tx, x
  <2>6. /\ tx.op = "append" /\ tx.owner = me.owner /\ tx.pc = "insert"
        /\ tx.stream = me.stream /\ tx.gone = me.gone /\ tx.todo = me.todo
        /\ tx.taken = me.taken /\ tx.put = me.put /\ tx.del = me.del
    BY <1>1, <1>2, <2>4 DEF Fields
  <2>7. AppendCourse(tx) /\ Doing(tx) /\ Remembers(tx)
    BY <1>1, <1>2, <2>4, <2>6 DEF AppendCourse, Doing, Remembers, Checked
  <2>8. i[1] \notin me.gone
    BY <1>2 DEF AppendCourse
  <2>9. QED
    BY <1>4, <2>2, <2>3, <2>4, <2>5, <2>6, <2>7, <2>8, InsertKeepsAll DEF Course
<1>5. ASSUME me.ids = {}, Step(p, [me EXCEPT !.pc = "count"])
      PROVE  RCInv'
  <2> DEFINE tx == [me EXCEPT !.pc = "count"]
  <2>1. /\ DOMAIN tx = Fields /\ tx.pc = "count"
        /\ \A f \in Fields \ {"pc"} : tx[f] = me[f]
    BY <1>1 DEF Fields
  <2>2. Step(p, tx)
    BY <1>5
  <2> HIDE DEF tx
  <2>3. /\ tx.op = "append" /\ tx.owner = me.owner /\ tx.ids = me.ids
        /\ tx.stream = me.stream /\ tx.gone = me.gone /\ tx.todo = me.todo
        /\ tx.taken = me.taken /\ SameWrites(tx, me)
    BY <1>1, <1>2, <2>1 DEF Fields, SameWrites, Valid, Wrote
  <2>4. AppendCourse(tx) /\ Doing(tx) /\ Remembers(tx)
    BY <1>1, <1>2, <2>1, <2>3 DEF AppendCourse, Doing, Remembers, Checked
  <2>5. QED
    BY <2>1, <2>2, <2>3, <2>4, LookKeeps DEF Course
<1>6. QED
  BY <1>3, <1>4, <1>5, RollbackKeeps DEF Insert

\* One sample of a merge is inserted at the target, or all are.
LEMMA MoveKeeps ==
  ASSUME RCInv, NEW p \in Conns, Move(p)
  PROVE  RCInv'
<1> DEFINE me == txn[p]
<1>1. /\ Valid(me) /\ Secured(me) /\ Remembers(me) /\ me.pc = "move" /\ DOMAIN me = Fields
  BY DEF RCInv, Move, At, Valid
<1>2. me.op = "merge" /\ MergeCourse(me) /\ me.todo \subseteq Sample /\ Doing(me)
  BY <1>1 DEF Valid, Doing, Course, Closed, RenameCourse, DeleteCourse,
       DetachCourse, CascadeCourse, AppendCourse, FieldCourse
<1>3. ASSUME NEW x \in me.todo, x.stream \in DOMAIN me.taken, NEW t,
             t = Nudged(x.t, me.taken[x.stream]),
             ForShare(p, me.cluster) = {}, me.cluster \in Live,
             Step(p, [me EXCEPT !.todo = @ \ {x},
                                !.ins = @ \cup {Occurrence(x.stream, me.cluster, t, me.owner)},
                                !.share = @ \cup {me.cluster},
                                !.taken[x.stream] = @ \cup {t}])
      PROVE  RCInv'
  <2> DEFINE y == Occurrence(x.stream, me.cluster, t, me.owner)
             ticks == [me.taken EXCEPT ![x.stream] = @ \cup {t}]
             tx == [me EXCEPT !.todo = @ \ {x}, !.ins = @ \cup {y},
                              !.share = @ \cup {me.cluster}, !.taken[x.stream] = @ \cup {t}]
  <2>1. x \in Sample /\ me.taken[x.stream] \subseteq Nat /\ IsFiniteSet(me.taken[x.stream])
    BY <1>2, <1>3 DEF Doing
  <2>2. t \in Nat
    BY <1>3, <2>1, NudgedFacts DEF Sample
  <2>3. me.cluster \in ClusterIds /\ me.owner = rows[me.cluster].owner
    BY <1>1, <1>2, <1>3 DEF RCInv, TypeInv, TypeOK, Remembers, Checked
  <2>4. y \in Sample /\ y.cluster = me.cluster /\ y.owner = me.owner
    BY <1>2, <2>1, <2>2, <2>3 DEF Occurrence, Sample, MergeCourse
  <2>5. \A s \in DOMAIN ticks : ticks[s] \subseteq Nat /\ IsFiniteSet(ticks[s])
    <3>1. IsFiniteSet(me.taken[x.stream] \cup {t})
      BY <2>1, FS_AddElement
    <3>2. QED
      BY <1>2, <2>1, <2>2, <3>1 DEF Doing
  <2>6. /\ DOMAIN tx = Fields /\ tx.todo = me.todo \ {x} /\ tx.ins = me.ins \cup {y}
        /\ tx.share = me.share \cup {me.cluster} /\ tx.taken = ticks
        /\ \A f \in Fields \ {"todo", "ins", "share", "taken"} : tx[f] = me[f]
    BY <1>1 DEF Fields
  <2>7. Step(p, tx)
    BY <1>3
  <2> HIDE DEF tx, y, ticks
  <2>8. /\ tx.op = "merge" /\ tx.owner = me.owner /\ tx.pc = "move"
        /\ tx.cluster = me.cluster /\ tx.gone = me.gone /\ tx.ids = me.ids
        /\ tx.cur = me.cur /\ tx.put = me.put /\ tx.del = me.del
    BY <1>1, <1>2, <2>6 DEF Fields
  <2>9. MergeCourse(tx) /\ Doing(tx) /\ Remembers(tx)
    BY <1>1, <1>2, <2>5, <2>6, <2>8 DEF MergeCourse, Doing, Remembers, Checked
  <2>10. me.cluster \notin me.gone
    BY <1>2 DEF MergeCourse
  <2>11. QED
    BY <1>3, <2>3, <2>4, <2>6, <2>7, <2>8, <2>9, <2>10, InsertKeepsAll DEF Course
<1>4. ASSUME me.todo = {}, Step(p, [me EXCEPT !.pc = "unlink"])
      PROVE  RCInv'
  <2> DEFINE tx == [me EXCEPT !.pc = "unlink"]
  <2>1. /\ DOMAIN tx = Fields /\ tx.pc = "unlink"
        /\ \A f \in Fields \ {"pc"} : tx[f] = me[f]
    BY <1>1 DEF Fields
  <2>2. Step(p, tx)
    BY <1>4
  <2> HIDE DEF tx
  <2>3. /\ tx.op = "merge" /\ tx.owner = me.owner /\ tx.ids = me.ids
        /\ tx.cluster = me.cluster /\ tx.cur = me.cur /\ tx.gone = me.gone
        /\ tx.todo = me.todo /\ tx.share = me.share
        /\ tx.taken = me.taken /\ SameWrites(tx, me)
    BY <1>1, <1>2, <2>1 DEF Fields, SameWrites, Valid, Wrote
  <2>4. MergeCourse(tx) /\ Doing(tx) /\ Remembers(tx)
    BY <1>1, <1>2, <1>4, <2>1, <2>3 DEF MergeCourse, Doing, Remembers, Checked
  <2>5. QED
    BY <2>1, <2>2, <2>3, <2>4, LookKeeps DEF Course
<1>5. QED
  BY <1>3, <1>4, RollbackKeeps DEF Move

\* What nobody else refers to or is about to take samples from, when a DELETE
\* need not wait.
LEMMA NotShared ==
  ASSUME RCInv, NEW p \in Conns, NEW c, ForDelete(p, c) = {}, NEW q \in Conns \ {p}
  PROVE  c \notin DOMAIN txn[q].put \cup txn[q].gone \cup txn[q].share
<1>1. CASE Open(q)
  BY <1>1 DEF ForDelete, Others, Writes
<1>2. CASE ~Open(q)
  <2>1. HoldsNothing(txn[q])
    BY <1>2 DEF RCInv, Valid, Course, Open, Closed, AppendCourse, DeleteCourse,
       DetachCourse, CascadeCourse, MergeCourse, RenameCourse, FieldCourse
  <2>2. QED
    BY <2>1 DEF HoldsNothing, NoRows
<1>3. QED
  BY <1>1, <1>2

\* The DELETE of a cluster and, by the foreign key, of its samples.
LEMMA DropKeeps ==
  ASSUME RCInv, NEW p \in Conns, Drop(p)
  PROVE  RCInv'
<1> DEFINE me == txn[p]
           c == me.cur
<1>1. /\ Valid(me) /\ Secured(me) /\ Remembers(me) /\ me.pc = "drop" /\ DOMAIN me = Fields
  BY DEF RCInv, Drop, At, Valid
<1>2. me.op \in {"delete", "detach", "cascade", "merge"} /\ me.todo = {} /\ Doing(me)
  BY <1>1 DEF Valid, Doing, Course, Closed, RenameCourse, AppendCourse, FieldCourse
<1>3. /\ me.op = "delete" => DeleteCourse(me)
      /\ me.op = "detach" => DetachCourse(me)
      /\ me.op = "cascade" => CascadeCourse(me)
      /\ me.op = "merge" => MergeCourse(me)
  BY <1>1, <1>2 DEF Valid, Course, Closed
<1>4. AfterDrop(me.op) = IF me.op \in {"merge", "cascade"} THEN "loop" ELSE "commit"
  BY DEF AfterDrop
<1>5. ASSUME Drops(p), ForDelete(p, c) = {},
             Step(p, [me EXCEPT !.pc = AfterDrop(me.op), !.gone = @ \cup {c},
                                !.put = [k \in DOMAIN @ \ {c} |-> @[k]],
                                !.del = @ \cup OccOf(occ, c)])
      PROVE  RCInv'
  <2> DEFINE put == [k \in DOMAIN me.put \ {c} |-> me.put[k]]
             tx == [me EXCEPT !.pc = AfterDrop(me.op), !.gone = @ \cup {c}, !.put = put,
                              !.del = @ \cup OccOf(occ, c)]
  <2>1. c \in Live /\ c \notin me.gone
    BY <1>5 DEF Drops, Shows
  <2>2. /\ DOMAIN tx = Fields /\ tx.pc = AfterDrop(me.op) /\ tx.gone = me.gone \cup {c}
        /\ tx.put = put /\ tx.del = me.del \cup OccOf(occ, c)
        /\ \A f \in Fields \ {"pc", "gone", "put", "del"} : tx[f] = me[f]
    BY <1>1 DEF Fields
  <2>3. DOMAIN put = DOMAIN me.put \ {c} /\ \A k \in DOMAIN put : put[k] = me.put[k]
    OBVIOUS
  <2>4. Step(p, tx)
    BY <1>5
  <2>5. OccOf(occ, c) \subseteq Sample
    BY DEF RCInv, TypeInv, TypeOK, OccOf
  <2>6. put \in [DOMAIN put -> Row]
    BY <1>1 DEF Valid, Wrote
  <2> HIDE DEF tx, put
  <2>7. /\ tx.op = me.op /\ tx.owner = me.owner /\ tx.cluster = me.cluster
        /\ tx.ids = me.ids /\ tx.cur = me.cur /\ tx.ins = me.ins
        /\ tx.share = me.share /\ tx.taken = me.taken /\ tx.todo = me.todo
    BY <2>2 DEF Fields
  <2>8. c \notin me.share
    BY <1>1, <1>2, <1>3 DEF DeleteCourse, DetachCourse, CascadeCourse, MergeCourse
  <2>9. Course(tx)
    BY <1>1, <1>2, <1>3, <1>4, <2>2, <2>7
    DEF Course, DeleteCourse, DetachCourse, CascadeCourse, MergeCourse
  <2>10. Doing(tx)
    BY <1>2, <1>4, <2>2, <2>7 DEF Doing
  <2>11. Remembers(tx)
    BY <1>1, <1>2, <1>4, <2>2, <2>7 DEF Remembers, Checked
  <2>12. Wrote(tx)
    BY <1>1, <2>2, <2>3, <2>5, <2>6, <2>7, <2>8 DEF Valid, Wrote
  <2>13. Secured(tx)
    BY <1>1, <2>1, <2>2, <2>3, <2>7 DEF Secured
  <2>14. ASSUME NEW q \in Conns \ {p} PROVE Apart(tx, txn[q])
    <3>1. Apart(me, txn[q])
      BY DEF RCInv
    <3>2. c \notin DOMAIN txn[q].put \cup txn[q].gone \cup txn[q].share
      BY <1>5, NotShared
    <3>3. QED
      BY <2>2, <2>3, <2>7, <3>1, <3>2 DEF Apart
  <2>15. NamesApart'
    <3>1. DOMAIN tx.put \subseteq Live /\ \A k \in DOMAIN tx.put : tx.put[k] \in Versions(k)
      BY <1>1, <2>2, <2>3 DEF Secured, Versions
    <3>2. QED
      BY <2>4, <3>1, StepTurns, NamesKept
  <2>16. QED
    BY <2>2, <2>4, <2>9, <2>10, <2>11, <2>12, <2>13, <2>14, <2>15, StepTurns, TurnKeeps
    DEF Valid
<1>6. ASSUME Step(p, [me EXCEPT !.pc = AfterDrop(me.op)])
      PROVE  RCInv'
  <2> DEFINE tx == [me EXCEPT !.pc = AfterDrop(me.op)]
  <2>1. /\ DOMAIN tx = Fields /\ tx.pc = AfterDrop(me.op)
        /\ \A f \in Fields \ {"pc"} : tx[f] = me[f]
    BY <1>1 DEF Fields
  <2>2. Step(p, tx)
    BY <1>6
  <2> HIDE DEF tx
  <2>3. /\ tx.op = me.op /\ tx.owner = me.owner /\ tx.cluster = me.cluster
        /\ tx.ids = me.ids /\ tx.cur = me.cur /\ tx.gone = me.gone
        /\ tx.share = me.share /\ tx.taken = me.taken /\ tx.todo = me.todo
        /\ SameWrites(tx, me)
    BY <1>1, <2>1 DEF Fields, SameWrites, Valid, Wrote
  <2>4. Course(tx)
    BY <1>1, <1>2, <1>3, <1>4, <2>1, <2>3
    DEF Course, DeleteCourse, DetachCourse, CascadeCourse, MergeCourse
  <2>5. Doing(tx) /\ Remembers(tx)
    BY <1>1, <1>2, <1>4, <2>1, <2>3 DEF Doing, Remembers, Checked
  <2>6. QED
    BY <2>1, <2>2, <2>3, <2>4, <2>5, LookKeeps
<1>7. QED
  BY <1>5, <1>6 DEF Drop

(***************************************************************************)
(* Steps that change the committed tables.                                 *)
(***************************************************************************)

\* What p wrote becomes what everybody sees.
LEMMA CommitKeeps ==
  ASSUME RCInv, NEW p \in Conns, Commit(p)
  PROVE  RCInv'
<1> DEFINE me == txn[p]
<1>1. Valid(me) /\ Secured(me)
  BY DEF RCInv
<1>2. /\ Live' = Live \ me.gone /\ occ' = (occ \ me.del) \cup me.ins /\ minted' = minted
      /\ \A c \in Live' : rows'[c] = Version(p, c)
      /\ rows' = [c \in Live' |-> rows'[c]]
  BY DEF Commit, Live, SeenOcc
<1>3. /\ DOMAIN txn' = Conns /\ txn'[p] = Ended(p)
      /\ \A q \in Conns \ {p} : txn'[q] = txn[q]
  BY DEF RCInv, Commit
<1>4. \A c \in Live' : /\ rows'[c] \in Row /\ rows'[c].owner = rows[c].owner
                       /\ rows'[c] \in Versions(c)
  BY <1>2, VersionFacts
<1>5. TypeInv'
  <2>1. occ' \subseteq Sample /\ IsFiniteSet(occ')
    BY <1>2, SeenFacts DEF SeenOcc
  <2>2. rows' \in [Live' -> Row]
    BY <1>2, <1>4
  <2>3. Live' \subseteq minted' /\ minted' \subseteq ClusterIds
    BY <1>2 DEF RCInv, TypeInv, TypeOK
  <2>4. QED
    BY <2>1, <2>2, <2>3 DEF TypeInv, TypeOK, OccFinite
<1>6. OccurrencesOwned'
  <2>1. ASSUME NEW x \in occ, x \notin me.del
        PROVE  x.cluster \in Live' /\ rows'[x.cluster].owner = x.owner
    <3>1. x.cluster \in Live /\ rows[x.cluster].owner = x.owner
      BY DEF RCInv, OccurrencesOwned
    <3>2. x.cluster \notin me.gone
      BY <1>1, <2>1 DEF Secured, OccOf
    <3>3. QED
      BY <1>2, <1>4, <3>1, <3>2
  <2>2. ASSUME NEW x \in me.ins
        PROVE  x.cluster \in Live' /\ rows'[x.cluster].owner = x.owner
    BY <1>1, <1>2, <1>4 DEF Valid, Wrote, Secured
  <2>3. QED
    BY <1>2, <2>1, <2>2 DEF OccurrencesOwned
<1>7. NamesApart'
  <2>1. ASSUME NEW c \in Live', NEW v, v \in Versions(c)' PROVE v \in Versions(c)
    <3>1. DOMAIN Ended(p).put = {}
      BY DEF Ended, NoTxn, NoRows
    <3>2. QED
      BY <1>3, <1>4, <2>1, <3>1 DEF Versions
  <2>2. Live' \subseteq Live
    BY <1>2
  <2>3. QED
    BY <2>1, <2>2 DEF RCInv, NamesApart
<1>8. ASSUME NEW q \in Conns \ {p} PROVE (Valid(txn[q]) /\ Secured(txn[q]) /\ Remembers(txn[q]))'
  <2>1. Valid(txn[q]) /\ Secured(txn[q]) /\ Remembers(txn[q]) /\ Apart(me, txn[q])
        /\ txn'[q] = txn[q]
    BY <1>3 DEF RCInv
  <2>2. Valid(txn[q])'
    BY <2>1 DEF Valid, Course, Closed, HoldsNothing, AppendCourse, DeleteCourse,
       DetachCourse, CascadeCourse, MergeCourse, RenameCourse, FieldCourse, Doing, Wrote
  <2>3. DOMAIN txn[q].put \cup txn[q].gone \cup txn[q].share \subseteq Live'
    BY <1>2, <2>1 DEF Apart, Secured
  <2>4. ASSUME NEW c \in txn[q].gone, NEW x \in OccOf(occ', c) PROVE x \in txn[q].del
    <3>1. x \in occ' /\ x.cluster = c
      BY <2>4 DEF OccOf
    <3>2. x \notin me.ins
      BY <1>1, <2>1, <3>1 DEF Apart, Valid, Wrote
    <3>3. QED
      BY <1>2, <2>1, <2>4, <3>1, <3>2 DEF Secured, OccOf
  <2>5. Secured(txn[q])'
    <3>1. \A c \in DOMAIN txn[q].put : txn[q].put[c].owner = rows'[c].owner
      BY <1>4, <2>1, <2>3 DEF Secured
    <3>2. \A x \in txn[q].ins : x.owner = rows'[x.cluster].owner
      BY <1>4, <2>1, <2>3 DEF Secured, Valid, Wrote
    <3>3. QED
      BY <2>1, <2>3, <2>4, <3>1, <3>2 DEF Secured
  <2>6. Remembers(txn[q])'
    BY <1>2, <1>4, <2>1 DEF Remembers, Checked
  <2>7. QED
    BY <2>2, <2>5, <2>6
<1>9. (Valid(txn[p]) /\ Secured(txn[p]) /\ Remembers(txn[p]))'
  <2>1. /\ DOMAIN Ended(p) = Fields /\ HoldsNothing(Ended(p)) /\ Ended(p).pc = "done"
        /\ Course(Ended(p)) /\ Doing(Ended(p)) /\ Wrote(Ended(p))
    BY EndedFacts, NothingHeld
  <2>2. Valid(txn[p])'
    BY <1>3, <2>1 DEF Valid, Course, Closed, HoldsNothing, AppendCourse, DeleteCourse,
       DetachCourse, CascadeCourse, MergeCourse, RenameCourse, FieldCourse, Doing, Wrote
  <2>3. Secured(txn[p])' /\ Remembers(txn[p])'
    BY <1>3, <2>1 DEF HoldsNothing, NoRows, Secured, Remembers
  <2>4. QED
    BY <2>2, <2>3
<1>10. ASSUME NEW q \in Conns, NEW r \in Conns, q # r PROVE Apart(txn[q], txn[r])'
  <2>1. HoldsNothing(Ended(p)) /\ Apart(txn[q], txn[r])
    BY <1>10, EndedFacts DEF RCInv
  <2>2. QED
    BY <1>3, <1>10, <2>1 DEF HoldsNothing, NoRows, Apart
<1>11. QED
  BY <1>3, <1>5, <1>6, <1>7, <1>8, <1>9, <1>10 DEF RCInv

\* A new cluster without a name, under an id nobody remembers.
LEMMA InsertClusterKeeps ==
  ASSUME RCInv, NEW p \in Conns, NEW o \in Owners, NEW v \in Centroids, NEW id \in ClusterIds,
         InsertCluster(p, o, v, id)
  PROVE  RCInv'
<1> DEFINE tx == [NoTxn EXCEPT !.op = "upsert", !.pc = "done"]
<1>1. id \notin minted /\ id \notin Live /\ Live \subseteq minted
  BY DEF RCInv, TypeInv, TypeOK, InsertCluster, Upsert
<1>2. /\ Live' = Live \cup {id} /\ occ' = occ /\ minted' = minted \cup {id}
      /\ \A c \in Live : rows'[c] = rows[c]
      /\ rows'[id].name = NoName
  BY <1>1 DEF InsertCluster, Upsert, Live
<1>3. TypeInv'
  <2>1. Upsert(o, v, id) /\ TypeInv
    BY DEF InsertCluster, RCInv
  <2>2. QED
    BY <2>1, TypeStep DEF LibraryNext, UpsertAny
<1>4. OccurrencesOwned'
  BY <1>2 DEF RCInv, OccurrencesOwned
<1>5. /\ DOMAIN txn' = Conns /\ txn'[p] = tx
      /\ \A q \in Conns \ {p} : txn'[q] = txn[q]
  BY DEF RCInv, InsertCluster
<1>6. /\ DOMAIN tx = Fields /\ HoldsNothing(tx) /\ tx.pc = "done" /\ tx.todo = {}
      /\ tx.taken = NoRows
  BY DEF NoTxn, Fields, HoldsNothing
<1> HIDE DEF tx
<1>7. NamesApart'
  <2>1. \A q \in Conns : DOMAIN txn[q].put \subseteq Live
    BY DEF RCInv, Secured
  <2>2. DOMAIN txn'[p].put = {}
    BY <1>5, <1>6 DEF HoldsNothing, NoRows
  <2>3. ASSUME NEW c \in Live, NEW w, w \in Versions(c)' PROVE w \in Versions(c)
    BY <1>2, <1>5, <2>2, <2>3 DEF Versions
  <2>4. ASSUME NEW w, w \in Versions(id)' PROVE w.name = NoName
    BY <1>1, <1>2, <1>5, <2>1, <2>2, <2>4 DEF Versions
  <2>5. QED
    BY <1>2, <2>3, <2>4 DEF RCInv, NamesApart, SameName
<1>8. ASSUME NEW q \in Conns \ {p} PROVE (Valid(txn[q]) /\ Secured(txn[q]) /\ Remembers(txn[q]))'
  <2>1. Valid(txn[q]) /\ Secured(txn[q]) /\ Remembers(txn[q]) /\ txn'[q] = txn[q]
    BY <1>5 DEF RCInv
  <2>2. Valid(txn[q])'
    BY <2>1 DEF Valid, Course, Closed, HoldsNothing, AppendCourse, DeleteCourse,
       DetachCourse, CascadeCourse, MergeCourse, RenameCourse, FieldCourse, Doing, Wrote
  <2>3. Secured(txn[q])'
    BY <1>2, <2>1 DEF Secured, Valid, Wrote
  <2>4. Remembers(txn[q])'
    BY <1>1, <1>2, <2>1 DEF Remembers, Checked
  <2>5. QED
    BY <2>2, <2>3, <2>4
<1>9. (Valid(txn[p]) /\ Secured(txn[p]) /\ Remembers(txn[p]))'
  <2>1. Course(tx) /\ Doing(tx) /\ Wrote(tx)
    BY <1>6, NothingHeld DEF Course, Closed, Doing, NoRows
  <2>2. Valid(txn[p])'
    BY <1>5, <1>6, <2>1 DEF Valid, Course, Closed, HoldsNothing, AppendCourse, DeleteCourse,
       DetachCourse, CascadeCourse, MergeCourse, RenameCourse, FieldCourse, Doing, Wrote
  <2>3. Secured(txn[p])' /\ Remembers(txn[p])'
    BY <1>5, <1>6 DEF HoldsNothing, NoRows, Secured, Remembers
  <2>4. QED
    BY <2>2, <2>3
<1>10. ASSUME NEW q \in Conns, NEW r \in Conns, q # r PROVE Apart(txn[q], txn[r])'
  <2>1. Apart(txn[q], txn[r])
    BY <1>10 DEF RCInv
  <2>2. QED
    BY <1>5, <1>6, <1>10, <2>1 DEF HoldsNothing, NoRows, Apart
<1>11. QED
  BY <1>3, <1>4, <1>5, <1>7, <1>8, <1>9, <1>10 DEF RCInv

(***************************************************************************)
(* The invariant and what it gives.                                        *)
(***************************************************************************)

\* Every connection starts with nothing to do.
LEMMA RCInvInit == Init => RCInv
<1> SUFFICES ASSUME Init PROVE RCInv
  OBVIOUS
<1>1. /\ minted \subseteq ClusterIds /\ Live = minted /\ occ \subseteq Sample /\ OccFinite
  BY TimesAssumption DEF Init, Live, Sample, OccFinite
<1>2. rows \in [Live -> Row]
  <2>1. \A c \in Live : rows[c].samples \in Nat
    BY <1>1, PartsFinite DEF Init, SampleCountExact, OccFinite
  <2>2. \A c \in Live : rows[c] \in Row
    BY <1>1, <2>1 DEF Init, Row
  <2>3. QED
    BY <1>1, <2>2 DEF Init
<1>3. TypeInv /\ OccurrencesOwned
  BY <1>1, <1>2 DEF Init, TypeInv, TypeOK
<1>4. \A p \in Conns : /\ DOMAIN txn[p] = Fields /\ HoldsNothing(txn[p])
                       /\ txn[p].pc = "idle" /\ txn[p].todo = {} /\ txn[p].taken = NoRows
  BY DEF Init, NoTxn, Fields, HoldsNothing
<1>5. NamesApart
  <2>1. ASSUME NEW c \in Live, NEW v \in Versions(c) PROVE v = rows[c]
    BY <1>4, <2>1 DEF Versions, HoldsNothing, NoRows
  <2>2. QED
    BY <2>1 DEF Init, NamesUnique, NamesApart, SameName
<1>6. ASSUME NEW p \in Conns PROVE Valid(txn[p]) /\ Secured(txn[p]) /\ Remembers(txn[p])
  <2>1. IsFiniteSet({})
    BY FS_EmptySet
  <2>2. Wrote(txn[p]) /\ Secured(txn[p])
    BY <1>4, <2>1 DEF HoldsNothing, NoRows, Wrote, Secured
  <2>3. Course(txn[p]) /\ Doing(txn[p]) /\ Remembers(txn[p])
    BY <1>4 DEF Course, Closed, Doing, Remembers, NoRows
  <2>4. QED
    BY <1>4, <2>2, <2>3 DEF Valid
<1>7. \A p, q \in Conns : p # q => Apart(txn[p], txn[q])
  BY <1>4 DEF HoldsNothing, NoRows, Apart
<1>8. DOMAIN txn = Conns
  BY DEF Init
<1>9. QED
  BY <1>3, <1>5, <1>6, <1>7, <1>8 DEF RCInv

\* Every statement of every transaction keeps it.
LEMMA RCInvStep == RCInv /\ [Next]_vars => RCInv'
<1> SUFFICES ASSUME RCInv, [Next]_vars PROVE RCInv'
  OBVIOUS
<1>1. ASSUME NEW p \in Conns, Arrive(p) PROVE RCInv'
  BY <1>1, AppendBegins, InsertClusterKeeps, UpdateBegins, RemovalBegins, RenameBegins,
     MergeBegins DEF Arrive
<1>2. ASSUME NEW p \in Conns, Work(p) PROVE RCInv'
  BY <1>2, UnlinkKeeps, UnlinkRowKeeps, CountKeeps, CountRowKeeps, DropKeeps, CommitKeeps,
     InsertKeeps, CascadeLoopKeeps, CheckNameKeeps, SetNameKeeps, MergeLoopKeeps,
     ReadTakenKeeps, MoveKeeps, UpdateKeeps, RollbackKeeps DEF Work, DeadlockDetected
<1>3. CASE UNCHANGED vars
  <2>1. UNCHANGED vars
    BY <1>3
  <2>2. rows' = rows /\ occ' = occ /\ minted' = minted /\ txn' = txn
    BY <2>1 DEF vars
  <2>3. TypeInv' /\ OccurrencesOwned' /\ NamesApart'
    BY <2>2 DEF RCInv, TypeInv, TypeOK, OccFinite, OccurrencesOwned, NamesApart, Versions, Live
  <2>4. ASSUME NEW q \in Conns PROVE (Valid(txn[q]) /\ Secured(txn[q]) /\ Remembers(txn[q]))'
    <3>1. Valid(txn[q]) /\ Secured(txn[q]) /\ Remembers(txn[q])
      BY DEF RCInv
    <3>2. Valid(txn[q])'
      BY <2>2, <3>1 DEF Valid, Course, Closed, HoldsNothing, AppendCourse, DeleteCourse,
         DetachCourse, CascadeCourse, MergeCourse, RenameCourse, FieldCourse, Doing, Wrote
    <3>3. Secured(txn[q])' /\ Remembers(txn[q])'
      BY <2>2, <3>1 DEF Secured, Remembers, Checked, Live
    <3>4. QED
      BY <3>2, <3>3
  <2>5. ASSUME NEW q \in Conns, NEW r \in Conns, q # r PROVE Apart(txn[q], txn[r])'
    BY <2>2, <2>5 DEF RCInv, Apart
  <2>6. QED
    BY <2>2, <2>3, <2>4, <2>5 DEF RCInv
<1>4. QED
  BY <1>1, <1>2, <1>3 DEF Next

\* It holds however the transactions overlap.
LEMMA RCInvariant == Spec => []RCInv
BY RCInvInit, RCInvStep, PTL DEF Spec

\* The committed tables and every connection's record keep their domains: a
\* statement never has rows of another kind to do, a transaction never locks
\* or writes what is not in the table.
THEOREM RecordsTyped == Spec => []RCTypeOK
<1>1. RCInv => RCTypeOK
  <2> SUFFICES ASSUME RCInv PROVE RCTypeOK
    OBVIOUS
  <2>1. TypeOK
    BY DEF RCInv, TypeInv
  <2>2. DOMAIN NoTxn = Fields
    BY DEF NoTxn, Fields
  <2>3. ASSUME NEW p \in Conns
        PROVE  /\ DOMAIN txn[p] = DOMAIN NoTxn
               /\ txn[p].todo \subseteq ClusterIds \/ txn[p].todo \subseteq Sample
               /\ txn[p].put \in [DOMAIN txn[p].put -> Row]
               /\ DOMAIN txn[p].put \cup txn[p].gone \cup txn[p].share \subseteq ClusterIds
               /\ txn[p].ins \cup txn[p].del \subseteq Sample
               /\ DOMAIN txn[p].put \cap txn[p].gone = {}
    <3>1. Valid(txn[p]) /\ Secured(txn[p])
      BY DEF RCInv
    <3>2. txn[p].todo \subseteq ClusterIds \/ txn[p].todo \subseteq Sample
      BY <3>1 DEF Valid, Doing
    <3>3. DOMAIN txn[p].put \cup txn[p].gone \cup txn[p].share \subseteq ClusterIds
      BY <2>1, <3>1 DEF Secured, TypeOK
    <3>4. QED
      BY <2>2, <3>1, <3>2, <3>3 DEF Valid, Wrote
  <2>4. QED
    BY <2>1, <2>3 DEF RCTypeOK
<1>2. QED
  BY <1>1, RCInvariant, PTL

\* However transactions overlap, every committed sample belongs to a live
\* cluster of its own owner: a cluster that an append or a merge refers to
\* cannot be deleted before they commit, and what is deleted takes along the
\* samples that were committed meanwhile.
THEOREM OverlapKeepsOwnership == Spec => []OccurrencesOwned
<1>1. RCInv => OccurrencesOwned
  BY DEF RCInv
<1>2. QED
  BY <1>1, RCInvariant, PTL

\* However renames overlap, no two people of one owner carry one name, though
\* each looked before the other had committed.
THEOREM OverlapKeepsNames == Spec => []NamesUnique
<1>1. RCInv => NamesUnique
  BY DEF RCInv, NamesApart, NamesUnique, Versions, SameName
<1>2. QED
  BY <1>1, RCInvariant, PTL

(***************************************************************************)
(* A transaction that is alone.  Progress says, for each statement it can  *)
(* be at, what it has written so far and what it has still to do: its      *)
(* deletions are those its WHERE names, its inserts are new, its recounts  *)
(* are what a recount of the tables it sees gives.  What is left when it   *)
(* commits is then its transaction of Library.                             *)
(***************************************************************************)

\* What the transaction sees: the occurrences without those it deleted, with
\* those it inserted
Seen(me) == (occ \ me.del) \cup me.ins

\* The row c as a recount by the transaction leaves it
Fully(me, c) == [rows[c] EXCEPT !.samples = Cardinality(OccOf(Seen(me), c))]

\* The rows T are recounted: each is written, or counted and still to be written.
Tallied(me, T) ==
  /\ DOMAIN me.put \cup me.todo = T
  /\ \A c \in DOMAIN me.put : me.put[c] = Fully(me, c)
  /\ \A c \in me.todo : me.snap[c] = Cardinality(OccOf(Seen(me), c))

\* Its DELETE takes away the occurrences X, and has taken those that are not
\* still to do.
TakesAway(me, X) ==
  /\ me.pc = "unlink" => me.del = {}
  /\ me.pc = "unlinking" => me.del \cup me.todo = X
  /\ me.pc \notin {"unlink", "unlinking"} => me.del = X

\* The clusters of C that keep no occurrence without X
Emptied(X, C) == {c \in C : OccOf(occ, c) \subseteq X}

AppendProgress(me) ==
  /\ me.del = {}
  /\ \A i \in me.ids : Owned(i[1], me.owner)
  /\ \A x \in me.ins : /\ x.stream = me.stream /\ x.owner = me.owner /\ x.t \in SampleTimes
                       /\ Owned(x.cluster, me.owner) /\ ~\E y \in occ : SameKey(x, y)
  /\ me.pc \in {"insert", "count"} => me.put = NoRows
  /\ me.pc \in {"counting", "commit"} =>
       Tallied(me, {c \in Live : /\ rows[c].owner = me.owner
                                 /\ OccIn(OccOf(Seen(me), c), me.stream) # {}})

DeleteProgress(me) ==
  /\ Owned(me.cur, me.owner) /\ me.put = NoRows /\ me.ins = {}
  /\ TakesAway(me, OccOf(occ, me.cur))
  /\ me.gone = IF me.pc = "commit" THEN {me.cur} ELSE {}

InStream(me) ==
  {x \in occ : x.cluster = me.cluster /\ x.stream = me.stream /\ x.owner = me.owner}

DetachProgress(me) ==
  /\ Owned(me.cluster, me.owner) /\ me.cur = me.cluster /\ me.ins = {}
  /\ TakesAway(me, InStream(me))
  /\ me.pc \in {"unlink", "unlinking", "count"} => me.put = NoRows
  /\ me.pc \in {"counting", "drop"} => Tallied(me, {me.cur})
  /\ me.pc = "commit" => /\ me.gone = Emptied(InStream(me), {me.cur})
                         /\ Tallied(me, {me.cur} \ me.gone)

\* The clusters a cascade has to look at, and those it has dealt with
Touched(me) == {x.cluster : x \in OccIn(occ, me.stream)}

AtCluster(me) == me.pc \in {"count", "counting", "drop"}

Settled(me) == Touched(me) \ (me.ids \cup {c \in {me.cur} : AtCluster(me)})

CascadeProgress(me) ==
  /\ me.ins = {} /\ me.ids \subseteq Touched(me)
  /\ TakesAway(me, OccIn(occ, me.stream))
  /\ me.pc \in {"unlink", "unlinking"} => me.put = NoRows /\ me.gone = {} /\ me.ids = Touched(me)
  /\ me.pc \notin {"unlink", "unlinking"} =>
       me.gone = Emptied(OccIn(occ, me.stream), Settled(me))
  /\ me.pc \in {"loop", "count", "commit"} => Tallied(me, Settled(me) \ me.gone)
  /\ me.pc \in {"counting", "drop"} => Tallied(me, (Settled(me) \ me.gone) \cup {me.cur})
  /\ AtCluster(me) => me.cur \in Touched(me)
  /\ me.pc = "commit" => me.ids = {}

RenameProgress(me) ==
  /\ Owned(me.cluster, me.owner) /\ me.ins = {} /\ me.del = {}
  /\ me.pc = "check" => me.put = NoRows
  /\ me.pc = "name" => me.put = NoRows /\ ~NameTaken(me.cluster, me.owner, me.value)
  /\ me.pc = "commit" =>
       \/ me.put = NoRows
       \/ /\ ~NameTaken(me.cluster, me.owner, me.value)
          /\ me.put = [k \in {me.cluster} |-> [rows[k] EXCEPT !.name = me.value]]

FieldProgress(me) ==
  /\ me.ins = {} /\ me.del = {}
  /\ me.pc = "update" => me.put = NoRows
  /\ me.pc = "commit" =>
       \/ me.put = NoRows
       \/ /\ Owned(me.cluster, me.owner)
          /\ me.put = [k \in {me.cluster} |-> Updated(me, rows[k])]

\* The source a merge is at, the sources it has been at, and the samples of
\* theirs it has moved
AtSource(me) == me.pc \in {"move", "unlink", "unlinking", "drop"}

Sources(me) == me.gone \cup {c \in {me.cur} : AtSource(me)}

MovedBy(me) == Moved(Sources(me)) \ {x \in me.todo : me.pc = "move"}

PlacedAt(x, t, me) == [stream |-> x.stream, cluster |-> me.cluster, t |-> t, owner |-> me.owner]

\* They are at the target now, on ticks the loop of merge_clusters leads to.
Placed(me) ==
  \E f \in [MovedBy(me) -> Slots] : /\ IsPlacement(f, MovedBy(me), me.cluster)
                                    /\ me.ins = {PlacedAt(x, f[x], me) : x \in MovedBy(me)}

\* occ_cache is what the target has by now.
TicksKnown(me) ==
  \A s \in DOMAIN me.taken : me.taken[s] = {x.t : x \in OccIn(OccOf(Seen(me), me.cluster), s)}

MergeProgress(me) ==
  /\ Owned(me.cluster, me.owner)
  /\ \A c \in me.ids \cup Sources(me) : Owned(c, me.owner)
  /\ me.ids \cap Sources(me) = {} /\ (AtSource(me) => me.cur \notin me.gone)
  /\ Placed(me) /\ TicksKnown(me)
  /\ me.pc \notin {"unlinking", "drop"} => me.del = Moved(me.gone)
  /\ me.pc = "move" => me.todo \subseteq OccOf(occ, me.cur)
  /\ me.pc = "unlinking" => me.del \cup me.todo = Moved(Sources(me))
  /\ me.pc = "drop" => me.del = Moved(Sources(me))
  /\ me.pc \notin {"counting", "commit"} => me.put = NoRows
  /\ me.pc \in {"counting", "commit"} => Tallied(me, {me.cluster})

Progress(me) ==
  /\ me.op = "append"  => AppendProgress(me)
  /\ me.op = "delete"  => DeleteProgress(me)
  /\ me.op = "detach"  => DetachProgress(me)
  /\ me.op = "cascade" => CascadeProgress(me)
  /\ me.op = "rename"  => RenameProgress(me)
  /\ me.op \in {"crop", "centroid"} => FieldProgress(me)
  /\ me.op = "merge"   => MergeProgress(me)

LoneInv == \A p \in Conns : Open(p) /\ txn[p].alone => Others(p) = {} /\ Progress(txn[p])

\* p is the one open transaction, and has come as far as its record shows.
Lone(p) == RCInv /\ Open(p) /\ Others(p) = {} /\ Progress(txn[p])

\* The record tx of a transaction that goes on shows how far it has come.
Advances(p) == \E tx : Step(p, tx) /\ (tx.pc \notin {"idle", "done"} => Progress(tx))

\* No row is changed; a new one has no name.
RowsStand ==
  /\ occ' = occ /\ Live \subseteq Live'
  /\ \A c \in Live : rows'[c] = rows[c]
  /\ \A c \in Live' \ Live : rows'[c].name = NoName

\* The progress a record shows depends on the rows it is about and on the
\* occurrences only.
LEMMA ProgressStands ==
  ASSUME NEW p, NEW me, txn'[p] = me, RowsStand, OccurrencesOwned,
         DOMAIN me.put \subseteq Live, Progress(me)
  PROVE  Progress(txn[p])'
<1>1. /\ occ' = occ /\ Seen(txn[p])' = Seen(me)
      /\ \A c \in Live : Fully(txn[p], c)' = Fully(me, c)
  BY DEF RowsStand, Seen, Fully, OccOf
<1>2. \A c, o : Owned(c, o) => Owned(c, o)'
  BY DEF RowsStand, Owned
<1>3. \A T : Tallied(me, T) => /\ DOMAIN me.put \cup me.todo = T
                               /\ \A c \in DOMAIN me.put : me.put[c] = Fully(txn[p], c)'
                               /\ \A c \in me.todo :
                                    me.snap[c] = Cardinality(OccOf(Seen(txn[p])', c))
  BY <1>1 DEF Tallied
<1>4. me.op = "append" => AppendProgress(txn[p])'
  <2> SUFFICES ASSUME AppendProgress(me) PROVE AppendProgress(txn[p])'
    BY DEF Progress
  <2> DEFINE T == {c \in Live : /\ rows[c].owner = me.owner
                                /\ OccIn(OccOf(Seen(me), c), me.stream) # {}}
             U == {c \in Live' : /\ rows'[c].owner = me.owner
                                 /\ OccIn(OccOf(Seen(me), c), me.stream) # {}}
  <2>1. \A x \in Seen(me) : x.cluster \in Live
    BY DEF Seen, AppendProgress, OccurrencesOwned, Owned
  <2>2. T = U
    BY <2>1 DEF RowsStand, OccIn, OccOf
  <2>3. me.pc \in {"counting", "commit"} => Tallied(me, T)
    BY DEF AppendProgress
  <2> HIDE DEF T
  <2>4. me.pc \in {"counting", "commit"} =>
          Tallied(txn[p], {c \in Live : /\ rows[c].owner = txn[p].owner
                                        /\ OccIn(OccOf(Seen(txn[p]), c), txn[p].stream) # {}})'
    BY <1>1, <1>3, <2>2, <2>3 DEF Tallied
  <2>5. QED
    BY <1>1, <1>2, <2>4 DEF AppendProgress, SameKey
<1>5. me.op = "delete" => DeleteProgress(txn[p])'
  BY <1>1, <1>2 DEF Progress, DeleteProgress, TakesAway, OccOf
<1>6. me.op = "detach" => DetachProgress(txn[p])'
  <2>1. /\ InStream(txn[p])' = InStream(me)
        /\ \A C : Emptied(InStream(me), C)' = Emptied(InStream(me), C)
    BY <1>1 DEF InStream, Emptied, OccOf
  <2>2. QED
    BY <1>1, <1>2, <1>3, <2>1 DEF Progress, DetachProgress, TakesAway, Tallied
<1>7. me.op = "cascade" => CascadeProgress(txn[p])'
  <2> SUFFICES ASSUME CascadeProgress(me) PROVE CascadeProgress(txn[p])'
    BY DEF Progress
  <2>1. /\ Touched(txn[p])' = Touched(me) /\ AtCluster(txn[p])' = AtCluster(me)
        /\ OccIn(occ, txn[p].stream)' = OccIn(occ, me.stream)
    BY <1>1 DEF Touched, AtCluster
  <2>2. Settled(txn[p])' = Settled(me)
    BY <2>1 DEF Settled
  <2>3. Emptied(OccIn(occ, txn[p].stream), Settled(txn[p]))' =
          Emptied(OccIn(occ, me.stream), Settled(me))
    BY <1>1, <2>2 DEF Emptied
  <2>4. TakesAway(txn[p], OccIn(occ, txn[p].stream))'
    BY <1>1, <2>1 DEF CascadeProgress, TakesAway
  <2>5. /\ me.pc \in {"loop", "count", "commit"} =>
             Tallied(txn[p], Settled(txn[p]) \ txn[p].gone)'
        /\ me.pc \in {"counting", "drop"} =>
             Tallied(txn[p], (Settled(txn[p]) \ txn[p].gone) \cup {txn[p].cur})'
    BY <1>1, <1>3, <2>2 DEF CascadeProgress, Tallied
  <2>6. QED
    BY <1>1, <2>1, <2>2, <2>3, <2>4, <2>5 DEF CascadeProgress
<1>8. me.op = "rename" => RenameProgress(txn[p])'
  <2> SUFFICES ASSUME RenameProgress(me) PROVE RenameProgress(txn[p])'
    BY DEF Progress
  <2>1. me.cluster \in Live /\ rows'[me.cluster] = rows[me.cluster]
    BY DEF RenameProgress, Owned, RowsStand
  <2>2. NameTaken(txn[p].cluster, txn[p].owner, txn[p].value)' =>
          NameTaken(me.cluster, me.owner, me.value)
    BY DEF NameTaken, RowsStand
  <2>3. [k \in {me.cluster} |-> [rows[k] EXCEPT !.name = me.value]] =
          [k \in {txn[p].cluster} |-> [rows[k] EXCEPT !.name = txn[p].value]]'
    BY <2>1
  <2>4. QED
    BY <1>2, <2>2, <2>3 DEF RenameProgress
<1>9. me.op \in {"crop", "centroid"} => FieldProgress(txn[p])'
  <2> SUFFICES ASSUME FieldProgress(me) PROVE FieldProgress(txn[p])'
    BY DEF Progress
  <2>1. ASSUME Owned(me.cluster, me.owner)
        PROVE  [k \in {me.cluster} |-> Updated(me, rows[k])] =
                 [k \in {txn[p].cluster} |-> Updated(txn[p], rows[k])]'
    BY <2>1 DEF Owned, RowsStand, Updated
  <2>2. QED
    BY <1>2, <2>1 DEF FieldProgress
<1>10. me.op = "merge" => MergeProgress(txn[p])'
  <2>1. Sources(txn[p])' = Sources(me) /\ MovedBy(txn[p])' = MovedBy(me) /\ Slots' = Slots
    BY <1>1 DEF Sources, MovedBy, Moved, Slots, AtSource
  <2>2. ASSUME NEW f, IsPlacement(f, MovedBy(me), me.cluster)
        PROVE  IsPlacement(f, MovedBy(txn[p]), txn[p].cluster)'
    BY <1>1, <2>1, <2>2 DEF IsPlacement
  <2>3. MergeProgress(me) => Placed(txn[p])'
    BY <1>1, <2>1, <2>2 DEF MergeProgress, Placed, PlacedAt
  <2>4. MergeProgress(me) => TicksKnown(txn[p])'
    BY <1>1 DEF MergeProgress, TicksKnown
  <2>5. QED
    BY <1>1, <1>2, <1>3, <2>1, <2>3, <2>4 DEF Progress, MergeProgress, AtSource, Moved,
       Tallied
<1>11. QED
  BY <1>4, <1>5, <1>6, <1>7, <1>8, <1>9, <1>10 DEF Progress

(***************************************************************************)
(* Its statements: removals, recounts, drops.                              *)
(***************************************************************************)

\* What is known of a transaction that is alone.
LEMMA LoneFacts ==
  ASSUME NEW p \in Conns, Lone(p)
  PROVE  /\ TypeInv /\ OccurrencesOwned
         /\ DOMAIN txn[p] = Fields /\ Doing(txn[p]) /\ Wrote(txn[p]) /\ Secured(txn[p])
         /\ txn[p].op \in {"append", "delete", "detach", "cascade", "merge", "rename", "crop",
                           "centroid"}
         /\ txn[p].op = "append" => AppendCourse(txn[p]) /\ AppendProgress(txn[p])
         /\ txn[p].op = "delete" => DeleteCourse(txn[p]) /\ DeleteProgress(txn[p])
         /\ txn[p].op = "detach" => DetachCourse(txn[p]) /\ DetachProgress(txn[p])
         /\ txn[p].op = "cascade" => CascadeCourse(txn[p]) /\ CascadeProgress(txn[p])
         /\ txn[p].op = "merge" => MergeCourse(txn[p]) /\ MergeProgress(txn[p])
         /\ txn[p].op = "rename" => RenameCourse(txn[p]) /\ RenameProgress(txn[p])
         /\ txn[p].op \in {"crop", "centroid"} => FieldCourse(txn[p]) /\ FieldProgress(txn[p])
<1>1. Valid(txn[p]) /\ Secured(txn[p]) /\ txn[p].pc \notin {"idle", "done"}
  BY DEF Lone, RCInv, Open
<1>2. Progress(txn[p]) /\ TypeInv /\ OccurrencesOwned
  BY DEF Lone, RCInv
<1>3. Course(txn[p]) /\ ~Closed(txn[p])
  BY <1>1 DEF Valid, Closed
<1>4. QED
  BY <1>1, <1>2, <1>3 DEF Valid, Course, Progress

\* A transaction that is rolled back need not come further.
LEMMA RollbackEnds ==
  ASSUME NEW p, Rollback(p)
  PROVE  Advances(p)
BY EndedFacts DEF Rollback, Advances

\* tx is me but for the fields F.
Only(tx, me, F) == DOMAIN tx = Fields /\ \A f \in Fields \ F : tx[f] = me[f]

\* Which fields of the record are as they were.
LEMMA FieldsKept ==
  ASSUME NEW tx, NEW me, NEW F, Only(tx, me, F)
  PROVE  /\ DOMAIN tx = Fields
         /\ "op" \notin F => tx.op = me.op
         /\ "pc" \notin F => tx.pc = me.pc
         /\ "owner" \notin F => tx.owner = me.owner
         /\ "cluster" \notin F => tx.cluster = me.cluster
         /\ "stream" \notin F => tx.stream = me.stream
         /\ "value" \notin F => tx.value = me.value
         /\ "ids" \notin F => tx.ids = me.ids
         /\ "cur" \notin F => tx.cur = me.cur
         /\ "todo" \notin F => tx.todo = me.todo
         /\ "snap" \notin F => tx.snap = me.snap
         /\ "taken" \notin F => tx.taken = me.taken
         /\ "put" \notin F => tx.put = me.put
         /\ "gone" \notin F => tx.gone = me.gone
         /\ "ins" \notin F => tx.ins = me.ins
         /\ "share" \notin F => tx.share = me.share
         /\ "del" \notin F => tx.del = me.del
BY DEF Only, Fields

\* The samples of a merge are as before, and so are the ticks taken.
LEMMA PlacedAsBefore ==
  ASSUME NEW me, NEW tx, MergeProgress(me), MovedBy(tx) = MovedBy(me),
         tx.ins = me.ins, tx.cluster = me.cluster, tx.owner = me.owner, tx.taken = me.taken,
         {x \in tx.del : x.cluster = me.cluster} = {x \in me.del : x.cluster = me.cluster}
  PROVE  Placed(tx) /\ TicksKnown(tx)
<1>1. Placed(tx)
  BY DEF MergeProgress, Placed, PlacedAt
<1>2. OccOf(Seen(tx), tx.cluster) = OccOf(Seen(me), me.cluster)
  BY DEF OccOf, Seen
<1>3. QED
  BY <1>1, <1>2 DEF MergeProgress, TicksKnown

\* The DELETE takes its snapshot.
LEMMA UnlinkAdvances ==
  ASSUME NEW p \in Conns, Lone(p), Unlink(p)
  PROVE  Advances(p)
<1> DEFINE me == txn[p]
           tx == [me EXCEPT !.todo = Unlinked(me) \ me.del, !.pc = "unlinking"]
<1>1. DOMAIN me = Fields /\ me.pc = "unlink" /\ Step(p, tx)
  BY LoneFacts DEF Unlink, At
<1>2. /\ Only(tx, me, {"pc", "todo"}) /\ tx.pc = "unlinking"
      /\ tx.todo = Unlinked(me) \ me.del
  BY <1>1 DEF Only, Fields
<1> HIDE DEF tx
<1>3. /\ tx.op = me.op /\ tx.owner = me.owner /\ tx.cluster = me.cluster /\ tx.stream = me.stream
      /\ tx.ids = me.ids /\ tx.cur = me.cur /\ tx.put = me.put /\ tx.gone = me.gone
      /\ tx.ins = me.ins /\ tx.del = me.del /\ tx.taken = me.taken
  BY <1>2, FieldsKept
<1>4. me.op \in {"delete", "detach", "cascade", "merge"}
  BY <1>1, LoneFacts DEF AppendCourse, RenameCourse, FieldCourse
<1> SUFFICES Progress(tx)
  BY <1>1 DEF Advances
<1>5. CASE me.op = "delete"
  <2>1. Unlinked(me) = OccOf(occ, me.cur)
    BY <1>5 DEF Unlinked
  <2>2. DeleteProgress(me)
    BY <1>5, LoneFacts
  <2>3. DeleteProgress(tx)
    BY <1>1, <1>2, <1>3, <2>1, <2>2 DEF DeleteProgress, TakesAway
  <2>4. QED
    BY <1>3, <1>5, <2>3 DEF Progress
<1>6. CASE me.op = "detach"
  <2>1. Unlinked(me) = InStream(me) /\ InStream(tx) = InStream(me)
    BY <1>3, <1>6 DEF Unlinked, InStream
  <2>2. DetachProgress(me) /\ DetachCourse(me)
    BY <1>6, LoneFacts
  <2>3. DetachProgress(tx)
    BY <1>1, <1>2, <1>3, <2>1, <2>2 DEF DetachProgress, TakesAway
  <2>4. QED
    BY <1>3, <1>6, <2>3 DEF Progress
<1>7. CASE me.op = "cascade"
  BY <1>1, <1>2, <1>3, <1>7, LoneFacts DEF Progress, CascadeProgress, TakesAway, Unlinked,
     Touched, AtCluster
<1>8. CASE me.op = "merge"
  <2>1. /\ Sources(tx) = Sources(me) /\ MovedBy(tx) = MovedBy(me)
        /\ Sources(me) = me.gone \cup {me.cur}
        /\ AtSource(me) /\ AtSource(tx)
    BY <1>1, <1>2, <1>3 DEF Sources, MovedBy, AtSource
  <2>2. MergeProgress(me) /\ Unlinked(me) = OccOf(occ, me.cur)
    BY <1>8, LoneFacts DEF Unlinked
  <2>3. tx.del \cup tx.todo = Moved(Sources(tx))
    <3>1. me.del = Moved(me.gone)
      BY <1>1, <2>2 DEF MergeProgress
    <3>2. QED
      BY <1>2, <1>3, <2>1, <2>2, <3>1 DEF Moved, OccOf
  <2>4. Placed(tx) /\ TicksKnown(tx)
    BY <1>3, <2>1, <2>2, PlacedAsBefore
  <2>5. MergeProgress(tx)
    BY <1>1, <1>2, <1>3, <2>1, <2>2, <2>3, <2>4 DEF MergeProgress
  <2>6. QED
    BY <1>3, <1>8, <2>5 DEF Progress
<1>9. QED
  BY <1>4, <1>5, <1>6, <1>7, <1>8

\* One row of the DELETE.
LEMMA UnlinkRowGoesOn ==
  ASSUME NEW p \in Conns, Lone(p), txn[p].pc = "unlinking", NEW x \in txn[p].todo,
         Step(p, [txn[p] EXCEPT !.todo = @ \ {x}, !.del = @ \cup ({x} \cap occ)])
  PROVE  Advances(p)
<1> DEFINE me == txn[p]
           tx == [me EXCEPT !.todo = @ \ {x}, !.del = @ \cup ({x} \cap occ)]
<1>1. DOMAIN me = Fields /\ me.pc = "unlinking" /\ Step(p, tx)
  BY LoneFacts
<1>2. /\ Only(tx, me, {"todo", "del"}) /\ tx.todo = me.todo \ {x}
      /\ tx.del = me.del \cup ({x} \cap occ)
  BY <1>1 DEF Only, Fields
<1> HIDE DEF tx
<1>3. /\ tx.op = me.op /\ tx.pc = me.pc /\ tx.owner = me.owner /\ tx.cluster = me.cluster
      /\ tx.stream = me.stream /\ tx.ids = me.ids /\ tx.cur = me.cur /\ tx.put = me.put
      /\ tx.gone = me.gone /\ tx.ins = me.ins /\ tx.taken = me.taken
  BY <1>2, FieldsKept
<1>4. me.op \in {"delete", "detach", "cascade", "merge"}
  BY <1>1, LoneFacts DEF AppendCourse, RenameCourse, FieldCourse
<1>5. \A X \in SUBSET occ : me.del \cup me.todo = X => x \in X /\ tx.del \cup tx.todo = X
  BY <1>2
<1> SUFFICES Progress(tx)
  BY <1>1 DEF Advances
<1>6. CASE me.op = "delete"
  <2>1. DeleteProgress(me) /\ OccOf(occ, me.cur) \in SUBSET occ
    BY <1>6, LoneFacts DEF OccOf
  <2>2. DeleteProgress(tx)
    BY <1>1, <1>3, <1>5, <2>1 DEF DeleteProgress, TakesAway
  <2>3. QED
    BY <1>3, <1>6, <2>2 DEF Progress
<1>7. CASE me.op = "detach"
  <2>1. /\ DetachProgress(me) /\ InStream(me) \in SUBSET occ /\ InStream(tx) = InStream(me)
    BY <1>3, <1>7, LoneFacts DEF InStream
  <2>2. DetachProgress(tx)
    BY <1>1, <1>3, <1>5, <2>1 DEF DetachProgress, TakesAway
  <2>3. QED
    BY <1>3, <1>7, <2>2 DEF Progress
<1>8. CASE me.op = "cascade"
  <2>1. CascadeProgress(me) /\ OccIn(occ, me.stream) \in SUBSET occ /\ Touched(tx) = Touched(me)
    BY <1>3, <1>8, LoneFacts DEF OccIn, Touched
  <2>2. CascadeProgress(tx)
    BY <1>1, <1>3, <1>5, <2>1 DEF CascadeProgress, TakesAway, AtCluster
  <2>3. QED
    BY <1>3, <1>8, <2>2 DEF Progress
<1>9. CASE me.op = "merge"
  <2>1. MergeProgress(me) /\ MergeCourse(me)
    BY <1>9, LoneFacts
  <2>2. /\ Sources(tx) = Sources(me) /\ MovedBy(tx) = MovedBy(me)
        /\ Sources(me) = me.gone \cup {me.cur} /\ AtSource(me) /\ AtSource(tx)
    BY <1>1, <1>3 DEF Sources, MovedBy, AtSource
  <2>3. me.del \cup me.todo = Moved(Sources(me)) /\ Moved(Sources(me)) \in SUBSET occ
    BY <1>1, <2>1 DEF MergeProgress, Moved
  <2>4. x \in Moved(Sources(me)) /\ tx.del \cup tx.todo = Moved(Sources(tx))
    BY <1>5, <2>2, <2>3
  <2>5. me.cluster \notin Sources(me)
    BY <1>1, <2>1, <2>2 DEF MergeCourse
  <2>6. {y \in tx.del : y.cluster = me.cluster} = {y \in me.del : y.cluster = me.cluster}
    BY <1>2, <2>4, <2>5 DEF Moved
  <2>7. Placed(tx) /\ TicksKnown(tx)
    BY <1>3, <2>1, <2>2, <2>6, PlacedAsBefore
  <2>8. MergeProgress(tx)
    BY <1>1, <1>3, <2>1, <2>2, <2>4, <2>7 DEF MergeProgress
  <2>9. QED
    BY <1>3, <1>9, <2>8 DEF Progress
<1>10. QED
  BY <1>4, <1>6, <1>7, <1>8, <1>9

\* The DELETE is through.
LEMMA UnlinkEnds ==
  ASSUME NEW p \in Conns, Lone(p), txn[p].pc = "unlinking", txn[p].todo = {},
         Step(p, [txn[p] EXCEPT !.pc = AfterUnlink(txn[p].op)])
  PROVE  Advances(p)
<1> DEFINE me == txn[p]
           tx == [me EXCEPT !.pc = AfterUnlink(me.op)]
<1>1. DOMAIN me = Fields /\ me.pc = "unlinking" /\ me.todo = {} /\ Step(p, tx)
  BY LoneFacts
<1>2. Only(tx, me, {"pc"}) /\ tx.pc = AfterUnlink(me.op)
  BY <1>1 DEF Only, Fields
<1> HIDE DEF tx
<1>3. /\ tx.op = me.op /\ tx.todo = {} /\ tx.owner = me.owner /\ tx.cluster = me.cluster
      /\ tx.stream = me.stream /\ tx.ids = me.ids /\ tx.cur = me.cur /\ tx.put = me.put
      /\ tx.gone = me.gone /\ tx.ins = me.ins /\ tx.taken = me.taken /\ tx.del = me.del
  BY <1>1, <1>2, FieldsKept
<1>4. me.op \in {"delete", "detach", "cascade", "merge"}
  BY <1>1, LoneFacts DEF AppendCourse, RenameCourse, FieldCourse
<1> SUFFICES Progress(tx)
  BY <1>1 DEF Advances
<1>5. CASE me.op = "delete"
  <2>1. DeleteProgress(me) /\ tx.pc = "drop"
    BY <1>2, <1>5, LoneFacts DEF AfterUnlink
  <2>2. DeleteProgress(tx)
    BY <1>1, <1>3, <2>1 DEF DeleteProgress, TakesAway
  <2>3. QED
    BY <1>3, <1>5, <2>2 DEF Progress
<1>6. CASE me.op = "detach"
  <2>1. DetachProgress(me) /\ InStream(tx) = InStream(me) /\ tx.pc = "count"
    BY <1>2, <1>3, <1>6, LoneFacts DEF InStream, AfterUnlink
  <2>2. DetachProgress(tx)
    BY <1>1, <1>3, <2>1 DEF DetachProgress, TakesAway
  <2>3. QED
    BY <1>3, <1>6, <2>2 DEF Progress
<1>7. CASE me.op = "cascade"
  <2>1. CascadeProgress(me) /\ Touched(tx) = Touched(me) /\ tx.pc = "loop"
    BY <1>2, <1>3, <1>7, LoneFacts DEF Touched, AfterUnlink
  <2>2. Settled(tx) = {} /\ tx.gone = {} /\ tx.put = NoRows
    BY <1>1, <1>3, <2>1 DEF CascadeProgress, Settled
  <2>3. Emptied(OccIn(occ, tx.stream), Settled(tx)) = {} /\ Tallied(tx, Settled(tx) \ tx.gone)
    BY <1>3, <2>2 DEF Emptied, Tallied, NoRows
  <2>4. TakesAway(tx, OccIn(occ, tx.stream))
    BY <1>1, <1>3, <2>1 DEF CascadeProgress, TakesAway
  <2>5. CascadeProgress(tx)
    BY <1>1, <1>3, <2>1, <2>2, <2>3, <2>4 DEF CascadeProgress, AtCluster
  <2>6. QED
    BY <1>3, <1>7, <2>5 DEF Progress
<1>8. CASE me.op = "merge"
  <2>1. MergeProgress(me) /\ tx.pc = "drop"
    BY <1>2, <1>8, LoneFacts DEF AfterUnlink
  <2>2. Sources(tx) = Sources(me) /\ MovedBy(tx) = MovedBy(me) /\ AtSource(me) /\ AtSource(tx)
    BY <1>1, <1>3, <2>1 DEF Sources, MovedBy, AtSource
  <2>3. Placed(tx) /\ TicksKnown(tx)
    BY <1>3, <2>1, <2>2, PlacedAsBefore
  <2>4. MergeProgress(tx)
    BY <1>1, <1>3, <2>1, <2>2, <2>3 DEF MergeProgress
  <2>5. QED
    BY <1>3, <1>8, <2>4 DEF Progress
<1>9. QED
  BY <1>4, <1>5, <1>6, <1>7, <1>8

\* A recount begins: the rows T are counted.
LEMMA TallyBegins ==
  ASSUME NEW me, NEW tx, NEW T, tx.put = me.put, tx.del = me.del, tx.ins = me.ins,
         tx.todo = T, \A c \in T : tx.snap[c] = Cardinality(OccOf(Seen(me), c)),
         \A c \in DOMAIN me.put : me.put[c] = Fully(me, c)
  PROVE  Tallied(tx, DOMAIN me.put \cup T)
<1>1. Seen(tx) = Seen(me)
  BY DEF Seen
<1>2. QED
  BY <1>1 DEF Tallied, Fully

\* It writes one row.
LEMMA TallyGoesOn ==
  ASSUME NEW p \in Conns, NEW tx, NEW T \in SUBSET Live, NEW c \in txn[p].todo,
         Tallied(txn[p], T), tx.del = txn[p].del, tx.ins = txn[p].ins, tx.snap = txn[p].snap,
         tx.todo = txn[p].todo \ {c},
         tx.put = [k \in DOMAIN txn[p].put \cup ({c} \cap Live) |->
                     IF k = c THEN [Version(p, c) EXCEPT !.samples = txn[p].snap[c]]
                              ELSE txn[p].put[k]]
  PROVE  Tallied(tx, T)
<1> DEFINE me == txn[p]
           row == [Version(p, c) EXCEPT !.samples = me.snap[c]]
<1>1. Seen(tx) = Seen(me)
  BY DEF Seen
<1>2. /\ DOMAIN me.put \cup me.todo = T /\ \A k \in DOMAIN me.put : me.put[k] = Fully(me, k)
      /\ \A k \in me.todo : me.snap[k] = Cardinality(OccOf(Seen(me), k))
  BY DEF Tallied
<1>3. row = Fully(me, c)
  <2>1. Version(p, c) = rows[c] \/ Version(p, c) = Fully(me, c)
    BY <1>2 DEF Version
  <2>2. row = [rows[c] EXCEPT !.samples = me.snap[c]]
    BY <1>2, <2>1 DEF Fully
  <2>3. QED
    BY <1>2, <2>2 DEF Fully
<1> HIDE DEF row
<1>4. /\ DOMAIN tx.put = DOMAIN me.put \cup {c}
      /\ \A k \in DOMAIN tx.put : tx.put[k] = IF k = c THEN row ELSE me.put[k]
  BY <1>2 DEF row
<1>5. \A k : Fully(tx, k) = Fully(me, k)
  BY <1>1 DEF Fully
<1>6. DOMAIN tx.put \cup tx.todo = T
  BY <1>2, <1>4
<1>7. \A k \in DOMAIN tx.put : tx.put[k] = Fully(tx, k)
  BY <1>2, <1>3, <1>4, <1>5
<1>8. QED
  BY <1>1, <1>2, <1>6, <1>7 DEF Tallied

\* A record that leaves the tables of a recount alone.
LEMMA TallyKept ==
  ASSUME NEW me, NEW tx, NEW T, Tallied(me, T), tx.put = me.put, tx.todo = {}, me.todo = {},
         tx.del = me.del, tx.ins = me.ins
  PROVE  Tallied(tx, T)
<1>1. Seen(tx) = Seen(me)
  BY DEF Seen
<1>2. QED
  BY <1>1 DEF Tallied, Fully

\* The clusters of a cascade are in the table.
LEMMA TouchedLive ==
  ASSUME NEW p \in Conns, Lone(p)
  PROVE  Touched(txn[p]) \subseteq Live
BY LoneFacts DEF Touched, OccIn, OccurrencesOwned

\* The UPDATE of sample_count takes its snapshot.
LEMMA CountAdvances ==
  ASSUME NEW p \in Conns, Lone(p), Count(p)
  PROVE  Advances(p)
<1> DEFINE me == txn[p]
           T == Recounted(p)
           tx == [me EXCEPT !.pc = "counting", !.todo = T,
                            !.snap = [c \in T |-> Cardinality(OccOf(SeenOcc(p), c))]]
<1>1. DOMAIN me = Fields /\ me.pc = "count" /\ me.todo = {} /\ Step(p, tx)
  BY LoneFacts DEF Count, At, Doing
<1>2. /\ Only(tx, me, {"pc", "todo", "snap"}) /\ tx.pc = "counting" /\ tx.todo = T
      /\ \A c \in T : tx.snap[c] = Cardinality(OccOf(Seen(me), c))
  BY <1>1 DEF Only, Fields, SeenOcc, Seen
<1> HIDE DEF tx, T
<1>3. /\ tx.op = me.op /\ tx.owner = me.owner /\ tx.cluster = me.cluster
      /\ tx.stream = me.stream /\ tx.ids = me.ids /\ tx.cur = me.cur /\ tx.put = me.put
      /\ tx.gone = me.gone /\ tx.ins = me.ins /\ tx.taken = me.taken /\ tx.del = me.del
  BY <1>2, FieldsKept
<1>4. me.op \in {"append", "detach", "cascade", "merge"}
  BY <1>1, LoneFacts DEF DeleteCourse, RenameCourse, FieldCourse
<1>5. Seen(tx) = Seen(me) /\ Seen(me) = SeenOcc(p)
  BY <1>3 DEF Seen, SeenOcc
<1>6. (\A c \in DOMAIN me.put : me.put[c] = Fully(me, c)) => Tallied(tx, DOMAIN me.put \cup T)
  BY <1>2, <1>3, TallyBegins
<1>7. me.put = NoRows => Tallied(tx, T)
  <2>1. me.put = NoRows => DOMAIN me.put = {}
    BY DEF NoRows
  <2>2. QED
    BY <1>6, <2>1
<1> SUFFICES Progress(tx)
  BY <1>1 DEF Advances
<1>8. CASE me.op = "append"
  <2>1. AppendProgress(me)
    BY <1>8, LoneFacts
  <2>2. T = {c \in Live : /\ rows[c].owner = tx.owner
                          /\ OccIn(OccOf(Seen(tx), c), tx.stream) # {}}
    BY <1>3, <1>5, <1>8 DEF T, Recounted
  <2>3. AppendProgress(tx)
    BY <1>1, <1>2, <1>3, <1>7, <2>1, <2>2 DEF AppendProgress
  <2>4. QED
    BY <1>3, <1>8, <2>3 DEF Progress
<1>9. CASE me.op = "detach"
  <2>1. DetachProgress(me) /\ InStream(tx) = InStream(me)
    BY <1>3, <1>9, LoneFacts DEF InStream
  <2>2. T = {tx.cur}
    BY <1>3, <1>9, <2>1 DEF T, Recounted, DetachProgress, Owned
  <2>3. DetachProgress(tx)
    BY <1>1, <1>2, <1>3, <1>7, <2>1, <2>2 DEF DetachProgress, TakesAway
  <2>4. QED
    BY <1>3, <1>9, <2>3 DEF Progress
<1>10. CASE me.op = "cascade"
  <2>1. CascadeProgress(me) /\ Touched(tx) = Touched(me)
    BY <1>3, <1>10, LoneFacts DEF Touched
  <2>2. AtCluster(me) /\ AtCluster(tx) /\ Settled(tx) = Settled(me) /\ me.cur \in Touched(me)
    BY <1>1, <1>2, <1>3, <2>1 DEF AtCluster, Settled, CascadeProgress
  <2>3. T = {tx.cur}
    BY <1>3, <1>10, <2>2, TouchedLive DEF T, Recounted
  <2>4. Tallied(me, Settled(me) \ me.gone)
    BY <1>1, <2>1 DEF CascadeProgress
  <2>5. Tallied(tx, (Settled(tx) \ tx.gone) \cup {tx.cur})
    BY <1>1, <1>3, <1>6, <2>2, <2>3, <2>4 DEF Tallied
  <2>6. CascadeProgress(tx)
    BY <1>1, <1>2, <1>3, <2>1, <2>2, <2>5 DEF CascadeProgress, TakesAway
  <2>7. QED
    BY <1>3, <1>10, <2>6 DEF Progress
<1>11. CASE me.op = "merge"
  <2>1. MergeProgress(me) /\ me.cur = me.cluster
    BY <1>1, <1>11, LoneFacts DEF MergeCourse
  <2>2. T = {tx.cluster}
    BY <1>3, <1>11, <2>1 DEF T, Recounted, MergeProgress, Owned
  <2>3. Sources(tx) = Sources(me) /\ MovedBy(tx) = MovedBy(me) /\ ~AtSource(me) /\ ~AtSource(tx)
    BY <1>1, <1>2, <1>3 DEF Sources, MovedBy, AtSource
  <2>4. Placed(tx) /\ TicksKnown(tx)
    BY <1>3, <2>1, <2>3, PlacedAsBefore
  <2>5. MergeProgress(tx)
    BY <1>1, <1>2, <1>3, <1>7, <2>1, <2>2, <2>3, <2>4 DEF MergeProgress
  <2>6. QED
    BY <1>3, <1>11, <2>5 DEF Progress
<1>12. QED
  BY <1>4, <1>8, <1>9, <1>10, <1>11

\* One row of that UPDATE.
LEMMA CountRowGoesOn ==
  ASSUME NEW p \in Conns, Lone(p), txn[p].pc = "counting", NEW c \in txn[p].todo,
         Step(p, [txn[p] EXCEPT !.todo = @ \ {c},
                 !.put = [k \in DOMAIN @ \cup ({c} \cap Live) |->
                            IF k = c THEN [Version(p, c) EXCEPT !.samples = txn[p].snap[c]]
                                     ELSE @[k]]])
  PROVE  Advances(p)
<1> DEFINE me == txn[p]
           put == [k \in DOMAIN me.put \cup ({c} \cap Live) |->
                     IF k = c THEN [Version(p, c) EXCEPT !.samples = me.snap[c]] ELSE me.put[k]]
           tx == [me EXCEPT !.todo = @ \ {c}, !.put = put]
<1>1. DOMAIN me = Fields /\ me.pc = "counting" /\ Step(p, tx)
  BY LoneFacts
<1>2. Only(tx, me, {"todo", "put"}) /\ tx.todo = me.todo \ {c} /\ tx.put = put
  BY <1>1 DEF Only, Fields
<1> HIDE DEF tx
<1>3. /\ tx.op = me.op /\ tx.owner = me.owner /\ tx.cluster = me.cluster
      /\ tx.stream = me.stream /\ tx.ids = me.ids /\ tx.cur = me.cur /\ tx.snap = me.snap
      /\ tx.gone = me.gone /\ tx.ins = me.ins /\ tx.taken = me.taken /\ tx.del = me.del
      /\ tx.pc = me.pc
  BY <1>2, FieldsKept
<1>4. \A T \in SUBSET Live : Tallied(me, T) => Tallied(tx, T)
  BY <1>2, <1>3, TallyGoesOn
<1> HIDE DEF put
<1>5. me.op \in {"append", "detach", "cascade", "merge"}
  BY <1>1, LoneFacts DEF DeleteCourse, RenameCourse, FieldCourse
<1> SUFFICES Progress(tx)
  BY <1>1 DEF Advances
<1>6. CASE me.op = "append"
  <2> DEFINE T == {k \in Live : /\ rows[k].owner = me.owner
                                /\ OccIn(OccOf(Seen(me), k), me.stream) # {}}
  <2>1. AppendProgress(me) /\ Tallied(me, T)
    BY <1>1, <1>6, LoneFacts DEF AppendProgress
  <2>2. Seen(tx) = Seen(me)
    BY <1>3 DEF Seen
  <2>3. Tallied(tx, T)
    BY <1>4, <2>1
  <2>4. AppendProgress(tx)
    BY <1>1, <1>3, <2>1, <2>2, <2>3 DEF AppendProgress
  <2>5. QED
    BY <1>3, <1>6, <2>4 DEF Progress
<1>7. CASE me.op = "detach"
  <2>1. DetachProgress(me)
    BY <1>7, LoneFacts
  <2>2. InStream(tx) = InStream(me)
    BY <1>3 DEF InStream
  <2>3. {me.cur} \subseteq Live
    BY <2>1 DEF DetachProgress, Owned
  <2>4. DetachProgress(tx)
    BY <1>1, <1>3, <1>4, <2>1, <2>2, <2>3 DEF DetachProgress, TakesAway
  <2>5. QED
    BY <1>3, <1>7, <2>4 DEF Progress
<1>8. CASE me.op = "cascade"
  <2>1. CascadeProgress(me) /\ Touched(tx) = Touched(me)
    BY <1>3, <1>8, LoneFacts DEF Touched
  <2>2. AtCluster(me) /\ AtCluster(tx) /\ Settled(tx) = Settled(me) /\ me.cur \in Touched(me)
    BY <1>1, <1>3, <2>1 DEF AtCluster, Settled, CascadeProgress
  <2>3. Settled(me) \cup {me.cur} \subseteq Live
    BY <2>2, TouchedLive DEF Settled
  <2>4. Tallied(tx, (Settled(me) \ me.gone) \cup {me.cur})
    BY <1>1, <1>4, <2>1, <2>3 DEF CascadeProgress
  <2>5. CascadeProgress(tx)
    BY <1>1, <1>3, <2>1, <2>2, <2>4 DEF CascadeProgress, TakesAway
  <2>6. QED
    BY <1>3, <1>8, <2>5 DEF Progress
<1>9. CASE me.op = "merge"
  <2>1. MergeProgress(me) /\ {me.cluster} \subseteq Live
    BY <1>9, LoneFacts DEF MergeProgress, Owned
  <2>2. Sources(tx) = Sources(me) /\ MovedBy(tx) = MovedBy(me) /\ ~AtSource(me) /\ ~AtSource(tx)
    BY <1>1, <1>3 DEF Sources, MovedBy, AtSource
  <2>3. Placed(tx) /\ TicksKnown(tx)
    BY <1>3, <2>1, <2>2, PlacedAsBefore
  <2>4. MergeProgress(tx)
    BY <1>1, <1>3, <1>4, <2>1, <2>2, <2>3 DEF MergeProgress
  <2>5. QED
    BY <1>3, <1>9, <2>4 DEF Progress
<1>10. QED
  BY <1>5, <1>6, <1>7, <1>8, <1>9

\* The recount is through.
LEMMA CountEnds ==
  ASSUME NEW p \in Conns, Lone(p), txn[p].pc = "counting", txn[p].todo = {},
         Step(p, [txn[p] EXCEPT !.pc = AfterCount(txn[p].op), !.snap = NoRows])
  PROVE  Advances(p)
<1> DEFINE me == txn[p]
           tx == [me EXCEPT !.pc = AfterCount(me.op), !.snap = NoRows]
<1>1. DOMAIN me = Fields /\ me.pc = "counting" /\ me.todo = {} /\ Step(p, tx)
  BY LoneFacts
<1>2. Only(tx, me, {"pc", "snap"}) /\ tx.pc = AfterCount(me.op)
  BY <1>1 DEF Only, Fields
<1> HIDE DEF tx
<1>3. /\ tx.op = me.op /\ tx.owner = me.owner /\ tx.cluster = me.cluster
      /\ tx.stream = me.stream /\ tx.ids = me.ids /\ tx.cur = me.cur /\ tx.todo = {}
      /\ tx.gone = me.gone /\ tx.ins = me.ins /\ tx.taken = me.taken /\ tx.del = me.del
      /\ tx.put = me.put
  BY <1>1, <1>2, FieldsKept
<1>4. \A T : Tallied(me, T) => Tallied(tx, T)
  BY <1>1, <1>3, TallyKept
<1>5. me.op \in {"append", "detach", "cascade", "merge"}
  BY <1>1, LoneFacts DEF DeleteCourse, RenameCourse, FieldCourse
<1> SUFFICES Progress(tx)
  BY <1>1 DEF Advances
<1>6. CASE me.op = "append"
  <2>1. AppendProgress(me) /\ Seen(tx) = Seen(me) /\ tx.pc = "commit"
    BY <1>2, <1>3, <1>6, LoneFacts DEF Seen, AfterCount
  <2>2. AppendProgress(tx)
    BY <1>1, <1>3, <1>4, <2>1 DEF AppendProgress
  <2>3. QED
    BY <1>3, <1>6, <2>2 DEF Progress
<1>7. CASE me.op = "detach"
  <2>1. DetachProgress(me) /\ DetachCourse(me) /\ InStream(tx) = InStream(me) /\ tx.pc = "drop"
    BY <1>2, <1>3, <1>7, LoneFacts DEF InStream, AfterCount
  <2>2. DetachProgress(tx)
    BY <1>1, <1>3, <1>4, <2>1 DEF DetachProgress, TakesAway
  <2>3. QED
    BY <1>3, <1>7, <2>2 DEF Progress
<1>8. CASE me.op = "cascade"
  <2>1. CascadeProgress(me) /\ Touched(tx) = Touched(me) /\ tx.pc = "drop"
    BY <1>2, <1>3, <1>8, LoneFacts DEF Touched, AfterCount
  <2>2. AtCluster(me) /\ AtCluster(tx) /\ Settled(tx) = Settled(me)
    BY <1>1, <1>3, <2>1 DEF AtCluster, Settled
  <2>3. CascadeProgress(tx)
    BY <1>1, <1>3, <1>4, <2>1, <2>2 DEF CascadeProgress, TakesAway
  <2>4. QED
    BY <1>3, <1>8, <2>3 DEF Progress
<1>9. CASE me.op = "merge"
  <2>1. MergeProgress(me) /\ tx.pc = "commit"
    BY <1>2, <1>9, LoneFacts DEF AfterCount
  <2>2. Sources(tx) = Sources(me) /\ MovedBy(tx) = MovedBy(me) /\ ~AtSource(me) /\ ~AtSource(tx)
    BY <1>1, <1>3, <2>1 DEF Sources, MovedBy, AtSource
  <2>3. Placed(tx) /\ TicksKnown(tx)
    BY <1>3, <2>1, <2>2, PlacedAsBefore
  <2>4. MergeProgress(tx)
    BY <1>1, <1>3, <1>4, <2>1, <2>2, <2>3 DEF MergeProgress
  <2>5. QED
    BY <1>3, <1>9, <2>4 DEF Progress
<1>10. QED
  BY <1>5, <1>6, <1>7, <1>8, <1>9

\* A cluster counts no occurrence when the removal took all of them.
LEMMA CountsNone ==
  ASSUME TypeInv, NEW X, NEW c
  PROVE  Cardinality(OccOf(occ \ X, c)) = 0 <=> OccOf(occ, c) \subseteq X
<1>1. IsFiniteSet(OccOf(occ \ X, c))
  BY FS_Subset DEF TypeInv, OccFinite, OccOf
<1>2. Cardinality(OccOf(occ \ X, c)) = 0 <=> OccOf(occ \ X, c) = {}
  BY <1>1, FS_EmptySet
<1>3. QED
  BY <1>2 DEF OccOf

\* The recount tells whether the cluster is dropped.
LEMMA CountDecides ==
  ASSUME NEW p \in Conns, Lone(p), NEW X \in SUBSET occ, NEW T, Tallied(txn[p], T),
         txn[p].todo = {}, txn[p].del = X, txn[p].ins = {}, txn[p].cur \in T \cap Live
  PROVE  Version(p, txn[p].cur).samples = 0 <=> OccOf(occ, txn[p].cur) \subseteq X
<1> DEFINE me == txn[p]
           c == me.cur
<1>1. Seen(me) = occ \ X
  BY DEF Seen
<1>2. Version(p, c) = Fully(me, c)
  BY DEF Tallied, Version
<1>3. rows[c] \in Row
  BY LoneFacts DEF TypeInv, TypeOK
<1>4. Version(p, c).samples = Cardinality(OccOf(occ \ X, c))
  BY <1>1, <1>2, <1>3 DEF Fully, Row
<1>5. QED
  BY <1>4, CountsNone, LoneFacts

\* The DELETE of the cluster, when its WHERE holds.
LEMMA DropGoes ==
  ASSUME NEW p \in Conns, Lone(p), txn[p].pc = "drop", Drops(p),
         Step(p, [txn[p] EXCEPT !.pc = AfterDrop(txn[p].op), !.gone = @ \cup {txn[p].cur},
                                !.put = [k \in DOMAIN @ \ {txn[p].cur} |-> @[k]],
                                !.del = @ \cup OccOf(occ, txn[p].cur)])
  PROVE  Advances(p)
<1> DEFINE me == txn[p]
           c == me.cur
           put == [k \in DOMAIN me.put \ {c} |-> me.put[k]]
           tx == [me EXCEPT !.pc = AfterDrop(me.op), !.gone = @ \cup {c}, !.put = put,
                            !.del = @ \cup OccOf(occ, c)]
<1>1. DOMAIN me = Fields /\ me.pc = "drop" /\ me.todo = {} /\ Step(p, tx)
  BY LoneFacts DEF Doing
<1>2. /\ Only(tx, me, {"pc", "gone", "put", "del"}) /\ tx.pc = AfterDrop(me.op)
      /\ tx.gone = me.gone \cup {c} /\ tx.put = put /\ tx.del = me.del \cup OccOf(occ, c)
  BY <1>1 DEF Only, Fields
<1> HIDE DEF tx
<1>3. /\ tx.op = me.op /\ tx.owner = me.owner /\ tx.cluster = me.cluster
      /\ tx.stream = me.stream /\ tx.ids = me.ids /\ tx.cur = me.cur /\ tx.todo = {}
      /\ tx.ins = me.ins /\ tx.taken = me.taken
  BY <1>1, <1>2, FieldsKept
<1>4. me.op \in {"delete", "detach", "cascade", "merge"}
  BY <1>1, LoneFacts DEF AppendCourse, RenameCourse, FieldCourse
<1>5. me.put = NoRows => put = NoRows
  BY DEF NoRows
<1>6. ASSUME NEW T, Tallied(me, T), tx.del = me.del
      PROVE  Tallied(tx, T \ {c})
  <2>1. Seen(tx) = Seen(me)
    BY <1>3, <1>6 DEF Seen
  <2>2. DOMAIN put = T \ {c} /\ \A k \in DOMAIN put : put[k] = Fully(me, k)
    BY <1>1, <1>6 DEF Tallied
  <2>3. QED
    BY <1>2, <1>3, <2>1, <2>2 DEF Tallied, Fully
<1> HIDE DEF put
<1> SUFFICES Progress(tx)
  BY <1>1 DEF Advances
<1>7. CASE me.op = "delete"
  <2>1. DeleteProgress(me) /\ tx.pc = "commit"
    BY <1>2, <1>7, LoneFacts DEF AfterDrop
  <2>2. DeleteProgress(tx)
    BY <1>1, <1>2, <1>3, <1>5, <2>1 DEF DeleteProgress, TakesAway
  <2>3. QED
    BY <1>3, <1>7, <2>2 DEF Progress
<1>8. CASE me.op = "detach"
  <2>1. /\ DetachProgress(me) /\ DetachCourse(me) /\ InStream(tx) = InStream(me)
        /\ tx.pc = "commit" /\ InStream(me) \in SUBSET occ
    BY <1>2, <1>3, <1>8, LoneFacts DEF InStream, AfterDrop
  <2>2. /\ Tallied(me, {c}) /\ me.del = InStream(me) /\ me.ins = {} /\ c \in Live /\ me.gone = {}
    BY <1>1, <2>1 DEF DetachProgress, DetachCourse, TakesAway, Owned
  <2>3. OccOf(occ, c) \subseteq InStream(me)
    BY <1>1, <1>8, <2>1, <2>2, CountDecides DEF Drops
  <2>4. tx.del = me.del /\ tx.gone = {c} /\ Emptied(InStream(me), {c}) = {c}
    BY <1>2, <2>2, <2>3 DEF Emptied
  <2>5. Tallied(tx, {c} \ tx.gone)
    BY <1>6, <2>2, <2>4
  <2>6. DetachProgress(tx)
    BY <1>1, <1>3, <2>1, <2>2, <2>4, <2>5 DEF DetachProgress, TakesAway
  <2>7. QED
    BY <1>3, <1>8, <2>6 DEF Progress
<1>9. CASE me.op = "cascade"
  <2> DEFINE X == OccIn(occ, me.stream)
  <2>1. /\ CascadeProgress(me) /\ CascadeCourse(me) /\ Touched(tx) = Touched(me)
        /\ tx.pc = "loop" /\ X \in SUBSET occ
    BY <1>2, <1>3, <1>9, LoneFacts DEF Touched, AfterDrop, OccIn
  <2>2. /\ AtCluster(me) /\ ~AtCluster(tx) /\ c \in Touched(me) /\ c \in Live
        /\ c \notin me.ids \cup me.gone
    BY <1>1, <2>1, TouchedLive DEF AtCluster, CascadeProgress, CascadeCourse
  <2>3. Settled(tx) = Settled(me) \cup {c} /\ c \notin Settled(me)
    BY <1>3, <2>1, <2>2 DEF Settled
  <2>4. /\ Tallied(me, (Settled(me) \ me.gone) \cup {c}) /\ me.del = X /\ me.ins = {}
        /\ me.gone = Emptied(X, Settled(me))
    BY <1>1, <2>1 DEF CascadeProgress, TakesAway
  <2>5. OccOf(occ, c) \subseteq X
    BY <1>1, <1>9, <2>1, <2>2, <2>4, CountDecides DEF Drops
  <2>6. tx.del = me.del /\ tx.gone = Emptied(X, Settled(tx))
    BY <1>2, <2>3, <2>4, <2>5 DEF Emptied
  <2>7. Tallied(tx, Settled(tx) \ tx.gone)
    <3>1. ((Settled(me) \ me.gone) \cup {c}) \ {c} = Settled(tx) \ tx.gone
      BY <1>2, <2>3
    <3>2. QED
      BY <1>6, <2>4, <2>6, <3>1
  <2>8. CascadeProgress(tx)
    BY <1>1, <1>3, <2>1, <2>2, <2>4, <2>6, <2>7 DEF CascadeProgress, TakesAway
  <2>9. QED
    BY <1>3, <1>9, <2>8 DEF Progress
<1>10. CASE me.op = "merge"
  <2>1. MergeProgress(me) /\ MergeCourse(me) /\ tx.pc = "loop"
    BY <1>2, <1>10, LoneFacts DEF AfterDrop
  <2>2. /\ Sources(me) = me.gone \cup {c} /\ Sources(tx) = tx.gone /\ Sources(tx) = Sources(me)
        /\ MovedBy(tx) = MovedBy(me) /\ ~AtSource(tx)
    BY <1>1, <1>2, <2>1 DEF Sources, MovedBy, AtSource
  <2>3. me.del = Moved(Sources(me)) /\ tx.del = Moved(tx.gone)
    BY <1>1, <1>2, <2>1, <2>2 DEF MergeProgress, Moved, OccOf
  <2>4. Placed(tx) /\ TicksKnown(tx)
    BY <1>3, <2>1, <2>2, <2>3, PlacedAsBefore
  <2>5. tx.put = NoRows
    BY <1>1, <1>2, <1>5, <2>1 DEF MergeProgress
  <2>6. MergeProgress(tx)
    BY <1>1, <1>3, <2>1, <2>2, <2>3, <2>4, <2>5 DEF MergeProgress
  <2>7. QED
    BY <1>3, <1>10, <2>6 DEF Progress
<1>11. QED
  BY <1>4, <1>7, <1>8, <1>9, <1>10

\* The cluster is left: its WHERE does not hold.
LEMMA DropPassesBy ==
  ASSUME NEW p \in Conns, Lone(p), txn[p].pc = "drop", ~Drops(p),
         Step(p, [txn[p] EXCEPT !.pc = AfterDrop(txn[p].op)])
  PROVE  Advances(p)
<1> DEFINE me == txn[p]
           c == me.cur
           tx == [me EXCEPT !.pc = AfterDrop(me.op)]
<1>1. DOMAIN me = Fields /\ me.pc = "drop" /\ me.todo = {} /\ Step(p, tx)
  BY LoneFacts DEF Doing
<1>2. Only(tx, me, {"pc"}) /\ tx.pc = AfterDrop(me.op)
  BY <1>1 DEF Only, Fields
<1> HIDE DEF tx
<1>3. /\ tx.op = me.op /\ tx.owner = me.owner /\ tx.cluster = me.cluster
      /\ tx.stream = me.stream /\ tx.ids = me.ids /\ tx.cur = me.cur /\ tx.todo = {}
      /\ tx.ins = me.ins /\ tx.taken = me.taken /\ tx.put = me.put /\ tx.gone = me.gone
      /\ tx.del = me.del
  BY <1>1, <1>2, FieldsKept
<1>4. \A T : Tallied(me, T) => Tallied(tx, T)
  BY <1>1, <1>3, TallyKept
<1> SUFFICES Progress(tx)
  BY <1>1 DEF Advances
<1>5. me.op \in {"detach", "cascade"}
  <2>1. me.op \in {"delete", "detach", "cascade", "merge"}
    BY <1>1, LoneFacts DEF AppendCourse, RenameCourse, FieldCourse
  <2>2. me.op = "delete" => Drops(p)
    BY <1>1, LoneFacts DEF Drops, Shows, DeleteProgress, Owned
  <2>3. me.op = "merge" => Drops(p)
    BY <1>1, LoneFacts DEF Drops, Shows, MergeProgress, Owned, Sources, AtSource
  <2>4. QED
    BY <2>1, <2>2, <2>3
<1>6. CASE me.op = "detach"
  <2>1. /\ DetachProgress(me) /\ DetachCourse(me) /\ InStream(tx) = InStream(me)
        /\ tx.pc = "commit" /\ InStream(me) \in SUBSET occ
    BY <1>2, <1>3, <1>6, LoneFacts DEF InStream, AfterDrop
  <2>2. /\ Tallied(me, {c}) /\ me.del = InStream(me) /\ me.ins = {} /\ c \in Live /\ me.gone = {}
    BY <1>1, <2>1 DEF DetachProgress, DetachCourse, TakesAway, Owned
  <2>3. ~(OccOf(occ, c) \subseteq InStream(me))
    BY <1>1, <1>6, <2>1, <2>2, CountDecides DEF Drops, Shows
  <2>4. Emptied(InStream(me), {c}) = {}
    BY <2>3 DEF Emptied
  <2>5. Tallied(tx, {c} \ tx.gone)
    BY <1>3, <1>4, <2>2
  <2>6. DetachProgress(tx)
    BY <1>1, <1>3, <2>1, <2>2, <2>4, <2>5 DEF DetachProgress, TakesAway
  <2>7. QED
    BY <1>3, <1>6, <2>6 DEF Progress
<1>7. CASE me.op = "cascade"
  <2> DEFINE X == OccIn(occ, me.stream)
  <2>1. /\ CascadeProgress(me) /\ CascadeCourse(me) /\ Touched(tx) = Touched(me)
        /\ tx.pc = "loop" /\ X \in SUBSET occ
    BY <1>2, <1>3, <1>7, LoneFacts DEF Touched, AfterDrop, OccIn
  <2>2. /\ AtCluster(me) /\ ~AtCluster(tx) /\ c \in Touched(me) /\ c \in Live
        /\ c \notin me.ids \cup me.gone
    BY <1>1, <2>1, TouchedLive DEF AtCluster, CascadeProgress, CascadeCourse
  <2>3. Settled(tx) = Settled(me) \cup {c} /\ c \notin Settled(me)
    BY <1>3, <2>1, <2>2 DEF Settled
  <2>4. /\ Tallied(me, (Settled(me) \ me.gone) \cup {c}) /\ me.del = X /\ me.ins = {}
        /\ me.gone = Emptied(X, Settled(me))
    BY <1>1, <2>1 DEF CascadeProgress, TakesAway
  <2>5. ~(OccOf(occ, c) \subseteq X)
    BY <1>1, <1>7, <2>1, <2>2, <2>4, CountDecides DEF Drops, Shows
  <2>6. tx.gone = Emptied(X, Settled(tx))
    BY <1>3, <2>3, <2>4, <2>5 DEF Emptied
  <2>7. Tallied(tx, Settled(tx) \ tx.gone)
    <3>1. (Settled(me) \ me.gone) \cup {c} = Settled(tx) \ tx.gone
      BY <1>3, <2>2, <2>3
    <3>2. QED
      BY <1>4, <2>4, <3>1
  <2>8. CascadeProgress(tx)
    BY <1>1, <1>3, <2>1, <2>2, <2>4, <2>6, <2>7 DEF CascadeProgress, TakesAway
  <2>9. QED
    BY <1>3, <1>7, <2>8 DEF Progress
<1>8. QED
  BY <1>5, <1>6, <1>7

(***************************************************************************)
(* Its statements: inserts, loops, names, single columns.                  *)
(***************************************************************************)

\* The INSERTs of an append.
LEMMA InsertAdvances ==
  ASSUME NEW p \in Conns, Lone(p), Insert(p)
  PROVE  Advances(p)
<1> DEFINE me == txn[p]
<1>1. DOMAIN me = Fields /\ me.pc = "insert"
  BY LoneFacts DEF Insert, At
<1>2. me.op = "append" /\ AppendCourse(me) /\ AppendProgress(me) /\ me.put = NoRows
  BY <1>1, LoneFacts DEF DeleteCourse, DetachCourse, CascadeCourse, MergeCourse, RenameCourse,
     FieldCourse, AppendProgress
<1>3. ASSUME NEW i \in me.ids, Step(p, [me EXCEPT !.ids = @ \ {i}])
      PROVE  Advances(p)
  <2> DEFINE tx == [me EXCEPT !.ids = @ \ {i}]
  <2>1. Only(tx, me, {"ids"}) /\ tx.ids = me.ids \ {i} /\ Step(p, tx)
    BY <1>1, <1>3 DEF Only, Fields
  <2> HIDE DEF tx
  <2>2. /\ tx.op = me.op /\ tx.pc = me.pc /\ tx.owner = me.owner /\ tx.stream = me.stream
        /\ tx.put = me.put /\ tx.ins = me.ins /\ tx.del = me.del
    BY <2>1, FieldsKept
  <2>3. AppendProgress(tx)
    BY <1>1, <1>2, <2>1, <2>2 DEF AppendProgress
  <2>4. QED
    BY <1>2, <2>1, <2>2, <2>3 DEF Advances, Progress
<1>4. ASSUME NEW i \in me.ids, NEW x, x = Occurrence(me.stream, i[1], i[2], me.owner),
             ~\E y \in occ : SameKey(x, y),
             Step(p, [me EXCEPT !.ids = @ \ {i}, !.ins = @ \cup {x}, !.share = @ \cup {i[1]}])
      PROVE  Advances(p)
  <2> DEFINE tx == [me EXCEPT !.ids = @ \ {i}, !.ins = @ \cup {x}, !.share = @ \cup {i[1]}]
  <2>1. /\ Only(tx, me, {"ids", "ins", "share"}) /\ tx.ids = me.ids \ {i}
        /\ tx.ins = me.ins \cup {x} /\ Step(p, tx)
    BY <1>1, <1>4 DEF Only, Fields
  <2> HIDE DEF tx
  <2>2. /\ tx.op = me.op /\ tx.pc = me.pc /\ tx.owner = me.owner /\ tx.stream = me.stream
        /\ tx.put = me.put /\ tx.del = me.del
    BY <2>1, FieldsKept
  <2>3. x.stream = me.stream /\ x.owner = me.owner /\ x.cluster = i[1] /\ x.t = i[2]
    BY <1>4 DEF Occurrence
  <2>4. i[2] \in SampleTimes /\ Owned(i[1], me.owner)
    BY <1>2 DEF AppendCourse, AppendProgress
  <2>5. AppendProgress(tx)
    BY <1>1, <1>2, <1>4, <2>1, <2>2, <2>3, <2>4 DEF AppendProgress
  <2>6. QED
    BY <1>2, <2>1, <2>2, <2>5 DEF Advances, Progress
<1>5. ASSUME Step(p, [me EXCEPT !.pc = "count"])
      PROVE  Advances(p)
  <2> DEFINE tx == [me EXCEPT !.pc = "count"]
  <2>1. Only(tx, me, {"pc"}) /\ tx.pc = "count" /\ Step(p, tx)
    BY <1>1, <1>5 DEF Only, Fields
  <2> HIDE DEF tx
  <2>2. /\ tx.op = me.op /\ tx.owner = me.owner /\ tx.stream = me.stream /\ tx.ids = me.ids
        /\ tx.put = me.put /\ tx.ins = me.ins /\ tx.del = me.del
    BY <2>1, FieldsKept
  <2>3. AppendProgress(tx)
    BY <1>1, <1>2, <2>1, <2>2 DEF AppendProgress
  <2>4. QED
    BY <1>2, <2>1, <2>2, <2>3 DEF Advances, Progress
<1>6. QED
  BY <1>3, <1>4, <1>5, RollbackEnds DEF Insert

\* The loop of a cascade.
LEMMA CascadeLoopAdvances ==
  ASSUME NEW p \in Conns, Lone(p), CascadeLoop(p)
  PROVE  Advances(p)
<1> DEFINE me == txn[p]
<1>1. DOMAIN me = Fields /\ me.pc = "loop" /\ me.op = "cascade" /\ me.todo = {}
  BY LoneFacts DEF CascadeLoop, At, Doing
<1>2. CascadeProgress(me) /\ Tallied(me, Settled(me) \ me.gone) /\ ~AtCluster(me)
  BY <1>1, LoneFacts DEF CascadeProgress, AtCluster
<1>3. ASSUME NEW c \in me.ids, Step(p, [me EXCEPT !.ids = @ \ {c}, !.cur = c, !.pc = "count"])
      PROVE  Advances(p)
  <2> DEFINE tx == [me EXCEPT !.ids = @ \ {c}, !.cur = c, !.pc = "count"]
  <2>1. /\ Only(tx, me, {"ids", "cur", "pc"}) /\ tx.ids = me.ids \ {c} /\ tx.cur = c
        /\ tx.pc = "count" /\ Step(p, tx)
    BY <1>1, <1>3 DEF Only, Fields
  <2> HIDE DEF tx
  <2>2. /\ tx.op = me.op /\ tx.stream = me.stream /\ tx.put = me.put /\ tx.ins = me.ins
        /\ tx.del = me.del /\ tx.gone = me.gone /\ tx.todo = {}
    BY <1>1, <2>1, FieldsKept
  <2>3. Touched(tx) = Touched(me) /\ AtCluster(tx)
    BY <2>1, <2>2 DEF Touched, AtCluster
  <2>4. Settled(tx) = Settled(me)
    BY <1>2, <1>3, <2>1, <2>3 DEF Settled
  <2>5. Tallied(tx, Settled(tx) \ tx.gone)
    BY <1>1, <1>2, <2>2, <2>4, TallyKept
  <2>6. CascadeProgress(tx)
    BY <1>1, <1>2, <2>1, <2>2, <2>3, <2>4, <2>5 DEF CascadeProgress, TakesAway
  <2>7. QED
    BY <1>1, <2>1, <2>2, <2>6 DEF Advances, Progress
<1>4. ASSUME me.ids = {}, Step(p, [me EXCEPT !.pc = "commit"])
      PROVE  Advances(p)
  <2> DEFINE tx == [me EXCEPT !.pc = "commit"]
  <2>1. Only(tx, me, {"pc"}) /\ tx.pc = "commit" /\ Step(p, tx)
    BY <1>1, <1>4 DEF Only, Fields
  <2> HIDE DEF tx
  <2>2. /\ tx.op = me.op /\ tx.stream = me.stream /\ tx.put = me.put /\ tx.ins = me.ins
        /\ tx.del = me.del /\ tx.gone = me.gone /\ tx.todo = {} /\ tx.ids = me.ids
        /\ tx.cur = me.cur
    BY <1>1, <2>1, FieldsKept
  <2>3. Touched(tx) = Touched(me) /\ ~AtCluster(tx)
    BY <2>1, <2>2 DEF Touched, AtCluster
  <2>4. Settled(tx) = Settled(me)
    BY <1>2, <2>2, <2>3 DEF Settled
  <2>5. Tallied(tx, Settled(tx) \ tx.gone)
    BY <1>1, <1>2, <2>2, <2>4, TallyKept
  <2>6. CascadeProgress(tx)
    BY <1>1, <1>2, <1>4, <2>1, <2>2, <2>3, <2>4, <2>5 DEF CascadeProgress, TakesAway
  <2>7. QED
    BY <1>1, <2>1, <2>2, <2>6 DEF Advances, Progress
<1>5. QED
  BY <1>3, <1>4 DEF CascadeLoop

\* The check of a rename.
LEMMA CheckNameAdvances ==
  ASSUME NEW p \in Conns, Lone(p), CheckName(p)
  PROVE  Advances(p)
<1> DEFINE me == txn[p]
           next == IF NameTaken(me.cluster, me.owner, me.value) THEN "commit" ELSE "name"
           tx == [me EXCEPT !.pc = next]
<1>1. DOMAIN me = Fields /\ me.pc = "check" /\ Step(p, tx)
  BY LoneFacts DEF CheckName, At
<1>2. me.op = "rename" /\ RenameProgress(me)
  BY <1>1, LoneFacts DEF AppendCourse, DeleteCourse, DetachCourse, CascadeCourse, MergeCourse,
     FieldCourse
<1>3. Only(tx, me, {"pc"}) /\ tx.pc = next
  BY <1>1 DEF Only, Fields
<1> HIDE DEF tx
<1>4. /\ tx.op = me.op /\ tx.owner = me.owner /\ tx.cluster = me.cluster /\ tx.value = me.value
      /\ tx.put = me.put /\ tx.ins = me.ins /\ tx.del = me.del
  BY <1>3, FieldsKept
<1>5. RenameProgress(tx)
  BY <1>1, <1>2, <1>3, <1>4 DEF RenameProgress
<1>6. QED
  BY <1>1, <1>2, <1>4, <1>5 DEF Advances, Progress

\* Its UPDATE.
LEMMA SetNameAdvances ==
  ASSUME NEW p \in Conns, Lone(p), SetName(p)
  PROVE  Advances(p)
<1> DEFINE me == txn[p]
           put == [k \in {me.cluster} \cap Live |-> [rows[k] EXCEPT !.name = me.value]]
           tx == [me EXCEPT !.pc = "commit", !.put = put]
<1>1. DOMAIN me = Fields /\ me.pc = "name"
  BY LoneFacts DEF SetName, At
<1>2. me.op = "rename" /\ RenameProgress(me) /\ me.cluster \in Live
  BY <1>1, LoneFacts DEF AppendCourse, DeleteCourse, DetachCourse, CascadeCourse, MergeCourse,
     FieldCourse, RenameProgress, Owned
<1>3. \/ Rollback(p)
      \/ Step(p, tx) /\ ~NameTaken(me.cluster, me.owner, me.value)
  <2>1. \/ Rollback(p)
        \/ Step(p, tx) /\ ~(me.cluster \in Live /\ NameTaken(me.cluster, me.owner, me.value))
    BY DEF SetName
  <2>2. QED
    BY <1>2, <2>1
<1>4. Only(tx, me, {"pc", "put"}) /\ tx.pc = "commit" /\ tx.put = put
  BY <1>1 DEF Only, Fields
<1>5. put = [k \in {me.cluster} |-> [rows[k] EXCEPT !.name = me.value]]
  BY <1>2
<1> HIDE DEF tx, put
<1>6. /\ tx.op = me.op /\ tx.owner = me.owner /\ tx.cluster = me.cluster /\ tx.value = me.value
      /\ tx.ins = me.ins /\ tx.del = me.del
  BY <1>4, FieldsKept
<1>7. ~NameTaken(me.cluster, me.owner, me.value) => RenameProgress(tx)
  BY <1>1, <1>2, <1>4, <1>5, <1>6 DEF RenameProgress
<1>8. QED
  BY <1>2, <1>3, <1>6, <1>7, RollbackEnds DEF Advances, Progress

\* The UPDATE of a crop key or a centroid.
LEMMA UpdateAdvances ==
  ASSUME NEW p \in Conns, Lone(p), Update(p)
  PROVE  Advances(p)
<1> DEFINE me == txn[p]
           put == [k \in {c \in {me.cluster} : Owned(c, me.owner)} |-> Updated(me, rows[k])]
           tx == [me EXCEPT !.pc = "commit", !.put = put]
<1>1. DOMAIN me = Fields /\ me.pc = "update" /\ Step(p, tx)
  BY LoneFacts DEF Update, At
<1>2. me.op \in {"crop", "centroid"} /\ FieldProgress(me)
  BY <1>1, LoneFacts DEF AppendCourse, DeleteCourse, DetachCourse, CascadeCourse, MergeCourse,
     RenameCourse
<1>3. Only(tx, me, {"pc", "put"}) /\ tx.pc = "commit" /\ tx.put = put
  BY <1>1 DEF Only, Fields
<1> HIDE DEF tx
<1>4. /\ tx.op = me.op /\ tx.owner = me.owner /\ tx.cluster = me.cluster /\ tx.value = me.value
      /\ tx.ins = me.ins /\ tx.del = me.del
  BY <1>3, FieldsKept
<1>5. \A row : Updated(tx, row) = Updated(me, row)
  BY <1>4 DEF Updated
<1>6. ~Owned(me.cluster, me.owner) => put = NoRows
  BY DEF NoRows
<1>7. Owned(me.cluster, me.owner) => put = [k \in {tx.cluster} |-> Updated(tx, rows[k])]
  BY <1>4, <1>5
<1> HIDE DEF put
<1>8. FieldProgress(tx)
  BY <1>1, <1>2, <1>3, <1>4, <1>6, <1>7 DEF FieldProgress
<1>9. QED
  BY <1>1, <1>2, <1>4, <1>8 DEF Advances, Progress

(***************************************************************************)
(* Its statements: the loop of a merge.  The samples moved so far are a    *)
(* placement of Library, and occ_cache knows every tick of the target.     *)
(***************************************************************************)

\* The transaction's own inserts are the target's.
LEMMA InsertsAtTarget ==
  ASSUME NEW me, Placed(me)
  PROVE  \A x \in me.ins : x.cluster = me.cluster
BY DEF Placed, PlacedAt

\* The next source of a merge, or its recount.
LEMMA MergeLoopAdvances ==
  ASSUME NEW p \in Conns, Lone(p), MergeLoop(p)
  PROVE  Advances(p)
<1> DEFINE me == txn[p]
<1>1. DOMAIN me = Fields /\ me.pc = "loop" /\ me.op = "merge" /\ me.todo = {}
  BY LoneFacts DEF MergeLoop, At, Doing
<1>2. MergeProgress(me) /\ MergeCourse(me) /\ Sources(me) = me.gone /\ MovedBy(me) = Moved(me.gone)
  BY <1>1, LoneFacts DEF Sources, AtSource, MovedBy
<1>3. ASSUME NEW c \in me.ids,
             Step(p, [me EXCEPT !.ids = @ \ {c}, !.cur = c, !.pc = "move",
                                !.todo = OccOf(SeenOcc(p), c)])
      PROVE  Advances(p)
  <2> DEFINE tx == [me EXCEPT !.ids = @ \ {c}, !.cur = c, !.pc = "move",
                              !.todo = OccOf(SeenOcc(p), c)]
  <2>1. /\ Only(tx, me, {"ids", "cur", "pc", "todo"}) /\ tx.ids = me.ids \ {c} /\ tx.cur = c
        /\ tx.pc = "move" /\ tx.todo = OccOf(SeenOcc(p), c) /\ Step(p, tx)
    BY <1>1, <1>3 DEF Only, Fields
  <2> HIDE DEF tx
  <2>2. /\ tx.op = me.op /\ tx.owner = me.owner /\ tx.cluster = me.cluster /\ tx.put = me.put
        /\ tx.ins = me.ins /\ tx.del = me.del /\ tx.gone = me.gone /\ tx.taken = me.taken
    BY <2>1, FieldsKept
  <2>3. c \notin me.gone /\ c # me.cluster
    BY <1>2, <1>3 DEF MergeProgress, MergeCourse
  <2>4. me.del = Moved(me.gone) /\ \A x \in me.ins : x.cluster = me.cluster
    BY <1>1, <1>2, InsertsAtTarget DEF MergeProgress
  <2>5. tx.todo = OccOf(occ, c)
    BY <2>1, <2>3, <2>4 DEF SeenOcc, OccOf, Moved
  <2>6. Sources(tx) = me.gone \cup {c} /\ AtSource(tx)
    BY <2>1, <2>2 DEF Sources, AtSource
  <2>7. MovedBy(tx) = MovedBy(me)
    BY <1>2, <2>1, <2>3, <2>5, <2>6 DEF MovedBy, Moved, OccOf
  <2>8. Placed(tx) /\ TicksKnown(tx)
    BY <1>2, <2>2, <2>7, PlacedAsBefore
  <2>9. MergeProgress(tx)
    BY <1>1, <1>2, <1>3, <2>1, <2>2, <2>3, <2>4, <2>5, <2>6, <2>8 DEF MergeProgress
  <2>10. QED
    BY <1>1, <2>1, <2>2, <2>9 DEF Advances, Progress
<1>4. ASSUME Step(p, [me EXCEPT !.cur = me.cluster, !.pc = "count"])
      PROVE  Advances(p)
  <2> DEFINE tx == [me EXCEPT !.cur = me.cluster, !.pc = "count"]
  <2>1. Only(tx, me, {"cur", "pc"}) /\ tx.pc = "count" /\ Step(p, tx)
    BY <1>1, <1>4 DEF Only, Fields
  <2> HIDE DEF tx
  <2>2. /\ tx.op = me.op /\ tx.owner = me.owner /\ tx.cluster = me.cluster /\ tx.put = me.put
        /\ tx.ins = me.ins /\ tx.del = me.del /\ tx.gone = me.gone /\ tx.taken = me.taken
        /\ tx.ids = me.ids
    BY <2>1, FieldsKept
  <2>3. Sources(tx) = Sources(me) /\ ~AtSource(tx) /\ MovedBy(tx) = MovedBy(me)
    BY <1>2, <2>1, <2>2 DEF Sources, AtSource, MovedBy
  <2>4. Placed(tx) /\ TicksKnown(tx)
    BY <1>2, <2>2, <2>3, PlacedAsBefore
  <2>5. MergeProgress(tx)
    BY <1>1, <1>2, <2>1, <2>2, <2>3, <2>4 DEF MergeProgress
  <2>6. QED
    BY <1>1, <2>1, <2>2, <2>5 DEF Advances, Progress
<1>5. QED
  BY <1>3, <1>4 DEF MergeLoop

\* The ticks of the target in one more stream.
LEMMA ReadTakenAdvances ==
  ASSUME NEW p \in Conns, Lone(p), ReadTaken(p)
  PROVE  Advances(p)
<1> DEFINE me == txn[p]
<1>1. DOMAIN me = Fields /\ me.pc = "move"
  BY LoneFacts DEF ReadTaken, At
<1>2. me.op = "merge" /\ MergeProgress(me)
  BY <1>1, LoneFacts DEF AppendCourse, DeleteCourse, DetachCourse, CascadeCourse, RenameCourse,
     FieldCourse
<1>3. PICK s : Step(p, [me EXCEPT !.taken =
                  [r \in DOMAIN @ \cup {s} |->
                     IF r = s THEN {x.t : x \in OccIn(OccOf(SeenOcc(p), me.cluster), s)}
                              ELSE @[r]]])
  BY DEF ReadTaken
<1> DEFINE taken == [r \in DOMAIN me.taken \cup {s} |->
                       IF r = s THEN {x.t : x \in OccIn(OccOf(SeenOcc(p), me.cluster), s)}
                                ELSE me.taken[r]]
           tx == [me EXCEPT !.taken = taken]
<1>4. Only(tx, me, {"taken"}) /\ tx.taken = taken /\ Step(p, tx)
  BY <1>1, <1>3 DEF Only, Fields
<1> HIDE DEF tx
<1>5. /\ tx.op = me.op /\ tx.owner = me.owner /\ tx.cluster = me.cluster /\ tx.put = me.put
      /\ tx.ins = me.ins /\ tx.del = me.del /\ tx.gone = me.gone /\ tx.ids = me.ids
      /\ tx.pc = me.pc /\ tx.cur = me.cur /\ tx.todo = me.todo
  BY <1>4, FieldsKept
<1>6. Sources(tx) = Sources(me) /\ AtSource(me) /\ AtSource(tx) /\ MovedBy(tx) = MovedBy(me)
  BY <1>1, <1>5 DEF Sources, AtSource, MovedBy
<1>7. Placed(tx)
  BY <1>2, <1>5, <1>6 DEF MergeProgress, Placed, PlacedAt
<1>8. TicksKnown(tx)
  <2>1. Seen(tx) = SeenOcc(p) /\ Seen(me) = SeenOcc(p)
    BY <1>5 DEF Seen, SeenOcc
  <2>2. QED
    BY <1>2, <1>4, <1>5, <2>1 DEF MergeProgress, TicksKnown
<1> HIDE DEF taken
<1>9. MergeProgress(tx)
  BY <1>1, <1>2, <1>5, <1>6, <1>7, <1>8 DEF MergeProgress
<1>10. QED
  BY <1>1, <1>2, <1>4, <1>5, <1>9 DEF Advances, Progress

\* The ticks of the target in the stream s once the samples M are moved by f
TicksAt(f, M, target, s) ==
  {x.t : x \in OccIn(OccOf(occ, target), s)} \cup {f[y] : y \in OccIn(M, s)}

\* The ticks taken in one stream are those of the target's samples and of the
\* samples moved to it.
LEMMA TakenFacts ==
  ASSUME TypeInv, NEW me, NEW f \in [MovedBy(me) -> Slots], NEW s,
         me.ins = {PlacedAt(x, f[x], me) : x \in MovedBy(me)},
         me.cluster \notin Sources(me), me.del \subseteq Moved(Sources(me)),
         TicksKnown(me), s \in DOMAIN me.taken
  PROVE  /\ me.taken[s] = TicksAt(f, MovedBy(me), me.cluster, s)
         /\ Cardinality(me.taken[s]) <= Cardinality(occ)
<1> DEFINE A == OccIn(OccOf(occ, me.cluster), s)
           B == OccIn(MovedBy(me), s)
           h == [x \in A \cup B |-> IF x \in A THEN x.t ELSE f[x]]
<1>1. OccIn(OccOf(Seen(me), me.cluster), s) = A \cup {PlacedAt(x, f[x], me) : x \in B}
  BY DEF Seen, OccIn, OccOf, PlacedAt, Moved
<1>2. {x.t : x \in A \cup {PlacedAt(x, f[x], me) : x \in B}} =
        {x.t : x \in A} \cup {f[y] : y \in B}
  <2> DEFINE P == {PlacedAt(x, f[x], me) : x \in B}
  <2>1. \A z \in B : PlacedAt(z, f[z], me).t = f[z]
    BY DEF PlacedAt
  <2> HIDE DEF A, B
  <2>2. {w.t : w \in P} = {f[z] : z \in B}
    BY <2>1
  <2> HIDE DEF P
  <2>3. {w.t : w \in A \cup P} = {w.t : w \in A} \cup {w.t : w \in P}
    OBVIOUS
  <2>4. QED
    BY <2>2, <2>3 DEF P
<1>3. me.taken[s] = {x.t : x \in A} \cup {f[y] : y \in B}
  BY <1>1, <1>2 DEF TicksKnown
<1>4. A \cup B \in SUBSET occ /\ A \cap B = {}
  BY DEF OccIn, OccOf, MovedBy, Moved
<1>5. h \in Surjection(A \cup B, me.taken[s])
  <2>1. \A x \in A \cup B : h[x] \in me.taken[s]
    BY <1>3
  <2>2. \A t \in me.taken[s] : \E x \in A \cup B : h[x] = t
    BY <1>3, <1>4
  <2>3. QED
    BY <2>1, <2>2 DEF Surjection
<1> HIDE DEF h, A, B
<1>6. IsFiniteSet(A \cup B) /\ Cardinality(A \cup B) <= Cardinality(occ) /\ IsFiniteSet(occ)
  BY <1>4, FS_Subset DEF TypeInv, OccFinite
<1>7. IsFiniteSet(me.taken[s]) /\ Cardinality(me.taken[s]) <= Cardinality(A \cup B)
  BY <1>5, <1>6, FS_Surjection
<1>8. Cardinality(me.taken[s]) <= Cardinality(occ)
  BY <1>6, <1>7, FS_CardinalityType
<1>9. QED
  BY <1>3, <1>8 DEF A, B, TicksAt

\* f, and x moved to the tick t
MovedTo(f, M, x, t) == [z \in M \cup {x} |-> IF z = x THEN t ELSE f[z]]

\* One more sample moved, onto the first free tick at or after its own.
LEMMA PlacementGrows ==
  ASSUME TypeInv, NEW M \in SUBSET occ, NEW x \in occ \ M, NEW target, NEW f \in [M -> Slots],
         IsPlacement(f, M, target), NEW taken \in SUBSET Nat, IsFiniteSet(taken),
         taken = TicksAt(f, M, target, x.stream), Cardinality(taken) <= Cardinality(occ),
         NEW g, g = MovedTo(f, M, x, Nudged(x.t, taken))
  PROVE  g \in [M \cup {x} -> Slots] /\ IsPlacement(g, M \cup {x}, target)
<1> DEFINE t == Nudged(x.t, taken)
           was(s) == TicksAt(f, M, target, s)
           now(s) == TicksAt(g, M \cup {x}, target, s)
<1>1. x.t \in Nat /\ occ \subseteq Sample
  BY DEF TypeInv, TypeOK, Sample
<1>2. /\ t \in Nat /\ t >= x.t /\ t \notin taken /\ t <= x.t + Cardinality(taken)
      /\ \A v \in x.t .. t - 1 : v \in taken
  BY <1>1, NudgedFacts
<1>3. t \in Slots
  <2>1. Cardinality(taken) \in Nat /\ Cardinality(occ) \in Nat
    BY FS_CardinalityType DEF TypeInv, OccFinite
  <2>2. t - x.t \in 0 .. Cardinality(occ) /\ x.t + (t - x.t) = t
    BY <1>1, <1>2, <2>1
  <2>3. \A z \in occ, k \in 0 .. Cardinality(occ) : z.t + k \in Slots
    BY DEF Slots
  <2>4. QED
    BY <2>2, <2>3
<1> HIDE DEF t
<1>4. DOMAIN g = M \cup {x} /\ \A z \in M : g[z] = f[z]
  BY DEF MovedTo
<1>5. g[x] = t
  BY DEF t, MovedTo
<1>6. g \in [M \cup {x} -> Slots]
  BY <1>3, <1>4, <1>5 DEF MovedTo
<1>7. taken = was(x.stream)
  OBVIOUS
<1>8. \A s : was(s) \subseteq now(s)
  BY <1>4 DEF OccIn, TicksAt
<1>9. ASSUME NEW z \in M
      PROVE  /\ g[z] >= z.t
             /\ \A y \in OccOf(occ, target) : ~(y.stream = z.stream /\ y.t = g[z])
             /\ \A y \in (M \cup {x}) \ {z} : ~(y.stream = z.stream /\ g[y] = g[z])
             /\ \A k \in z.t .. (g[z] - 1) : k \in now(z.stream)
  <2>1. /\ f[z] >= z.t
        /\ \A y \in OccOf(occ, target) : ~(y.stream = z.stream /\ y.t = f[z])
        /\ \A y \in M \ {z} : ~(y.stream = z.stream /\ f[y] = f[z])
        /\ \A k \in z.t .. (f[z] - 1) : k \in was(z.stream)
    BY DEF IsPlacement, TicksAt
  <2>2. z.stream = x.stream => f[z] \in taken
    BY <1>7 DEF OccIn, TicksAt
  <2>3. \A y \in (M \cup {x}) \ {z} : ~(y.stream = z.stream /\ g[y] = g[z])
    BY <1>2, <1>4, <1>5, <2>1, <2>2
  <2>4. QED
    BY <1>4, <1>8, <2>1, <2>3
<1>10. /\ g[x] >= x.t
       /\ \A y \in OccOf(occ, target) : ~(y.stream = x.stream /\ y.t = g[x])
       /\ \A y \in (M \cup {x}) \ {x} : ~(y.stream = x.stream /\ g[y] = g[x])
       /\ \A k \in x.t .. (g[x] - 1) : k \in now(x.stream)
  <2>1. \A y \in OccOf(occ, target) : y.stream = x.stream => y.t \in taken
    BY DEF OccIn, TicksAt
  <2>2. \A y \in M : y.stream = x.stream => g[y] \in taken
    BY <1>4 DEF OccIn, TicksAt
  <2>3. QED
    BY <1>2, <1>5, <1>7, <1>8, <2>1, <2>2
<1>11. IsPlacement(g, M \cup {x}, target)
  BY <1>9, <1>10 DEF IsPlacement, TicksAt
<1>12. QED
  BY <1>6, <1>11

\* The INSERTs of a merge at its target.
LEMMA MoveGoes ==
  ASSUME NEW p \in Conns, Lone(p), txn[p].pc = "move", NEW x \in txn[p].todo,
         x.stream \in DOMAIN txn[p].taken, NEW t, t = Nudged(x.t, txn[p].taken[x.stream]),
         NEW y, y = Occurrence(x.stream, txn[p].cluster, t, txn[p].owner),
         Step(p, [txn[p] EXCEPT !.todo = @ \ {x}, !.ins = @ \cup {y},
                                !.share = @ \cup {txn[p].cluster},
                                !.taken[x.stream] = @ \cup {t}])
  PROVE  Advances(p)
<1> DEFINE me == txn[p]
           taken == [me.taken EXCEPT ![x.stream] = @ \cup {t}]
           tx == [me EXCEPT !.todo = @ \ {x}, !.ins = @ \cup {y}, !.share = @ \cup {me.cluster},
                            !.taken[x.stream] = @ \cup {t}]
<1>1. DOMAIN me = Fields /\ me.pc = "move" /\ Doing(me) /\ TypeInv
  BY LoneFacts
<1>2. me.op = "merge" /\ MergeProgress(me) /\ MergeCourse(me)
  BY <1>1, LoneFacts DEF AppendCourse, DeleteCourse, DetachCourse, CascadeCourse, RenameCourse,
     FieldCourse
<1>3. /\ Only(tx, me, {"todo", "ins", "share", "taken"}) /\ tx.todo = me.todo \ {x}
      /\ tx.ins = me.ins \cup {y} /\ tx.taken = taken /\ Step(p, tx)
  BY <1>1 DEF Only, Fields
<1> HIDE DEF tx
<1>4. /\ tx.op = me.op /\ tx.owner = me.owner /\ tx.cluster = me.cluster /\ tx.put = me.put
      /\ tx.del = me.del /\ tx.gone = me.gone /\ tx.ids = me.ids /\ tx.pc = me.pc
      /\ tx.cur = me.cur
  BY <1>3, FieldsKept
<1>5. /\ Sources(tx) = Sources(me) /\ AtSource(me) /\ AtSource(tx)
      /\ Sources(me) = me.gone \cup {me.cur} /\ me.cluster \notin Sources(me)
  BY <1>1, <1>2, <1>4 DEF Sources, AtSource, MergeCourse
<1>6. /\ x \in occ \ MovedBy(me) /\ MovedBy(me) \in SUBSET occ
      /\ MovedBy(tx) = MovedBy(me) \cup {x}
  <2>1. me.todo \subseteq OccOf(occ, me.cur)
    BY <1>1, <1>2 DEF MergeProgress
  <2>2. x \in Moved(Sources(me))
    BY <1>5, <2>1 DEF Moved, OccOf
  <2>3. /\ MovedBy(me) = Moved(Sources(me)) \ me.todo
        /\ MovedBy(tx) = Moved(Sources(me)) \ (me.todo \ {x})
    BY <1>1, <1>3, <1>4, <1>5 DEF MovedBy
  <2>4. QED
    BY <2>2, <2>3 DEF Moved
<1>7. PICK f \in [MovedBy(me) -> Slots] : /\ IsPlacement(f, MovedBy(me), me.cluster)
                                          /\ me.ins = {PlacedAt(z, f[z], me) : z \in MovedBy(me)}
  BY <1>2 DEF MergeProgress, Placed
<1> DEFINE g == MovedTo(f, MovedBy(me), x, t)
<1>8. g \in [MovedBy(me) \cup {x} -> Slots] /\ IsPlacement(g, MovedBy(me) \cup {x}, me.cluster)
  <2>1. me.del \subseteq Moved(Sources(me)) /\ TicksKnown(me)
    BY <1>1, <1>2, <1>5 DEF MergeProgress, Moved
  <2>2. /\ me.taken[x.stream] = TicksAt(f, MovedBy(me), me.cluster, x.stream)
        /\ Cardinality(me.taken[x.stream]) <= Cardinality(occ)
    BY <1>1, <1>5, <1>7, <2>1, TakenFacts
  <2>3. me.taken[x.stream] \in SUBSET Nat /\ IsFiniteSet(me.taken[x.stream])
    BY <1>1 DEF Doing
  <2> DEFINE M == MovedBy(me)
             T == me.taken[x.stream]
             c == me.cluster
  <2>4. /\ TypeInv /\ M \in SUBSET occ /\ x \in occ \ M
        /\ f \in [M -> Slots] /\ IsPlacement(f, M, c)
    BY <1>1, <1>6, <1>7
  <2>5. /\ T \in SUBSET Nat /\ IsFiniteSet(T) /\ Cardinality(T) <= Cardinality(occ)
        /\ T = TicksAt(f, M, c, x.stream)
    BY <2>2, <2>3
  <2>6. g = MovedTo(f, M, x, Nudged(x.t, T))
    OBVIOUS
  <2> HIDE DEF M, T, c, g
  <2>7. g \in [M \cup {x} -> Slots] /\ IsPlacement(g, M \cup {x}, c)
    BY <2>4, <2>5, <2>6, PlacementGrows
  <2>8. QED
    BY <2>7 DEF M, c
<1>9. Placed(tx)
  <2>1. y = PlacedAt(x, g[x], tx)
    BY <1>4 DEF Occurrence, PlacedAt, MovedTo
  <2>2. \A z \in MovedBy(me) : PlacedAt(z, f[z], me) = PlacedAt(z, g[z], tx)
    BY <1>4, <1>6 DEF PlacedAt, MovedTo
  <2> HIDE DEF g
  <2>3. tx.ins = {PlacedAt(z, g[z], tx) : z \in MovedBy(me) \cup {x}}
    BY <1>3, <1>7, <2>1, <2>2
  <2>4. QED
    BY <1>4, <1>6, <1>8, <2>3 DEF Placed
<1>10. TicksKnown(tx)
  <2>1. Seen(tx) = Seen(me) \cup {y}
    BY <1>3, <1>4 DEF Seen
  <2>2. y.cluster = me.cluster /\ y.stream = x.stream /\ y.t = t
    BY DEF Occurrence
  <2>3. ASSUME NEW s \in DOMAIN me.taken
        PROVE  taken[s] = {z.t : z \in OccIn(OccOf(Seen(tx), me.cluster), s)}
    <3>1. me.taken[s] = {z.t : z \in OccIn(OccOf(Seen(me), me.cluster), s)}
      BY <1>2 DEF MergeProgress, TicksKnown
    <3>2. CASE s = x.stream
      <4>1. OccIn(OccOf(Seen(tx), me.cluster), s) = OccIn(OccOf(Seen(me), me.cluster), s) \cup {y}
        BY <2>1, <2>2, <3>2 DEF OccIn, OccOf
      <4>2. taken[s] = me.taken[s] \cup {t}
        BY <3>2
      <4>3. QED
        BY <2>2, <3>1, <4>1, <4>2
    <3>3. CASE s # x.stream
      <4>1. OccIn(OccOf(Seen(tx), me.cluster), s) = OccIn(OccOf(Seen(me), me.cluster), s)
        BY <2>1, <2>2, <3>3 DEF OccIn, OccOf
      <4>2. QED
        BY <3>1, <3>3, <4>1
    <3>4. QED
      BY <3>2, <3>3
  <2>4. QED
    BY <1>3, <1>4, <2>3 DEF TicksKnown
<1> HIDE DEF taken, g
<1>11. MergeProgress(tx)
  BY <1>1, <1>2, <1>3, <1>4, <1>5, <1>9, <1>10 DEF MergeProgress
<1>12. QED
  BY <1>2, <1>3, <1>4, <1>11 DEF Advances, Progress

\* One source's samples are all moved.
LEMMA MoveEnds ==
  ASSUME NEW p \in Conns, Lone(p), txn[p].pc = "move", txn[p].todo = {},
         Step(p, [txn[p] EXCEPT !.pc = "unlink"])
  PROVE  Advances(p)
<1> DEFINE me == txn[p]
           tx == [me EXCEPT !.pc = "unlink"]
<1>1. DOMAIN me = Fields /\ me.pc = "move" /\ me.todo = {}
  BY LoneFacts
<1>2. me.op = "merge" /\ MergeProgress(me)
  BY <1>1, LoneFacts DEF AppendCourse, DeleteCourse, DetachCourse, CascadeCourse, RenameCourse,
     FieldCourse
<1>3. Only(tx, me, {"pc"}) /\ tx.pc = "unlink" /\ Step(p, tx)
  BY <1>1 DEF Only, Fields
<1> HIDE DEF tx
<1>4. /\ tx.op = me.op /\ tx.owner = me.owner /\ tx.cluster = me.cluster /\ tx.put = me.put
      /\ tx.del = me.del /\ tx.gone = me.gone /\ tx.ids = me.ids /\ tx.taken = me.taken
      /\ tx.cur = me.cur /\ tx.ins = me.ins
  BY <1>3, FieldsKept
<1>5. Sources(tx) = Sources(me) /\ AtSource(me) /\ AtSource(tx) /\ MovedBy(tx) = MovedBy(me)
  BY <1>1, <1>3, <1>4 DEF Sources, AtSource, MovedBy
<1>6. Placed(tx) /\ TicksKnown(tx)
  BY <1>2, <1>4, <1>5, PlacedAsBefore
<1>7. MergeProgress(tx)
  BY <1>1, <1>2, <1>3, <1>4, <1>5, <1>6 DEF MergeProgress
<1>8. QED
  BY <1>2, <1>3, <1>4, <1>7 DEF Advances, Progress

\* The samples of one source are moved, or the merge is rolled back.
LEMMA MoveAdvances ==
  ASSUME NEW p \in Conns, Lone(p), Move(p)
  PROVE  Advances(p)
<1>1. txn[p].pc = "move"
  BY DEF Move, At
<1>2. QED
  BY <1>1, MoveGoes, MoveEnds, RollbackEnds DEF Move

(***************************************************************************)
(* Its commit is the transaction of Library.                               *)
(***************************************************************************)

\* What a transaction commits that is alone.
LEMMA CommitFacts ==
  ASSUME NEW p \in Conns, Lone(p), Commit(p)
  PROVE  /\ txn[p].pc = "commit" /\ txn[p].todo = {}
         /\ rows' = [c \in Live \ txn[p].gone |-> Version(p, c)]
         /\ occ' = Seen(txn[p]) /\ minted' = minted
BY LoneFacts DEF Commit, At, Doing, SeenOcc, Seen

\* A recount of the rows C, without those that are deleted.
LEMMA CommitRecounts ==
  ASSUME NEW p \in Conns, NEW T, Tallied(txn[p], T), txn[p].todo = {},
         NEW C, C \ txn[p].gone = T
  PROVE  [c \in Live \ txn[p].gone |-> Version(p, c)] =
           Without(Recount(rows, Seen(txn[p]), C), txn[p].gone)
<1> DEFINE me == txn[p]
           counts == Recount(rows, Seen(me), C)
<1>1. DOMAIN me.put = T /\ \A c \in T : me.put[c] = Fully(me, c)
  BY DEF Tallied
<1>2. DOMAIN counts = Live /\ \A c \in Live : counts[c] = IF c \in C THEN Fully(me, c) ELSE rows[c]
  BY DEF Recount, Fully, Live
<1>3. \A c \in Live \ me.gone : Version(p, c) = counts[c]
  BY <1>1, <1>2 DEF Version
<1> HIDE DEF counts
<1>4. Without(counts, me.gone) = [c \in Live \ me.gone |-> counts[c]]
  BY <1>2 DEF Without
<1>5. QED
  BY <1>3, <1>4 DEF counts

\* Nothing is deleted.
LEMMA WithoutNone ==
  ASSUME NEW D, NEW f, f = [d \in D |-> f[d]]
  PROVE  Without(f, {}) = f
<1>1. DOMAIN f = D
  OBVIOUS
<1>2. QED
  BY <1>1 DEF Without

\* append_stream_occurrences: its items are in, and every cluster of the owner
\* that the stream has been seen with is recounted.
LEMMA AppendCommits ==
  ASSUME NEW p \in Conns, Lone(p), Commit(p), txn[p].op = "append"
  PROVE  \E items \in SUBSET (ClusterIds \X SampleTimes) :
           AppendSamples(txn[p].owner, txn[p].stream, items)
<1> DEFINE me == txn[p]
           o == me.owner
           s == me.stream
           items == {<<x.cluster, x.t>> : x \in me.ins}
           T == {c \in Live : rows[c].owner = o /\ OccIn(OccOf(Seen(me), c), s) # {}}
<1>1. /\ me.pc = "commit" /\ me.todo = {} /\ me.gone = {} /\ me.ins \subseteq Sample
      /\ rows' = [c \in Live \ me.gone |-> Version(p, c)]
      /\ occ' = Seen(me) /\ minted' = minted /\ AppendProgress(me)
  BY CommitFacts, LoneFacts DEF AppendCourse, Wrote
<1>2. \A x \in me.ins : /\ x.stream = s /\ x.owner = o /\ x.t \in SampleTimes
                        /\ Owned(x.cluster, o) /\ ~\E y \in occ : SameKey(x, y)
  BY <1>1 DEF AppendProgress
<1>3. items \in SUBSET (ClusterIds \X SampleTimes)
  BY <1>1, <1>2 DEF Sample
<1>4. \A i \in items : Owned(i[1], o)
  BY <1>2
<1>5. Fresh(o, s, items) = me.ins
  <2> DEFINE new(i) == [stream |-> s, cluster |-> i[1], t |-> i[2], owner |-> o]
  <2>1. \A x \in me.ins : x = new(<<x.cluster, x.t>>)
    BY <1>1, <1>2 DEF Sample
  <2>2. {j \in items : \A x \in occ : <<x.stream, x.cluster, x.t>> # <<s, j[1], j[2]>>} = items
    BY <1>2 DEF SameKey
  <2>3. ASSUME NEW i \in items PROVE new(i) \in me.ins
    <3>1. PICK x \in me.ins : i = <<x.cluster, x.t>>
      OBVIOUS
    <3>2. new(i) = x
      BY <2>1, <3>1
    <3>3. QED
      BY <3>2
  <2>4. \A x \in me.ins : \E i \in items : x = new(i)
    BY <2>1
  <2>5. {new(i) : i \in items} = me.ins
    <3> HIDE DEF new, items
    <3>1. QED
      BY <2>3, <2>4
  <2>6. QED
    BY <2>2, <2>5 DEF Fresh
<1>6. Seen(me) = occ \cup Fresh(o, s, items)
  BY <1>1, <1>5 DEF Seen, AppendProgress
<1>7. rows' = Recount(rows, Seen(me), T)
  <2>1. Tallied(me, T)
    BY <1>1 DEF AppendProgress
  <2>2. rows' = Without(Recount(rows, Seen(me), T), {})
    BY <1>1, <2>1, CommitRecounts
  <2>3. QED
    BY <2>2, WithoutNone DEF Recount
<1> HIDE DEF items
<1>8. AppendSamples(o, s, items)
  BY <1>1, <1>4, <1>6, <1>7 DEF AppendSamples, Owned
<1>9. QED
  BY <1>3, <1>8

\* delete_cluster: the person goes with all samples.
LEMMA DeleteCommits ==
  ASSUME NEW p \in Conns, Lone(p), Commit(p), txn[p].op = "delete"
  PROVE  Delete(txn[p].cur, txn[p].owner)
<1> DEFINE me == txn[p]
           c == me.cur
<1>1. /\ me.pc = "commit" /\ DeleteProgress(me) /\ OccurrencesOwned
      /\ rows' = [k \in Live \ me.gone |-> Version(p, k)]
      /\ occ' = Seen(me) /\ minted' = minted
  BY CommitFacts, LoneFacts
<1>2. /\ me.gone = {c} /\ me.put = NoRows /\ me.ins = {} /\ me.del = OccOf(occ, c)
      /\ Owned(c, me.owner)
  BY <1>1 DEF DeleteProgress, TakesAway
<1>3. \A k : Version(p, k) = rows[k]
  BY <1>2 DEF Version, NoRows
<1>4. rows' = Without(rows, {c})
  BY <1>1, <1>2, <1>3 DEF Without, Live
<1>5. occ' = Referenced(occ \ OccOf(occ, c), Live \ {c})
  BY <1>1, <1>2 DEF Seen, Referenced, OccOf, OccurrencesOwned
<1>6. QED
  BY <1>1, <1>2, <1>4, <1>5 DEF Delete

\* detach_cluster_from_stream: recounted, or removed when nothing is left.
LEMMA DetachCommits ==
  ASSUME NEW p \in Conns, Lone(p), Commit(p), txn[p].op = "detach"
  PROVE  Detach(txn[p].cluster, txn[p].stream, txn[p].owner)
<1> DEFINE me == txn[p]
           c == me.cluster
           kept == {x \in occ : ~(x.cluster = c /\ x.stream = me.stream /\ x.owner = me.owner)}
           counts == Recount(rows, kept, {c})
           gone == {k \in {c} : counts[k].samples = 0}
<1>1. /\ me.pc = "commit" /\ DetachProgress(me) /\ OccurrencesOwned /\ me.todo = {} /\ TypeInv
      /\ rows' = [k \in Live \ me.gone |-> Version(p, k)]
      /\ occ' = Seen(me) /\ minted' = minted
  BY CommitFacts, LoneFacts
<1>2. /\ me.ins = {} /\ me.del = InStream(me) /\ Owned(c, me.owner) /\ me.cur = c
      /\ me.gone = Emptied(InStream(me), {c}) /\ Tallied(me, {c} \ me.gone)
  BY <1>1 DEF DetachProgress, TakesAway
<1>3. kept = occ \ InStream(me) /\ Seen(me) = kept
  BY <1>2 DEF Seen, InStream
<1>4. counts[c].samples = Cardinality(OccOf(kept, c))
  BY <1>1, <1>2 DEF Recount, Owned, Live, TypeInv, TypeOK, Row
<1> HIDE DEF kept, counts
<1>5. gone = me.gone
  BY <1>1, <1>2, <1>3, <1>4, CountsNone DEF Emptied
<1> HIDE DEF gone
<1>6. rows' = Without(counts, gone)
  BY <1>1, <1>2, <1>3, <1>5, CommitRecounts DEF counts
<1>7. occ' = Referenced(kept, Live \ gone)
  BY <1>1, <1>2, <1>3, <1>5 DEF Referenced, Emptied, OccurrencesOwned, OccOf
<1>8. QED
  BY <1>1, <1>2, <1>6, <1>7 DEF Detach, kept, counts, gone

\* cascade_stream: every cluster the stream touched is recounted or removed.
LEMMA CascadeCommits ==
  ASSUME NEW p \in Conns, Lone(p), Commit(p), txn[p].op = "cascade"
  PROVE  Cascade(txn[p].stream)
<1> DEFINE me == txn[p]
           s == me.stream
           touched == {x.cluster : x \in OccIn(occ, s)}
           kept == occ \ OccIn(occ, s)
           counts == Recount(rows, kept, touched)
           gone == {c \in touched \cap Live : counts[c].samples = 0}
<1>1. /\ me.pc = "commit" /\ CascadeProgress(me) /\ OccurrencesOwned /\ me.todo = {} /\ TypeInv
      /\ rows' = [k \in Live \ me.gone |-> Version(p, k)]
      /\ occ' = Seen(me) /\ minted' = minted
  BY CommitFacts, LoneFacts
<1>2. touched = Touched(me) /\ touched \subseteq Live /\ Settled(me) = touched
  BY <1>1, TouchedLive DEF Touched, Settled, CascadeProgress, AtCluster
<1>3. /\ me.ins = {} /\ me.del = OccIn(occ, s)
      /\ me.gone = Emptied(OccIn(occ, s), touched) /\ Tallied(me, touched \ me.gone)
  BY <1>1, <1>2 DEF CascadeProgress, TakesAway
<1>4. Seen(me) = kept
  BY <1>3 DEF Seen
<1>5. ASSUME NEW c \in touched
      PROVE  counts[c].samples = 0 <=> OccOf(occ, c) \subseteq OccIn(occ, s)
  <2>1. counts[c].samples = Cardinality(OccOf(kept, c))
    BY <1>1, <1>2 DEF Recount, Live, TypeInv, TypeOK, Row
  <2>2. QED
    BY <1>1, <2>1, CountsNone
<1> HIDE DEF kept, counts, touched
<1>6. gone = me.gone
  BY <1>2, <1>3, <1>5 DEF Emptied
<1> HIDE DEF gone
<1>7. rows' = Without(counts, gone)
  BY <1>1, <1>3, <1>4, <1>6, CommitRecounts DEF counts
<1>8. occ' = Referenced(kept, Live \ gone)
  BY <1>1, <1>3, <1>4, <1>6 DEF Referenced, Emptied, OccurrencesOwned, OccOf, kept
<1>9. QED
  BY <1>1, <1>7, <1>8 DEF Cascade, kept, counts, gone, touched

\* A transaction without deletions and inserts commits the rows it updated.
LEMMA CommitUpdates ==
  ASSUME NEW p \in Conns, Lone(p), Commit(p), txn[p].gone = {}, txn[p].ins = {},
         txn[p].del = {}
  PROVE  /\ occ' = occ /\ minted' = minted
         /\ rows' = [c \in Live |-> Version(p, c)]
         /\ txn[p].put = NoRows => rows' = rows
<1>1. /\ rows' = [c \in Live |-> Version(p, c)] /\ occ' = occ /\ minted' = minted
  BY CommitFacts DEF Seen
<1>2. txn[p].put = NoRows => \A c : Version(p, c) = rows[c]
  BY DEF Version, NoRows
<1>3. rows = [c \in Live |-> rows[c]]
  BY LoneFacts DEF TypeInv, TypeOK
<1>4. QED
  BY <1>1, <1>2, <1>3

\* rename_cluster: the name is set, or nothing is when it was taken.
LEMMA RenameCommits ==
  ASSUME NEW p \in Conns, Lone(p), Commit(p), txn[p].op = "rename"
  PROVE  \/ Rename(txn[p].cluster, txn[p].owner, txn[p].value)
         \/ UNCHANGED libvars
<1> DEFINE me == txn[p]
           c == me.cluster
<1>1. /\ me.pc = "commit" /\ RenameProgress(me) /\ me.gone = {} /\ me.ins = {} /\ me.del = {}
  BY CommitFacts, LoneFacts DEF RenameCourse, RenameProgress
<1>2. /\ occ' = occ /\ minted' = minted /\ rows' = [k \in Live |-> Version(p, k)]
      /\ me.put = NoRows => rows' = rows
  BY <1>1, CommitUpdates
<1>3. CASE me.put = NoRows
  BY <1>2, <1>3 DEF libvars
<1>4. CASE me.put # NoRows
  <2>1. /\ Owned(c, me.owner) /\ ~NameTaken(c, me.owner, me.value)
        /\ me.put = [k \in {c} |-> [rows[k] EXCEPT !.name = me.value]]
    BY <1>1, <1>4 DEF RenameProgress
  <2>2. \A k \in Live :
          Version(p, k) = IF k = c THEN [rows[c] EXCEPT !.name = me.value] ELSE rows[k]
    BY <2>1 DEF Version
  <2>3. rows \in [Live -> Row]
    BY LoneFacts DEF TypeInv, TypeOK
  <2>4. rows' = [rows EXCEPT ![c].name = me.value]
    BY <1>2, <2>1, <2>2, <2>3 DEF Owned
  <2>5. QED
    BY <1>2, <2>1, <2>4 DEF Rename
<1>5. QED
  BY <1>3, <1>4

\* update_cluster_centroid and set_cluster_crop: one column of one row.
LEMMA FieldCommits ==
  ASSUME NEW p \in Conns, Lone(p), Commit(p), txn[p].op \in {"crop", "centroid"}
  PROVE  \/ UNCHANGED libvars
         \/ txn[p].op = "crop" /\ SetCrop(txn[p].cluster, txn[p].owner)
         \/ txn[p].op = "centroid" /\ UpdateCentroid(txn[p].cluster, txn[p].owner, txn[p].value)
<1> DEFINE me == txn[p]
           c == me.cluster
<1>1. /\ me.pc = "commit" /\ FieldProgress(me) /\ me.gone = {} /\ me.ins = {} /\ me.del = {}
  BY CommitFacts, LoneFacts DEF FieldCourse, FieldProgress
<1>2. /\ occ' = occ /\ minted' = minted /\ rows' = [k \in Live |-> Version(p, k)]
      /\ me.put = NoRows => rows' = rows
  BY <1>1, CommitUpdates
<1>3. CASE me.put = NoRows
  BY <1>2, <1>3 DEF libvars
<1>4. CASE me.put # NoRows
  <2>1. Owned(c, me.owner) /\ me.put = [k \in {c} |-> Updated(me, rows[k])]
    BY <1>1, <1>4 DEF FieldProgress
  <2>2. \A k \in Live : Version(p, k) = IF k = c /\ Owned(k, me.owner)
                                        THEN Updated(me, rows[k]) ELSE rows[k]
    BY <2>1 DEF Version
  <2>3. me.op = "crop" => SetCrop(c, me.owner)
    BY <1>2, <2>2 DEF SetCrop, Updated
  <2>4. me.op = "centroid" => UpdateCentroid(c, me.owner, me.value)
    BY <1>2, <2>2 DEF UpdateCentroid, Updated
  <2>5. QED
    BY <2>3, <2>4
<1>5. QED
  BY <1>3, <1>4

\* merge_clusters: the sources are gone, their samples sit on free ticks of the
\* target, which is recounted.
LEMMA MergeCommits ==
  ASSUME NEW p \in Conns, Lone(p), Commit(p), txn[p].op = "merge"
  PROVE  Merge(txn[p].owner, txn[p].cluster, txn[p].gone)
<1> DEFINE me == txn[p]
           o == me.owner
           target == me.cluster
           sources == me.gone
           moved == {x \in occ : x.cluster \in sources}
<1>1. /\ me.pc = "commit" /\ MergeProgress(me) /\ MergeCourse(me) /\ OccurrencesOwned
      /\ me.todo = {} /\ TypeInv
      /\ rows' = [k \in Live \ me.gone |-> Version(p, k)]
      /\ occ' = Seen(me) /\ minted' = minted
  BY CommitFacts, LoneFacts
<1>2. Sources(me) = sources /\ MovedBy(me) = moved /\ Moved(sources) = moved
  BY <1>1 DEF Sources, AtSource, MovedBy, Moved
<1>3. /\ Owned(target, o) /\ \A c \in sources : Owned(c, o)
      /\ target \notin sources /\ me.del = moved /\ Tallied(me, {target})
  BY <1>1, <1>2 DEF MergeProgress, MergeCourse
<1> HIDE DEF moved
<1>4. PICK f \in [moved -> Slots] : /\ IsPlacement(f, moved, target)
                                    /\ me.ins = {PlacedAt(x, f[x], me) : x \in moved}
  BY <1>1, <1>2 DEF MergeProgress, Placed
<1> DEFINE kept == (occ \ moved) \cup
                   {[stream |-> x.stream, cluster |-> target, t |-> f[x], owner |-> o] :
                      x \in moved}
<1>5. Seen(me) = kept
  BY <1>3, <1>4 DEF Seen, PlacedAt, moved
<1>6. \A x \in kept : x.cluster \in Live \ sources
  BY <1>1, <1>3 DEF OccurrencesOwned, Owned, moved
<1> HIDE DEF kept
<1>7. occ' = Referenced(kept, Live \ sources)
  BY <1>1, <1>5, <1>6 DEF Referenced
<1>8. rows' = Without(Recount(rows, kept, {target}), sources)
  <2>1. {target} \ me.gone = {target}
    BY <1>3
  <2>2. QED
    BY <1>1, <1>3, <1>5, <2>1, CommitRecounts
<1>9. QED
  BY <1>1, <1>3, <1>4, <1>7, <1>8 DEF Merge, kept, moved

\* Its commit is its transaction of Library.
LEMMA CommitMeans ==
  ASSUME NEW p \in Conns, Lone(p), Commit(p)
  PROVE  [Meant(txn[p])]_libvars
<1>1. txn[p].op \in {"append", "delete", "detach", "cascade", "merge", "rename", "crop",
                     "centroid"}
  BY LoneFacts
<1>2. QED
  BY <1>1, AppendCommits, DeleteCommits, DetachCommits, CascadeCommits, MergeCommits,
     RenameCommits, FieldCommits DEF Meant

(***************************************************************************)
(* Its begin, and what the others do meanwhile.                            *)
(***************************************************************************)

\* A transaction that has written nothing yet.
Unwritten(me) == HoldsNothing(me) /\ me.todo = {} /\ me.taken = NoRows

\* p begins with the record tx.
LEMMA BeginKeepsAlone ==
  ASSUME RCInv, LoneInv, NEW p \in Conns, NEW tx, Begin(p, tx), DOMAIN tx = Fields,
         Unwritten(tx),
         \A me : Only(me, tx, {"alone"}) => Progress(me)
  PROVE  LoneInv'
<1> DEFINE me == [tx EXCEPT !.alone = Others(p) = {}]
<1>1. /\ DOMAIN txn' = Conns /\ txn'[p] = me /\ rows' = rows /\ occ' = occ /\ Live' = Live
      /\ \A q \in Conns \ {p} : txn'[q] = IF Open(q) THEN [txn[q] EXCEPT !.alone = FALSE]
                                          ELSE txn[q]
  BY DEF Begin, libvars, Live
<1>2. Only(me, tx, {"alone"})
  BY DEF Only, Fields
<1>3. me.put = tx.put
  BY <1>2, FieldsKept
<1>4. Progress(me) /\ DOMAIN me.put = {}
  BY <1>2, <1>3 DEF Unwritten, HoldsNothing, NoRows
<1>5. me.alone <=> Others(p) = {}
  BY DEF Fields
<1> HIDE DEF me
<1>6. Progress(txn[p])'
  BY <1>1, <1>4, ProgressStands DEF RowsStand, RCInv
<1>7. \A q \in Conns \ {p} : DOMAIN txn[q] = Fields
  BY DEF RCInv, Valid
<1>8. ASSUME NEW q \in Conns \ {p}
      PROVE  /\ Open(q)' <=> Open(q)
             /\ Open(q) => ~txn'[q].alone
  <2>1. CASE Open(q)
    BY <1>1, <1>7, <2>1 DEF Open, Fields
  <2>2. CASE ~Open(q)
    BY <1>1, <2>2 DEF Open
  <2>3. QED
    BY <2>1, <2>2
<1>9. Others(p) = {} => Others(p)' = {}
  BY <1>8 DEF Others
<1>10. QED
  BY <1>1, <1>5, <1>6, <1>8, <1>9 DEF LoneInv

\* append_stream_occurrences begins.
LEMMA AppendStarts ==
  ASSUME RCInv, LoneInv, NEW p \in Conns, NEW o, NEW s, NEW items, Append(p, o, s, items)
  PROVE  LoneInv'
<1> DEFINE tx == [NoTxn EXCEPT !.op = "append", !.pc = "insert", !.owner = o, !.stream = s,
                               !.ids = items]
<1>1. Begin(p, tx) /\ \A i \in items : Owned(i[1], o)
  BY DEF Append
<1>2. /\ DOMAIN tx = Fields /\ Unwritten(tx) /\ tx.op = "append" /\ tx.pc = "insert"
      /\ tx.owner = o /\ tx.ids = items
  BY DEF NoTxn, Fields, Unwritten, HoldsNothing
<1> HIDE DEF tx
<1>3. ASSUME NEW me, Only(me, tx, {"alone"}) PROVE Progress(me)
  <2>1. /\ me.op = tx.op /\ me.pc = tx.pc /\ me.owner = tx.owner /\ me.ids = tx.ids
        /\ me.put = tx.put /\ me.ins = tx.ins /\ me.del = tx.del
    BY <1>3, FieldsKept
  <2>2. QED
    BY <1>1, <1>2, <2>1 DEF Unwritten, HoldsNothing, Progress, AppendProgress
<1>4. QED
  BY <1>1, <1>2, <1>3, BeginKeepsAlone

\* delete_cluster begins.
LEMMA DeleteStarts ==
  ASSUME RCInv, LoneInv, NEW p \in Conns, NEW c, NEW o, DeleteCluster(p, c, o)
  PROVE  LoneInv'
<1> DEFINE tx == [NoTxn EXCEPT !.op = "delete", !.pc = "unlink", !.owner = o, !.cur = c]
<1>1. Begin(p, tx) /\ Owned(c, o)
  BY DEF DeleteCluster
<1>2. /\ DOMAIN tx = Fields /\ Unwritten(tx) /\ tx.op = "delete" /\ tx.pc = "unlink"
      /\ tx.owner = o /\ tx.cur = c
  BY DEF NoTxn, Fields, Unwritten, HoldsNothing
<1> HIDE DEF tx
<1>3. ASSUME NEW me, Only(me, tx, {"alone"}) PROVE Progress(me)
  <2>1. /\ me.op = tx.op /\ me.pc = tx.pc /\ me.owner = tx.owner /\ me.cur = tx.cur
        /\ me.put = tx.put /\ me.ins = tx.ins /\ me.del = tx.del /\ me.gone = tx.gone
    BY <1>3, FieldsKept
  <2>2. DeleteProgress(me)
    BY <1>1, <1>2, <2>1 DEF Unwritten, HoldsNothing, DeleteProgress, TakesAway
  <2>3. QED
    BY <1>2, <2>1, <2>2 DEF Progress
<1>4. QED
  BY <1>1, <1>2, <1>3, BeginKeepsAlone

\* detach_cluster_from_stream begins.
LEMMA DetachStarts ==
  ASSUME RCInv, LoneInv, NEW p \in Conns, NEW c, NEW s, NEW o, DetachCluster(p, c, s, o)
  PROVE  LoneInv'
<1> DEFINE tx == [NoTxn EXCEPT !.op = "detach", !.pc = "unlink", !.owner = o, !.cluster = c,
                               !.stream = s, !.cur = c]
<1>1. Begin(p, tx) /\ Owned(c, o)
  BY DEF DetachCluster
<1>2. /\ DOMAIN tx = Fields /\ Unwritten(tx) /\ tx.op = "detach" /\ tx.pc = "unlink"
      /\ tx.owner = o /\ tx.cluster = c /\ tx.cur = c
  BY DEF NoTxn, Fields, Unwritten, HoldsNothing
<1> HIDE DEF tx
<1>3. ASSUME NEW me, Only(me, tx, {"alone"}) PROVE Progress(me)
  <2>1. /\ me.op = tx.op /\ me.pc = tx.pc /\ me.owner = tx.owner /\ me.cur = tx.cur
        /\ me.cluster = tx.cluster /\ me.put = tx.put /\ me.ins = tx.ins /\ me.del = tx.del
    BY <1>3, FieldsKept
  <2>2. DetachProgress(me)
    BY <1>1, <1>2, <2>1 DEF Unwritten, HoldsNothing, DetachProgress, TakesAway
  <2>3. QED
    BY <1>2, <2>1, <2>2 DEF Progress
<1>4. QED
  BY <1>1, <1>2, <1>3, BeginKeepsAlone

\* cascade_stream begins with the clusters that the stream touches.
LEMMA CascadeStarts ==
  ASSUME RCInv, LoneInv, NEW p \in Conns, NEW s, CascadeOf(p, s)
  PROVE  LoneInv'
<1> DEFINE tx == [NoTxn EXCEPT !.op = "cascade", !.pc = "unlink", !.stream = s,
                               !.ids = {x.cluster : x \in OccIn(occ, s)}]
<1>1. Begin(p, tx)
  BY DEF CascadeOf
<1>2. /\ DOMAIN tx = Fields /\ Unwritten(tx) /\ tx.op = "cascade" /\ tx.pc = "unlink"
      /\ tx.ids = Touched(tx)
  BY DEF NoTxn, Fields, Unwritten, HoldsNothing, Touched
<1> HIDE DEF tx
<1>3. ASSUME NEW me, Only(me, tx, {"alone"}) PROVE Progress(me)
  <2>1. /\ me.op = tx.op /\ me.pc = tx.pc /\ me.stream = tx.stream /\ me.ids = tx.ids
        /\ me.put = tx.put /\ me.ins = tx.ins /\ me.del = tx.del /\ me.gone = tx.gone
    BY <1>3, FieldsKept
  <2>2. Touched(me) = Touched(tx)
    BY <2>1 DEF Touched
  <2>3. CascadeProgress(me)
    BY <1>2, <2>1, <2>2 DEF Unwritten, HoldsNothing, CascadeProgress, TakesAway, AtCluster
  <2>4. QED
    BY <1>2, <2>1, <2>3 DEF Progress
<1>4. QED
  BY <1>1, <1>2, <1>3, BeginKeepsAlone

\* rename_cluster begins.
LEMMA RenameStarts ==
  ASSUME RCInv, LoneInv, NEW p \in Conns, NEW c, NEW o, NEW n, RenameTo(p, c, o, n)
  PROVE  LoneInv'
<1> DEFINE tx == [NoTxn EXCEPT !.op = "rename", !.pc = "check", !.owner = o, !.cluster = c,
                               !.value = n]
<1>1. Begin(p, tx) /\ Owned(c, o)
  BY DEF RenameTo
<1>2. /\ DOMAIN tx = Fields /\ Unwritten(tx) /\ tx.op = "rename" /\ tx.pc = "check"
      /\ tx.owner = o /\ tx.cluster = c
  BY DEF NoTxn, Fields, Unwritten, HoldsNothing
<1> HIDE DEF tx
<1>3. ASSUME NEW me, Only(me, tx, {"alone"}) PROVE Progress(me)
  <2>1. /\ me.op = tx.op /\ me.pc = tx.pc /\ me.owner = tx.owner /\ me.cluster = tx.cluster
        /\ me.put = tx.put /\ me.ins = tx.ins /\ me.del = tx.del
    BY <1>3, FieldsKept
  <2>2. RenameProgress(me)
    BY <1>1, <1>2, <2>1 DEF Unwritten, HoldsNothing, RenameProgress
  <2>3. QED
    BY <1>2, <2>1, <2>2 DEF Progress
<1>4. QED
  BY <1>1, <1>2, <1>3, BeginKeepsAlone

\* merge_clusters begins; no sample is moved yet.
LEMMA MergeStarts ==
  ASSUME RCInv, LoneInv, NEW p \in Conns, NEW o, NEW target, NEW sources,
         MergeInto(p, o, target, sources)
  PROVE  LoneInv'
<1> DEFINE tx == [NoTxn EXCEPT !.op = "merge", !.pc = "loop", !.owner = o, !.cluster = target,
                               !.ids = sources]
<1>1. Begin(p, tx) /\ \A c \in sources \cup {target} : Owned(c, o)
  BY DEF MergeInto
<1>2. /\ DOMAIN tx = Fields /\ Unwritten(tx) /\ tx.op = "merge" /\ tx.pc = "loop"
      /\ tx.owner = o /\ tx.cluster = target /\ tx.ids = sources
  BY DEF NoTxn, Fields, Unwritten, HoldsNothing
<1> HIDE DEF tx
<1>3. ASSUME NEW me, Only(me, tx, {"alone"}) PROVE Progress(me)
  <2>1. /\ me.op = tx.op /\ me.pc = tx.pc /\ me.owner = tx.owner /\ me.cluster = tx.cluster
        /\ me.put = tx.put /\ me.ins = tx.ins /\ me.del = tx.del /\ me.gone = tx.gone
        /\ me.ids = tx.ids /\ me.taken = tx.taken
    BY <1>3, FieldsKept
  <2>2. Sources(me) = {} /\ ~AtSource(me)
    BY <1>2, <2>1 DEF Unwritten, HoldsNothing, Sources, AtSource
  <2>3. MovedBy(me) = {} /\ Moved(me.gone) = {}
    BY <1>2, <2>1, <2>2 DEF Unwritten, HoldsNothing, MovedBy, Moved
  <2>4. Placed(me)
    <3> DEFINE f == [x \in {} |-> 0]
    <3>1. f \in [MovedBy(me) -> Slots] /\ IsPlacement(f, MovedBy(me), me.cluster)
      BY <2>3 DEF IsPlacement
    <3>2. me.ins = {PlacedAt(x, f[x], me) : x \in MovedBy(me)}
      BY <1>2, <2>1, <2>3 DEF Unwritten, HoldsNothing
    <3> HIDE DEF f
    <3>3. QED
      BY <3>1, <3>2 DEF Placed
  <2>5. TicksKnown(me)
    BY <1>2, <2>1 DEF Unwritten, TicksKnown, NoRows
  <2>6. MergeProgress(me)
    BY <1>1, <1>2, <2>1, <2>2, <2>3, <2>4, <2>5 DEF Unwritten, HoldsNothing, MergeProgress
  <2>7. QED
    BY <1>2, <2>1, <2>6 DEF Progress
<1>4. QED
  BY <1>1, <1>2, <1>3, BeginKeepsAlone

\* set_cluster_crop and update_cluster_centroid begin.
LEMMA UpdateStarts ==
  ASSUME RCInv, LoneInv, NEW p \in Conns, NEW c, NEW o,
         CropOf(p, c, o) \/ \E v : CentroidOf(p, c, o, v)
  PROVE  LoneInv'
<1>1. ASSUME NEW tx, Begin(p, tx), DOMAIN tx = Fields, Unwritten(tx),
             tx.op \in {"crop", "centroid"}, tx.pc = "update"
      PROVE  LoneInv'
  <2>1. ASSUME NEW me, Only(me, tx, {"alone"}) PROVE Progress(me)
    <3>1. /\ me.op = tx.op /\ me.pc = tx.pc /\ me.put = tx.put /\ me.ins = tx.ins
          /\ me.del = tx.del
      BY <2>1, FieldsKept
    <3>2. FieldProgress(me)
      BY <1>1, <3>1 DEF Unwritten, HoldsNothing, FieldProgress
    <3>3. QED
      BY <1>1, <3>1, <3>2 DEF Progress
  <2>2. QED
    BY <1>1, <2>1, BeginKeepsAlone
<1>2. CASE CropOf(p, c, o)
  <2> DEFINE tx == [NoTxn EXCEPT !.op = "crop", !.pc = "update", !.owner = o, !.cluster = c]
  <2>1. /\ DOMAIN tx = Fields /\ Unwritten(tx) /\ tx.op = "crop" /\ tx.pc = "update"
        /\ Begin(p, tx)
    BY <1>2 DEF CropOf, NoTxn, Fields, Unwritten, HoldsNothing
  <2> HIDE DEF tx
  <2>2. QED
    BY <1>1, <2>1
<1>3. ASSUME NEW v, CentroidOf(p, c, o, v) PROVE LoneInv'
  <2> DEFINE tx == [NoTxn EXCEPT !.op = "centroid", !.pc = "update", !.owner = o, !.cluster = c,
                                 !.value = v]
  <2>1. /\ DOMAIN tx = Fields /\ Unwritten(tx) /\ tx.op = "centroid" /\ tx.pc = "update"
        /\ Begin(p, tx)
    BY <1>3 DEF CentroidOf, NoTxn, Fields, Unwritten, HoldsNothing
  <2> HIDE DEF tx
  <2>2. QED
    BY <1>1, <2>1
<1>4. QED
  BY <1>2, <1>3

\* A statement is run by an open transaction only: one that has ended waits for
\* nobody, and so is in no deadlock.
LEMMA WorkOpen ==
  ASSUME NEW p \in Conns, Work(p)
  PROVE  Open(p)
<1>1. CASE DeadlockDetected(p)
  <2>1. Waits(p) # {}
    BY <1>1 DEF DeadlockDetected, Deadlocked
  <2>2. txn[p].pc \notin {"idle", "done"}
    BY <2>1 DEF Waits
  <2>3. QED
    BY <2>2 DEF Open
<1>2. CASE ~DeadlockDetected(p)
  BY <1>2 DEF Work, Open, At, Unlink, UnlinkRow, Count, CountRow, Drop, Commit, Insert,
     CascadeLoop, CheckName, SetName, MergeLoop, ReadTaken, Move, Update
<1>3. QED
  BY <1>1, <1>2

\* Until the commit a transaction changes its own record only, and the history
\* of an open one stays what it was.
Goes(p) == \E tx : Step(p, tx) /\ (tx.pc # "done" => tx.alone = txn[p].alone)

\* No statement writes the history.
LEMMA WorkGoes ==
  ASSUME NEW p \in Conns, DOMAIN txn[p] = Fields, Work(p)
  PROVE  Commit(p) \/ Goes(p)
<1> DEFINE me == txn[p]
<1>1. ASSUME Rollback(p) PROVE Goes(p)
  BY <1>1, EndedFacts DEF Rollback, Goes
<1>2. ASSUME NEW tx, Step(p, tx), tx.alone = txn[p].alone PROVE Goes(p)
  BY <1>2 DEF Goes
<1>3. CASE Unlink(p)
  BY <1>2, <1>3 DEF Unlink, Fields
<1>4. CASE UnlinkRow(p)
  BY <1>2, <1>4 DEF UnlinkRow, Fields
<1>5. CASE Count(p)
  BY <1>2, <1>5 DEF Count, Fields
<1>6. CASE CountRow(p)
  BY <1>2, <1>6 DEF CountRow, Fields
<1>7. CASE Drop(p)
  BY <1>2, <1>7 DEF Drop, Fields
<1>8. CASE Insert(p)
  BY <1>1, <1>2, <1>8 DEF Insert, Fields
<1>9. CASE CascadeLoop(p)
  BY <1>2, <1>9 DEF CascadeLoop, Fields
<1>10. CASE MergeLoop(p)
  BY <1>2, <1>10 DEF MergeLoop, Fields
<1>11. CASE CheckName(p)
  BY <1>2, <1>11 DEF CheckName, Fields
<1>12. CASE SetName(p)
  BY <1>1, <1>2, <1>12 DEF SetName, Fields
<1>13. CASE Update(p)
  BY <1>2, <1>13 DEF Update, Fields
<1>14. CASE ReadTaken(p)
  BY <1>2, <1>14 DEF ReadTaken, Fields
<1>15. CASE Move(p)
  BY <1>1, <1>2, <1>15 DEF Move, Fields
<1>16. QED
  BY <1>1, <1>3, <1>4, <1>5, <1>6, <1>7, <1>8, <1>9, <1>10, <1>11, <1>12, <1>13, <1>14, <1>15
     DEF Work, DeadlockDetected

\* The DELETE goes on with a row or ends.
LEMMA UnlinkRowAdvances ==
  ASSUME NEW p \in Conns, Lone(p), UnlinkRow(p)
  PROVE  Advances(p)
BY UnlinkRowGoesOn, UnlinkEnds DEF UnlinkRow, At

\* The UPDATE of sample_count goes on or ends.
LEMMA CountRowAdvances ==
  ASSUME NEW p \in Conns, Lone(p), CountRow(p)
  PROVE  Advances(p)
BY CountRowGoesOn, CountEnds DEF CountRow, At

\* The DELETE of a cluster finds its row or does not.
LEMMA DropAdvances ==
  ASSUME NEW p \in Conns, Lone(p), Drop(p)
  PROVE  Advances(p)
BY DropGoes, DropPassesBy DEF Drop, At

\* Every statement of a transaction that is alone brings it further.
LEMMA WorkAdvances ==
  ASSUME NEW p \in Conns, Lone(p), Work(p), ~Commit(p)
  PROVE  Advances(p)
BY UnlinkAdvances, UnlinkRowAdvances, CountAdvances, CountRowAdvances, DropAdvances,
   InsertAdvances, CascadeLoopAdvances, CheckNameAdvances, SetNameAdvances,
   MergeLoopAdvances, ReadTakenAdvances, MoveAdvances, UpdateAdvances, RollbackEnds
   DEF Work, DeadlockDetected

\* After a step of p the others have the records they had.
LEMMA OnlyOneSteps ==
  ASSUME NEW p \in Conns, NEW tx, DOMAIN txn = Conns, txn' = [txn EXCEPT ![p] = tx]
  PROVE  /\ txn'[p] = tx
         /\ \A q \in Conns \ {p} : txn'[q] = txn[q] /\ (Open(q)' <=> Open(q))
         /\ ~Open(p)' => \A q \in Conns \ {p} : Others(q)' \subseteq Others(q)
<1>1. txn'[p] = tx /\ \A q \in Conns \ {p} : txn'[q] = txn[q]
  OBVIOUS
<1>2. QED
  BY <1>1 DEF Open, Others

\* p ends and rows stay: whoever is alone stays so.
LEMMA EndKeepsAlone ==
  ASSUME RCInv, LoneInv, NEW p \in Conns, NEW tx, txn' = [txn EXCEPT ![p] = tx],
         tx.pc = "done", RowsStand
  PROVE  LoneInv'
<1>1. /\ ~Open(p)' /\ DOMAIN txn = Conns
      /\ \A q \in Conns \ {p} : /\ txn'[q] = txn[q] /\ (Open(q)' <=> Open(q))
                                /\ Others(q)' \subseteq Others(q)
  BY OnlyOneSteps DEF RCInv, Open
<1>2. ASSUME NEW q \in Conns, Open(q)', txn'[q].alone
      PROVE  Others(q)' = {} /\ Progress(txn[q])'
  <2>1. /\ q \in Conns \ {p} /\ Open(q) /\ txn[q].alone /\ txn'[q] = txn[q]
        /\ Others(q)' \subseteq Others(q)
    BY <1>1, <1>2
  <2>2. Others(q) = {} /\ Progress(txn[q])
    BY <2>1 DEF LoneInv
  <2>3. DOMAIN txn[q].put \subseteq Live /\ OccurrencesOwned
    BY <2>1 DEF RCInv, Secured
  <2>4. Progress(txn[q])'
    BY <2>1, <2>2, <2>3, ProgressStands
  <2>5. QED
    BY <2>1, <2>2, <2>4
<1>3. QED
  BY <1>2 DEF LoneInv

\* upsert_cluster: a new row is nothing to a transaction that is under way.
LEMMA UpsertKeepsAlone ==
  ASSUME RCInv, LoneInv, NEW p \in Conns, NEW o, NEW v, NEW id, InsertCluster(p, o, v, id)
  PROVE  LoneInv'
<1> DEFINE tx == [NoTxn EXCEPT !.op = "upsert", !.pc = "done"]
<1>1. txn' = [txn EXCEPT ![p] = tx] /\ tx.pc = "done" /\ Upsert(o, v, id)
  BY DEF InsertCluster, NoTxn
<1>2. Live \subseteq minted
  BY DEF RCInv, TypeInv, TypeOK
<1>3. RowsStand
  BY <1>1, <1>2 DEF Upsert, Live, RowsStand
<1> HIDE DEF tx
<1>4. QED
  BY <1>1, <1>3, EndKeepsAlone

\* A statement: were another transaction alone, p would not be open.
LEMMA WorkKeepsAlone ==
  ASSUME RCInv, LoneInv, RCInv', NEW p \in Conns, Work(p)
  PROVE  LoneInv'
<1>1. Open(p) /\ DOMAIN txn = Conns /\ DOMAIN txn[p] = Fields
  BY WorkOpen DEF RCInv, Valid
<1>2. \A q \in Conns \ {p} : ~(Open(q) /\ txn[q].alone)
  BY <1>1 DEF LoneInv, Others
<1>3. PICK tx : /\ txn' = [txn EXCEPT ![p] = tx]
                /\ tx.pc # "done" => Step(p, tx) /\ tx.alone = txn[p].alone
  BY <1>1, WorkGoes, EndedFacts DEF Commit, Goes, Step
<1>4. /\ txn'[p] = tx
      /\ \A q \in Conns \ {p} : txn'[q] = txn[q] /\ (Open(q)' <=> Open(q))
  BY <1>1, <1>3, OnlyOneSteps
<1>5. ASSUME Open(p)', txn'[p].alone
      PROVE  Others(p)' = {} /\ Progress(txn[p])'
  <2>1. tx.pc \notin {"idle", "done"} /\ Step(p, tx) /\ txn[p].alone
    BY <1>3, <1>4, <1>5 DEF Open
  <2>2. Others(p) = {} /\ Progress(txn[p])
    BY <1>1, <2>1 DEF LoneInv
  <2>3. Lone(p) /\ Others(p)' = {}
    BY <1>1, <1>4, <2>2 DEF Lone, Others
  <2>4. ~Commit(p)
    BY <1>4, <2>1, EndedFacts, <1>1 DEF Commit
  <2>5. PICK ty : Step(p, ty) /\ (ty.pc \notin {"idle", "done"} => Progress(ty))
    BY <2>3, <2>4, WorkAdvances DEF Advances
  <2>6. ty = tx
    BY <1>1, <1>4, <2>5 DEF Step
  <2>7. rows' = rows /\ occ' = occ /\ Live' = Live
    BY <2>1 DEF Step, libvars, Live
  <2>8. Progress(tx) /\ DOMAIN tx.put \subseteq Live /\ RowsStand /\ OccurrencesOwned
    BY <1>4, <2>1, <2>5, <2>6, <2>7 DEF RCInv, Secured, RowsStand
  <2>9. Progress(txn[p])'
    BY <1>4, <2>8, ProgressStands
  <2>10. QED
    BY <2>3, <2>9
<1>6. QED
  BY <1>2, <1>4, <1>5 DEF LoneInv

\* No transaction is open at first.
LEMMA LoneInvInit == Init => LoneInv
BY DEF Init, LoneInv, Open, NoTxn

\* Every step keeps it.
LEMMA LoneInvStep == RCInv /\ LoneInv /\ [Next]_vars => LoneInv'
<1> SUFFICES ASSUME RCInv, LoneInv, [Next]_vars PROVE LoneInv'
  OBVIOUS
<1>1. RCInv'
  BY RCInvStep
<1>2. ASSUME NEW p \in Conns, Arrive(p) PROVE LoneInv'
  BY <1>2, AppendStarts, UpsertKeepsAlone, UpdateStarts, DeleteStarts, DetachStarts,
     CascadeStarts, RenameStarts, MergeStarts DEF Arrive
<1>3. ASSUME NEW p \in Conns, Work(p) PROVE LoneInv'
  BY <1>1, <1>3, WorkKeepsAlone
<1>4. CASE UNCHANGED vars
  <2>1. rows' = rows /\ occ' = occ /\ txn' = txn /\ RowsStand
    BY <1>4 DEF vars, RowsStand, Live
  <2>2. ASSUME NEW q \in Conns, Open(q)', txn'[q].alone
        PROVE  Others(q)' = {} /\ Progress(txn[q])'
    <3>1. Others(q) = {} /\ Progress(txn[q])
      BY <2>1, <2>2 DEF LoneInv, Open
    <3>2. DOMAIN txn[q].put \subseteq Live /\ OccurrencesOwned
      BY DEF RCInv, Secured
    <3>3. Progress(txn[q])'
      BY <2>1, <3>1, <3>2, ProgressStands
    <3>4. QED
      BY <2>1, <3>1, <3>3 DEF Others, Open
  <2>3. QED
    BY <2>2 DEF LoneInv
<1>5. QED
  BY <1>2, <1>3, <1>4 DEF Next

\* A transaction that has been alone has come as far as its record shows.
LEMMA LoneInvariant == Spec => []LoneInv
BY RCInvariant, LoneInvInit, LoneInvStep, PTL DEF Spec

\* The step with which a transaction that was alone ends is its transaction of
\* Library, or changes nothing.
LEMMA LoneStepMeans ==
  RCInv /\ LoneInv /\ [Next]_vars =>
    \A p \in Conns : Open(p) /\ txn[p].alone /\ At(p, "done")' => [Meant(txn[p])]_libvars
<1> SUFFICES ASSUME RCInv, LoneInv, [Next]_vars, NEW p \in Conns, Open(p), txn[p].alone,
                    At(p, "done")'
             PROVE  [Meant(txn[p])]_libvars
  OBVIOUS
<1>1. Lone(p) /\ txn'[p].pc = "done" /\ DOMAIN txn = Conns /\ DOMAIN txn[p] = Fields
  BY DEF LoneInv, Lone, At, RCInv, Valid
<1>2. txn'[p] # txn[p]
  BY <1>1 DEF Open
<1>3. ASSUME NEW q \in Conns, Arrive(q) PROVE FALSE
  <2>1. \/ \E tx : Begin(q, tx)
        \/ \E o, v, id : InsertCluster(q, o, v, id)
    BY <1>3 DEF Arrive, Append, CropOf, CentroidOf, DeleteCluster, DetachCluster, RenameTo,
       MergeInto, CascadeOf
  <2>2. q # p
    BY <2>1 DEF Begin, InsertCluster, At, Open
  <2>3. \/ txn'[p] = txn[p]
        \/ txn'[p] = [txn[p] EXCEPT !.alone = FALSE]
    <3>1. CASE \E tx : Begin(q, tx)
      BY <2>2, <3>1 DEF Begin
    <3>2. CASE \E o, v, id : InsertCluster(q, o, v, id)
      BY <1>1, <2>2, <3>2 DEF InsertCluster
    <3>3. QED
      BY <2>1, <3>1, <3>2
  <2>4. QED
    BY <1>1, <2>3 DEF Open, Fields
<1>4. ASSUME NEW q \in Conns, Work(q) PROVE q = p
  <2>1. PICK tx : txn' = [txn EXCEPT ![q] = tx]
    BY <1>4, WorkGoes DEF RCInv, Valid, Commit, Goes, Step
  <2>2. QED
    BY <1>1, <1>2, <2>1
<1>5. Work(p)
  BY <1>2, <1>3, <1>4 DEF Next, vars
<1>6. CASE Commit(p)
  BY <1>1, <1>6, CommitMeans
<1>7. CASE ~Commit(p)
  BY <1>1, <1>5, <1>7, WorkGoes DEF Goes, Step
<1>8. QED
  BY <1>6, <1>7

\* A transaction during which no other one was open changes the tables as its
\* transaction of Library does, or not at all: what the functions of db.py do
\* with a loop, a recount per row, a foreign key and a nudge per sample is what
\* Library does in one step.  It holds for every number of connections, rows,
\* samples and sources of a merge.
THEOREM AloneImplementsLibrary == Spec => AloneIsLibrary
BY RCInvariant, LoneInvariant, LoneStepMeans, PTL DEF Spec, AloneIsLibrary

=============================================================================
