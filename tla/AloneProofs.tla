----------------------------- MODULE AloneProofs -----------------------------
(***************************************************************************)
(* What the routes promise of a request that runs alone, proved for a      *)
(* service with one handler thread, and how much of it survives failures:  *)
(* names and cascades need no assumption on Faults, crops need that no     *)
(* call raises, and that nobody is left without a sample needs that no     *)
(* caller hangs up either.                                                 *)
(*                                                                         *)
(* The invariant has a part for each of the three.  Each says what a       *)
(* request that is half done still owes, and that what it has read is      *)
(* still true: nobody else can have changed it.                            *)
(***************************************************************************)
EXTENDS FacesProofs

\* The steps of a request that adds samples or stores a crop
Adds == {"frame", "append", "reread", "drift", "put", "set"}

\* A request that has samples to append
Collects(tk) == InRun(tk) \/ tk.pc \in {"append", "reread"}

\* What a request notes down of a cluster
Known == [named : BOOLEAN, samples : Nat, crop : BOOLEAN]

(***************************************************************************)
(* Names and cascades.                                                     *)
(***************************************************************************)

\* An idle handler remembers nothing.
Resting(tk) == tk.pc = "idle" => tk = Idle

\* A loop is the loop of its own request.
InOwnLoop(tk) == /\ tk.pc \in Removals => tk.op = tk.pc
                 /\ tk.pc = "choose" => tk.op = "merge"
                 /\ tk.pc = "frames" => tk.op = "cascade"
                 /\ tk.op = "merge" => tk.todo = {}

\* Whoever the request read and is still there has the name it read.
KnowsNames(tk) ==
  \A c \in DOMAIN tk.known : /\ tk.known[c] \in Known
                             /\ c \in Live => (tk.known[c].named <=> IsNamed(c))

\* A selection has a first person; when merge_faces merges, it has read them all.
Selected(tk) ==
  /\ tk.pc \in {"choose", "merge"} =>
       1 \in DOMAIN tk.ids /\ DOMAIN tk.ids \subseteq Nat \ {0}
  /\ tk.pc = "merge" => \A i \in DOMAIN tk.ids : tk.ids[i] \in DOMAIN tk.known

\* A group of known people with one name at most
OneName(known, g) == /\ g \subseteq DOMAIN known
                     /\ \A c, k \in g : known[c].named /\ known[k].named => c = k

\* Such are the groups that merge_duplicate_groups has still to do.
Grouped(tk) ==
  tk.pc \in {"duplicates", "purge"} /\ tk.op = "duplicates" =>
    \A g \in tk.todo : OneName(tk.known, g)

\* A cascade goes on with a stream that has no sample, then no frame.
Cascading(tk) ==
  /\ tk.pc \in {"frames", "purge"} /\ tk.op = "cascade" => OccIn(occ, tk.stream) = {}
  /\ tk.pc = "purge" /\ tk.op = "cascade" => tk.stream \notin frames

\* What a handler may remember, whatever fails
Minds(tk) == /\ Resting(tk) /\ InOwnLoop(tk) /\ KnowsNames(tk)
             /\ Selected(tk) /\ Grouped(tk) /\ Cascading(tk)

NamesInv(th) == Minds(task[th])

(***************************************************************************)
(* Crops.                                                                  *)
(***************************************************************************)

\* A crop without a person is one that the request is about to purge.
Accounted(tk) == /\ DOMAIN crops \subseteq Live \cup tk.purge
                 /\ tk.pc \notin {"purge", "frames"} => tk.purge = {}

\* The one person whose crop is stored, but whose pointer is not set yet
Setting(tk, c) == tk.pc = "set" /\ c = tk.cluster

\* Every other person with a crop has a pointer to it.
Pointed(tk) == \A c \in Live \cap DOMAIN crops : rows[c].crop \/ Setting(tk, c)

\* Whoever the request read and is still there has the pointer it read.
KnowsCrops(tk) ==
  \A c \in DOMAIN tk.known \cap Live : tk.known[c].crop = rows[c].crop \/ Setting(tk, c)

\* A request that adds samples works on people who are there, and stores a crop
\* only where there is none, unless that is what it was asked for.
Working(tk) ==
  /\ InRun(tk) => \A c \in DOMAIN tk.known : Owned(c, tk.owner)
  /\ tk.pc \in {"put", "set", "reread"} => Owned(tk.cluster, tk.owner)
  /\ tk.pc \in {"append", "reread", "drift"} /\ tk.op = "attach" =>
       Owned(tk.cluster, tk.owner) /\ tk.drift = {tk.cluster}
  /\ tk.pc \in {"append", "drift"} /\ tk.op = "attach" => tk.cluster \in DOMAIN tk.known
  /\ tk.pc = "put" /\ tk.op # "recrop" => tk.cluster \notin DOMAIN crops

\* What a handler may remember and owe if no call raises
Cares(tk) == Accounted(tk) /\ Pointed(tk) /\ KnowsCrops(tk) /\ Working(tk)

CropsInv(th) == Cares(task[th])

(***************************************************************************)
(* Samples.                                                                *)
(***************************************************************************)

\* The samples to be appended are of people who are there, and everybody
\* without a sample is about to get one.
Peopled(tk) ==
  /\ Collects(tk) => \A i \in tk.items : Owned(i[1], tk.owner)
  /\ ~Collects(tk) => tk.items = {}
  /\ \A c \in Live : rows[c].samples > 0 \/ \E i \in tk.items : i[1] = c

PeopleInv(th) == Peopled(task[th])

(***************************************************************************)
(* What is to be shown of every step: each part is kept by what it needs.  *)
(***************************************************************************)

KeptAlone(th) ==
  /\ NamesInv(th)'
  /\ "raise" \notin Faults /\ CropsInv(th) => CropsInv(th)'
  /\ Faults = {} /\ CropsInv(th) /\ PeopleInv(th) => PeopleInv(th)'

\* The hypotheses of such a step
Before(th) == /\ ServiceInv /\ LibraryInv /\ ServiceInv' /\ LibraryInv'
              /\ [LibraryNext]_libvars
              /\ NamesInv(th) /\ th \in Threads

\* What a handler becomes is its next state.
LEMMA Becomes ==
  ASSUME ServiceInv, NEW th \in Threads, NEW tk, Become(th, tk)
  PROVE  task'[th] = tk
BY DEF ServiceInv, TasksSound, Become

(***************************************************************************)
(* Transactions that curate: who stays keeps owner, name and pointer.      *)
(***************************************************************************)

Spares == /\ Live' \subseteq Live
          /\ \A c \in Live' : SameIdentity(c) /\ rows'[c].crop = rows[c].crop

\* delete_cluster
LEMMA DeleteSpares ==
  ASSUME TypeInv, NEW c, NEW o, Delete(c, o)
  PROVE  Spares
<1>1. Curates
  BY DeleteCurates
<1>2. /\ rows' = Without(rows, {c})
      /\ occ' = Referenced(occ \ OccOf(occ, c), Live \ {c})
  BY DEF Delete
<1>3. \A k \in Live' : rows'[k] = rows[k]
  BY <1>2 DEF Without, Live
<1>4. occ' \subseteq occ
  BY <1>2 DEF Referenced
<1>5. QED
  BY <1>1, <1>3, <1>4 DEF Spares, Curates, SameIdentity

\* detach_cluster_from_stream
LEMMA DetachSpares ==
  ASSUME TypeInv, NEW c \in ClusterIds, NEW s \in Streams, NEW o \in Owners, Detach(c, s, o)
  PROVE  Spares /\ Live \ Live' \subseteq {c}
<1> DEFINE kept == {x \in occ : ~(x.cluster = c /\ x.stream = s /\ x.owner = o)}
<1>1. Curates
  BY DetachCurates
<1>2. /\ \A k \in Live' : SameIdentity(k)
      /\ occ' = Referenced(kept, Live') /\ Live \ Live' \subseteq {c}
  BY DetachEffect
<1>3. occ' \subseteq occ
  BY <1>2 DEF Referenced
<1>4. QED
  BY <1>1, <1>2, <1>3 DEF Spares, Curates

\* cascade_stream, which empties its stream
LEMMA CascadeSpares ==
  ASSUME TypeInv, NEW s \in Streams, Cascade(s)
  PROVE  Spares /\ OccIn(occ', s) = {}
<1> DEFINE kept == occ \ OccIn(occ, s)
<1>1. Curates
  BY CascadeCurates
<1>2. (\A k \in Live' : SameIdentity(k)) /\ occ' = Referenced(kept, Live')
  BY CascadeEffect
<1>3. occ' \subseteq occ \ OccIn(occ, s)
  BY <1>2 DEF Referenced
<1>4. QED
  BY <1>1, <1>2, <1>3 DEF Spares, Curates, OccIn

\* merge_clusters
LEMMA MergeSpares ==
  ASSUME TypeInv, NEW o, NEW target, NEW sources, Merge(o, target, sources)
  PROVE  /\ Spares
         /\ Live' = Live \ sources /\ target \in Live'
<1>1. Owned(target, o) /\ \A c \in sources : Owned(c, o)
  BY DEF Merge
<1>2. /\ target \in ClusterIds /\ sources \in SUBSET ClusterIds /\ o \in Owners
  BY <1>1 DEF Owned, TypeInv, TypeOK, Row
<1>3. PICK f \in [Moved(sources) -> Slots] :
        /\ Live' = Live \ sources /\ target \in Live'
        /\ \A c \in Live' : SameIdentity(c)
        /\ occ' = Referenced(Merged(f, target, sources, o), Live')
  BY <1>2, MergeEffect
<1>4. Curates
  BY MergeCurates
<1>5. QED
  BY <1>3, <1>4 DEF Spares, Curates

(***************************************************************************)
(* Ends and loops.                                                         *)
(***************************************************************************)

\* A request that ends, in whatever way, remembers nothing that could be wrong.
LEMMA EndKeepsNames ==
  ASSUME NEW th, Before(th), Become(th, Idle)
  PROVE  NamesInv(th)'
<1>1. task'[th] = Idle
  BY Becomes DEF Before
<1>2. QED
  BY <1>1 DEF NamesInv, Minds, Resting, InOwnLoop, KnowsNames, Selected, Grouped,
              Cascading, Idle, Nothing, Removals

\* It owes nothing if it left no crop to purge and none to point at.
LEMMA EndKeeps ==
  ASSUME NEW th, Before(th), Become(th, Idle), Live' = Live, crops' = crops,
         \A c \in Live : rows[c].crop => rows'[c].crop,
         task[th].pc \notin {"purge", "frames"},
         task[th].pc = "set" /\ CropsInv(th) => rows'[task[th].cluster].crop,
         Faults = {} /\ PeopleInv(th) => \A c \in Live : rows'[c].samples > 0
  PROVE  KeptAlone(th)
<1>1. task'[th] = Idle
  BY Becomes DEF Before
<1>2. NamesInv(th)'
  BY EndKeepsNames
<1>3. CropsInv(th) => CropsInv(th)'
  BY <1>1 DEF CropsInv, Cares, Accounted, Pointed, KnowsCrops, Working, Setting, InRun,
              Idle, Nothing, Spares
<1>4. Faults = {} /\ PeopleInv(th) => PeopleInv(th)'
  BY <1>1 DEF PeopleInv, Peopled, Collects, InRun, Adds, Idle
<1>5. QED
  BY <1>2, <1>3, <1>4 DEF KeptAlone

\* Where a loop goes on.
LEMMA PurgingShape ==
  ASSUME NEW tk, NEW M, Carries(tk, M), Removes(tk), NEW C
  PROVE  LET new == Purging(tk, C) IN
         \/ new = Idle /\ C = {} /\ tk.todo = {}
         \/ /\ \/ new.pc = "purge" /\ new.purge = C
               \/ new.pc = tk.op /\ new.purge = {} /\ C = {} /\ tk.todo # {}
                  /\ tk.op \in {"delete", "sweep", "merge", "duplicates"}
            /\ \A f \in Fields \ {"pc", "purge"} : new[f] = tk[f]
<1> DEFINE new == Purging(tk, C)
<1>1. CASE C = {} /\ tk.todo = {}
  BY <1>1 DEF Purging, Resume
<1>2. CASE C = {} /\ tk.todo # {}
  <2>1. new = [tk EXCEPT !.pc = tk.op, !.purge = {}]
    BY <1>2 DEF Purging, Resume
  <2>2. tk.op \in {"delete", "sweep", "merge", "duplicates"}
    BY <1>2 DEF Removes, Removals
  <2>3. QED
    BY <1>2, <2>1, <2>2 DEF Carries, Fields
<1>3. CASE C # {}
  <2>1. new = [tk EXCEPT !.pc = "purge", !.purge = C]
    BY <1>3 DEF Purging
  <2>2. QED
    BY <2>1 DEF Carries, Fields
<1>4. QED
  BY <1>1, <1>2, <1>3

\* A step of a request that deletes: b is what it goes on with once the crops
\* of C are purged.
LEMMA LoopKeeps ==
  ASSUME NEW th, Before(th), task[th].pc \notin Adds, Spares,
         NEW b, NEW C, Become(th, Purging(b, C)), Carries(b, minted), Removes(b),
         b.items \subseteq task[th].items,
         b.known = task[th].known \/ b.known = Nothing,
         b.op = "merge" => b.todo = {},
         b.op = "duplicates" => \A g \in b.todo : OneName(b.known, g),
         b.op = "cascade" => OccIn(occ', b.stream) = {} /\ b.stream \notin frames',
         \A c \in DOMAIN crops' : c \in DOMAIN crops,
         "raise" \notin Faults /\ CropsInv(th) => DOMAIN crops' \subseteq Live' \cup C
  PROVE  KeptAlone(th)
<1> DEFINE new == task'[th]
<1>1. \/ new = Idle /\ C = {} /\ b.todo = {}
      \/ /\ \/ new.pc = "purge" /\ new.purge = C
            \/ new.pc = b.op /\ new.purge = {} /\ C = {} /\ b.todo # {}
               /\ b.op \in {"delete", "sweep", "merge", "duplicates"}
         /\ new.op = b.op /\ new.known = b.known /\ new.items = b.items
         /\ new.todo = b.todo /\ new.stream = b.stream
  <2>1. new = Purging(b, C)
    BY Becomes DEF Before
  <2>2. QED
    BY <2>1, PurgingShape DEF Fields
<1>2. /\ new.pc \notin Adds /\ new.items \subseteq task[th].items
      /\ DOMAIN new.known \subseteq DOMAIN task[th].known
      /\ \A c \in DOMAIN new.known : new.known[c] = task[th].known[c]
  BY <1>1 DEF Idle, Nothing, Adds
<1>3. NamesInv(th)'
  <2>1. Resting(task[th])' /\ InOwnLoop(task[th])'
    BY <1>1 DEF Resting, InOwnLoop, Idle, Removals
  <2>2. KnowsNames(task[th])'
    BY <1>2 DEF Before, NamesInv, Minds, KnowsNames, IsNamed, Spares, SameIdentity
  <2>3. Selected(task[th])'
    BY <1>1 DEF Selected, Idle
  <2>4. Grouped(task[th])'
    BY <1>1 DEF Grouped, Idle
  <2>5. Cascading(task[th])'
    BY <1>1 DEF Cascading, Idle
  <2>6. QED
    BY <2>1, <2>2, <2>3, <2>4, <2>5 DEF NamesInv, Minds
<1>4. ASSUME "raise" \notin Faults, CropsInv(th) PROVE CropsInv(th)'
  <2>1. Accounted(task[th])'
    BY <1>1, <1>4 DEF Accounted, Idle
  <2>2. task[th].pc # "set"
    BY DEF Adds
  <2>3. Pointed(task[th])' /\ KnowsCrops(task[th])'
    BY <1>2, <1>4, <2>2 DEF CropsInv, Cares, Pointed, KnowsCrops, Setting, Spares
  <2>4. Working(task[th])'
    BY <1>2 DEF Working, Adds, InRun
  <2>5. QED
    BY <2>1, <2>3, <2>4 DEF CropsInv, Cares
<1>5. ASSUME PeopleInv(th) PROVE PeopleInv(th)'
  <2>1. task[th].items = {} /\ new.items = {}
    BY <1>2, <1>5 DEF PeopleInv, Peopled, Collects, InRun, Adds
  <2>2. \A c \in Live' : rows'[c].samples > 0
    BY <1>5, <2>1, PeopledStep DEF PeopleInv, Peopled, Collects, InRun, Adds, Spares, Before
  <2>3. QED
    BY <1>2, <2>1, <2>2 DEF PeopleInv, Peopled, Collects, InRun, Adds
<1>6. QED
  BY <1>3, <1>4, <1>5 DEF KeptAlone

(***************************************************************************)
(* Deleting, merging and purging.                                          *)
(***************************************************************************)

\* A step that takes tables and buckets as they are spares everybody.
LEMMA UnchangedSpares ==
  ASSUME UNCHANGED libvars PROVE Spares /\ Live' = Live /\ rows' = rows
BY DEF libvars, Spares, SameIdentity, Live

\* Who deletes knows what a loop may rely on.
LEMMA Looping ==
  ASSUME NEW th, Before(th), task[th].pc \in Removals \cup {"purge", "frames", "choose", "group"}
  PROVE  Carries(task[th], minted) /\ Removes(task[th]) /\ task[th].pc \notin Adds
BY Serving DEF Before, Sound, Adds, Removals

\* The crop of somebody who is gone goes too, and is owed no longer.
LEMMA PurgeCropAlone ==
  ASSUME NEW th, Before(th), PurgeCrop(th)
  PROVE  KeptAlone(th)
<1> DEFINE me == task[th]
<1>1. PICK c \in me.purge : /\ crops' = Minus(crops, c)
                            /\ Become(th, Purging(me, me.purge \ {c}))
                            /\ UNCHANGED <<libvars, frames>>
  BY DEF PurgeCrop
<1>2. me.pc = "purge"
  BY DEF PurgeCrop, At
<1>3. /\ Carries(me, minted) /\ Removes(me) /\ me.pc \notin Adds
  BY <1>2, Looping
<1>4. Spares /\ Live' = Live /\ frames' = frames /\ occ' = occ
  BY <1>1, UnchangedSpares DEF libvars
<1>5. InOwnLoop(me) /\ Grouped(me) /\ Cascading(me)
  BY DEF Before, NamesInv, Minds
<1>6. DOMAIN crops' = DOMAIN crops \ {c}
  BY <1>1 DEF Minus
<1>7. CropsInv(th) => DOMAIN crops' \subseteq Live' \cup (me.purge \ {c})
  BY <1>4, <1>6 DEF CropsInv, Cares, Accounted
<1>8. /\ me.op = "merge" => me.todo = {}
      /\ me.op = "duplicates" => \A g \in me.todo : OneName(me.known, g)
      /\ me.op = "cascade" => OccIn(occ', me.stream) = {} /\ me.stream \notin frames'
  BY <1>2, <1>4, <1>5 DEF InOwnLoop, Grouped, Cascading
<1>9. QED
  BY <1>1, <1>3, <1>4, <1>6, <1>7, <1>8, LoopKeeps

\* A purge that fails leaves a crop behind, but that is all.
LEMMA PurgeFailsAlone ==
  ASSUME NEW th, Before(th), PurgeFails(th)
  PROVE  KeptAlone(th)
<1> DEFINE me == task[th]
<1>1. PICK c \in me.purge :
        Become(th, IF me.op = "cascade" THEN Idle ELSE Purging(me, me.purge \ {c}))
  BY DEF PurgeFails
<1>2. me.pc = "purge" /\ "raise" \in Faults /\ UNCHANGED <<libvars, crops, frames>>
  BY DEF PurgeFails, At
<1>3. /\ Carries(me, minted) /\ Removes(me) /\ me.pc \notin Adds
  BY <1>2, Looping
<1>4. Spares /\ frames' = frames /\ crops' = crops
  BY <1>2, UnchangedSpares
<1>5. InOwnLoop(me) /\ Grouped(me)
  BY DEF Before, NamesInv, Minds
<1>6. CASE me.op = "cascade"
  BY <1>1, <1>2, <1>6, EndKeepsNames DEF KeptAlone
<1>7. CASE me.op # "cascade"
  <2>1. /\ me.op = "merge" => me.todo = {}
        /\ me.op = "duplicates" => \A g \in me.todo : OneName(me.known, g)
    BY <1>2, <1>5 DEF InOwnLoop, Grouped
  <2>2. Become(th, Purging(me, me.purge \ {c}))
    BY <1>1, <1>7
  <2>3. QED
    BY <1>2, <1>3, <1>4, <1>7, <2>1, <2>2, LoopKeeps
<1>8. QED
  BY <1>6, <1>7

\* The frames of a cascade go while its stream has no sample left.
LEMMA PurgeFramesAlone ==
  ASSUME NEW th, Before(th), PurgeFrames(th)
  PROVE  KeptAlone(th)
<1> DEFINE me == task[th]
<1>1. /\ Become(th, Purging(me, me.purge)) /\ UNCHANGED <<libvars, crops>>
      /\ frames' = frames \ {me.stream} /\ me.pc = "frames"
  BY DEF PurgeFrames, At
<1>2. /\ Carries(me, minted) /\ Removes(me) /\ me.pc \notin Adds
  BY <1>1, Looping
<1>3. Spares /\ Live' = Live /\ occ' = occ /\ crops' = crops
  BY <1>1, UnchangedSpares DEF libvars
<1>4. /\ me.op = "cascade" /\ OccIn(occ', me.stream) = {} /\ me.stream \notin frames'
  BY <1>1, <1>3 DEF Before, NamesInv, Minds, InOwnLoop, Cascading
<1>5. CropsInv(th) => DOMAIN crops' \subseteq Live' \cup me.purge
  BY <1>3 DEF CropsInv, Cares, Accounted
<1>6. QED
  BY <1>1, <1>2, <1>3, <1>4, <1>5, LoopKeeps

\* A handler at rest remembers nothing, owes nothing, and has nothing to append.
LEMMA AtRest ==
  ASSUME NEW th, Before(th), At(th, "idle")
  PROVE  /\ task[th] = Idle
         /\ CropsInv(th) => DOMAIN crops \subseteq Live /\ \A c \in DOMAIN crops : rows[c].crop
         /\ PeopleInv(th) => \A c \in Live : rows[c].samples > 0
<1>1. task[th] = Idle
  BY DEF Before, NamesInv, Minds, Resting, At
<1>2. /\ CropsInv(th) => DOMAIN crops \subseteq Live
      /\ PeopleInv(th) => \A c \in Live : rows[c].samples > 0
  BY <1>1 DEF CropsInv, Cares, Accounted, PeopleInv, Peopled, Collects, InRun, Adds, Idle
<1>3. CropsInv(th) => \A c \in DOMAIN crops : rows[c].crop
  BY <1>1, <1>2 DEF CropsInv, Cares, Pointed, Setting, Idle
<1>4. QED
  BY <1>1, <1>2, <1>3

\* A cluster that is deleted has its crop purged: its pointer tells whether there
\* is one.
LEMMA DeleteNextAlone ==
  ASSUME NEW th, Before(th), DeleteNext(th)
  PROVE  KeptAlone(th)
<1> DEFINE me == task[th]
           rest(c) == [me EXCEPT !.todo = @ \ {c}]
<1>1. PICK c \in me.todo :
        \/ /\ Delete(c, me.owner)
           /\ Become(th, Purging(rest(c), {k \in {c} : rows[k].crop}))
        \/ /\ Become(th, Resume(rest(c)))
           /\ UNCHANGED libvars
  BY DEF DeleteNext
<1>2. UNCHANGED <<crops, frames>> /\ me.pc \in {"delete", "sweep"}
  BY DEF DeleteNext, At
<1>3. Carries(me, minted) /\ Removes(me) /\ me.pc \notin Adds
  BY <1>2, Looping DEF Removals
<1>4. /\ Carries(rest(c), minted) /\ Removes(rest(c))
      /\ rest(c).items = me.items /\ rest(c).known = me.known /\ rest(c).op = me.op
  BY <1>3, RestOf DEF Carries, Fields
<1>5. me.op \in {"delete", "sweep"}
  BY <1>2 DEF Before, NamesInv, Minds, InOwnLoop, Removals
<1>6. CASE Delete(c, me.owner) /\ Become(th, Purging(rest(c), {k \in {c} : rows[k].crop}))
  <2>1. Spares
    BY <1>6, DeleteSpares DEF Before, ServiceInv
  <2>2. Live' = Live \ {c}
    BY <1>6 DEF Delete, Without, Live
  <2>3. CropsInv(th) => DOMAIN crops' \subseteq Live' \cup {k \in {c} : rows[k].crop}
    BY <1>2, <2>2 DEF CropsInv, Cares, Accounted, Pointed, Setting
  <2>4. QED
    BY <1>2, <1>3, <1>4, <1>5, <1>6, <2>1, <2>3, LoopKeeps
<1>7. CASE Become(th, Resume(rest(c))) /\ UNCHANGED libvars
  <2>1. Spares /\ Live' = Live
    BY <1>7, UnchangedSpares
  <2>2. CropsInv(th) => DOMAIN crops' \subseteq Live' \cup {}
    BY <1>2, <2>1 DEF CropsInv, Cares, Accounted
  <2>3. Become(th, Purging(rest(c), {}))
    BY <1>7 DEF Purging
  <2>4. QED
    BY <1>2, <1>3, <1>4, <1>5, <2>1, <2>2, <2>3, LoopKeeps
<1>8. QED
  BY <1>1, <1>6, <1>7

\* A cluster that goes with its last sample has its crop purged.
LEMMA DetachFaceAlone ==
  ASSUME NEW th, Before(th), NEW c \in ClusterIds, NEW s \in Streams, DetachFace(th, c, s)
  PROVE  KeptAlone(th)
<1> DEFINE o == rows[c].owner
           b == [Idle EXCEPT !.op = "detach", !.owner = o]
           gone == {k \in {c} : k \notin Live' /\ rows[k].crop}
<1>1. /\ c \in Live /\ Detach(c, s, o) /\ Become(th, Purging(b, gone))
      /\ UNCHANGED <<crops, frames>> /\ At(th, "idle")
  BY DEF DetachFace, Starts, At
<1>2. o \in Owners
  BY <1>1, Serving DEF Before
<1>3. Spares /\ Live \ Live' \subseteq {c}
  BY <1>1, <1>2, DetachSpares DEF Before, ServiceInv
<1>4. /\ Carries(b, minted) /\ Removes(b) /\ b.items = {} /\ b.known = Nothing
      /\ b.op = "detach"
  BY DEF Carries, Removes, Idle, Fields, Nothing, Removals
<1>5. CropsInv(th) => DOMAIN crops' \subseteq Live' \cup gone
  BY <1>1, <1>3, AtRest
<1>6. task[th].pc \notin Adds
  BY <1>1 DEF At, Adds
<1>7. QED
  BY <1>1, <1>3, <1>4, <1>5, <1>6, LoopKeeps

\* A merge, and then the crops of those it deleted
LEMMA MergingAlone ==
  ASSUME NEW th, Before(th), task[th].pc \notin {"purge", "frames"}, task[th].pc \notin Adds,
         NEW o, NEW target, NEW sources, Merge(o, target, sources),
         NEW b, Become(th, Purging(b, sources)), Carries(b, minted), Removes(b),
         b.items \subseteq task[th].items,
         b.known = task[th].known \/ b.known = Nothing,
         b.op = "merge" => b.todo = {},
         b.op = "duplicates" => \A g \in b.todo : OneName(b.known, g),
         b.op # "cascade",
         UNCHANGED <<crops, frames>>
  PROVE  KeptAlone(th)
<1>1. Spares /\ Live' = Live \ sources
  BY MergeSpares DEF Before, ServiceInv
<1>2. CropsInv(th) => DOMAIN crops' \subseteq Live' \cup sources
  BY <1>1 DEF CropsInv, Cares, Accounted
<1>3. QED
  BY <1>1, <1>2, LoopKeeps

\* A refused request just ends.
LEMMA RefusedAlone ==
  ASSUME NEW th, Before(th), UNCHANGED <<libvars, crops, frames>>, Become(th, Idle),
         task[th].pc \notin {"purge", "frames", "set"},
         Faults = {} /\ PeopleInv(th) => task[th].items = {}
  PROVE  KeptAlone(th)
<1>1. Spares /\ Live' = Live /\ rows' = rows
  BY UnchangedSpares
<1>2. Faults = {} /\ PeopleInv(th) => \A c \in Live : rows'[c].samples > 0
  BY <1>1 DEF PeopleInv, Peopled, Collects, InRun, Adds
<1>3. QED
  BY <1>1, <1>2, EndKeeps

\* merge_faces
LEMMA MergeFacesAlone ==
  ASSUME NEW th, Before(th), MergeFaces(th)
  PROVE  KeptAlone(th)
<1> DEFINE me == task[th]
           target == MergeTarget(me.ids, me.known)
           sources == DOMAIN me.known \ {target}
           b == [me EXCEPT !.ids = <<>>, !.known = Nothing]
<1>1. \/ /\ \E o \in Owners : Merge(o, target, sources)
         /\ Become(th, Purging(b, sources))
      \/ Become(th, Idle) /\ UNCHANGED libvars
  BY DEF MergeFaces
<1>2. UNCHANGED <<crops, frames>> /\ me.pc = "merge"
  BY DEF MergeFaces, At
<1>3. Carries(me, minted) /\ Removes(me) /\ me.pc \notin Adds
  BY <1>2, Looping DEF Removals
<1>4. me.op = "merge" /\ me.todo = {}
  BY <1>2 DEF Before, NamesInv, Minds, InOwnLoop, Removals
<1>5. /\ Carries(b, minted) /\ Removes(b)
      /\ b.items = me.items /\ b.known = Nothing /\ b.op = "merge" /\ b.todo = {}
  BY <1>3, <1>4 DEF Carries, Removes, Fields, Nothing
<1>6. CASE (\E o \in Owners : Merge(o, target, sources)) /\ Become(th, Purging(b, sources))
  BY <1>2, <1>3, <1>5, <1>6, MergingAlone
<1>7. CASE Become(th, Idle) /\ UNCHANGED libvars
  BY <1>2, <1>3, <1>7, RefusedAlone DEF PeopleInv, Peopled, Collects, InRun, Adds
<1>8. QED
  BY <1>1, <1>6, <1>7

\* The groups of merge_duplicate_groups have one name at most, as they were read.
LEMMA GroupDuplicatesAlone ==
  ASSUME NEW th, Before(th), GroupDuplicates(th)
  PROVE  KeptAlone(th)
<1> DEFINE me == task[th]
           inVideos == {c \in DOMAIN me.known : OccOf(occ, c) # {}}
           b(G) == [me EXCEPT !.todo = G]
<1>1. PICK G \in Groupings(me.known, inVideos) : Become(th, Resume(b(G)))
  BY DEF GroupDuplicates
<1>2. UNCHANGED <<libvars, crops, frames>> /\ me.pc = "group"
  BY DEF GroupDuplicates, At
<1>3. Carries(me, minted) /\ Removes(me) /\ me.pc \notin Adds /\ me.op = "duplicates"
  BY <1>2, Looping, Serving DEF Before, Sound
<1>4. /\ Carries(b(G), minted) /\ Removes(b(G))
      /\ b(G).items = me.items /\ b(G).known = me.known /\ b(G).op = "duplicates"
      /\ b(G).todo = G
  BY <1>3 DEF Carries, Removes, Fields
<1>5. \A g \in G : OneName(me.known, g)
  BY DEF Groupings, OneName
<1>6. Spares /\ Live' = Live
  BY <1>2, UnchangedSpares
<1>7. CropsInv(th) => DOMAIN crops' \subseteq Live' \cup {}
  BY <1>2, <1>6 DEF CropsInv, Cares, Accounted
<1>8. Become(th, Purging(b(G), {}))
  BY <1>1 DEF Purging
<1>9. QED
  BY <1>2, <1>3, <1>4, <1>5, <1>6, <1>7, <1>8, LoopKeeps

\* One group after the other; the other groups are as they were read.
LEMMA MergeGroupAlone ==
  ASSUME NEW th, Before(th), MergeGroup(th)
  PROVE  KeptAlone(th)
<1> DEFINE me == task[th]
           rest(g) == [me EXCEPT !.todo = @ \ {g}]
<1>1. PICK g \in me.todo :
        \/ \E target \in GroupTargets(me.known, g) :
             /\ Merge(me.owner, target, g \ {target})
             /\ Become(th, Purging(rest(g), g \ {target}))
        \/ Become(th, Resume(rest(g))) /\ UNCHANGED libvars
  BY DEF MergeGroup
<1>2. UNCHANGED <<crops, frames>> /\ me.pc = "duplicates"
  BY DEF MergeGroup, At
<1>3. Carries(me, minted) /\ Removes(me) /\ me.pc \notin Adds
  BY <1>2, Looping DEF Removals
<1>4. /\ Carries(rest(g), minted) /\ Removes(rest(g))
      /\ rest(g).items = me.items /\ rest(g).known = me.known /\ rest(g).op = me.op
      /\ rest(g).todo \subseteq me.todo
  BY <1>3, RestOf DEF Carries, Fields
<1>5. me.op = "duplicates" /\ \A h \in me.todo : OneName(me.known, h)
  BY <1>2 DEF Before, NamesInv, Minds, InOwnLoop, Grouped, Removals
<1>6. ASSUME NEW target, Merge(me.owner, target, g \ {target}),
             Become(th, Purging(rest(g), g \ {target}))
      PROVE  KeptAlone(th)
  BY <1>2, <1>3, <1>4, <1>5, <1>6, MergingAlone
<1>7. CASE Become(th, Resume(rest(g))) /\ UNCHANGED libvars
  <2>1. Spares /\ Live' = Live
    BY <1>7, UnchangedSpares
  <2>2. CropsInv(th) => DOMAIN crops' \subseteq Live' \cup {}
    BY <1>2, <2>1 DEF CropsInv, Cares, Accounted
  <2>3. Become(th, Purging(rest(g), {}))
    BY <1>7 DEF Purging
  <2>4. QED
    BY <1>2, <1>3, <1>4, <1>5, <2>1, <2>2, <2>3, LoopKeeps
<1>8. QED
  BY <1>1, <1>6, <1>7

(***************************************************************************)
(* Steps that only look and remember.                                      *)
(***************************************************************************)

\* A step that leaves tables and buckets alone is fine if what it remembers is.
LEMMA LocalAlone ==
  ASSUME NEW th, Before(th), UNCHANGED <<libvars, crops, frames>>,
         NEW tk, Become(th, tk), Minds(tk),
         "raise" \notin Faults /\ CropsInv(th) => Cares(tk),
         Faults = {} /\ CropsInv(th) /\ PeopleInv(th) => Peopled(tk)
  PROVE  KeptAlone(th)
<1>1. task'[th] = tk
  BY Becomes DEF Before
<1>2. rows' = rows /\ occ' = occ /\ Live' = Live /\ crops' = crops
  BY DEF libvars, Live
<1>3. NamesInv(th)'
  <2>1. /\ Resting(task[th])' /\ InOwnLoop(task[th])' /\ Selected(task[th])'
        /\ Grouped(task[th])'
    BY <1>1 DEF Minds, Resting, InOwnLoop, Selected, Grouped
  <2>2. KnowsNames(task[th])'
    BY <1>1, <1>2 DEF Minds, KnowsNames, IsNamed
  <2>3. Cascading(task[th])'
    BY <1>1, <1>2 DEF Minds, Cascading
  <2>4. QED
    BY <2>1, <2>2, <2>3 DEF NamesInv, Minds
<1>4. Cares(tk) => CropsInv(th)'
  <2>1. Accounted(tk) => Accounted(task[th])'
    BY <1>1, <1>2 DEF Accounted
  <2>2. Pointed(tk) => Pointed(task[th])'
    BY <1>1, <1>2 DEF Pointed, Setting
  <2>3. KnowsCrops(tk) => KnowsCrops(task[th])'
    BY <1>1, <1>2 DEF KnowsCrops, Setting
  <2>4. Working(tk) => Working(task[th])'
    BY <1>1, <1>2 DEF Working, InRun, Owned
  <2>5. QED
    BY <2>1, <2>2, <2>3, <2>4 DEF Cares, CropsInv
<1>5. Peopled(tk) => PeopleInv(th)'
  BY <1>1, <1>2 DEF PeopleInv, Peopled, Collects, InRun, Adds, Owned
<1>6. QED
  BY <1>3, <1>4, <1>5 DEF KeptAlone

\* A request that deletes, when it starts: there is nothing to purge yet.
LEMMA StartAlone ==
  ASSUME NEW th, Before(th), At(th, "idle"), UNCHANGED <<libvars, crops, frames>>,
         NEW tk, Become(th, tk), Minds(tk), tk.pc \in Steps \ Adds,
         tk.purge = {}, tk.items = {}, KnowsCrops(tk)
  PROVE  KeptAlone(th)
<1>1. CropsInv(th) => Cares(tk)
  BY AtRest DEF Cares, Accounted, Pointed, Working, InRun, Adds
<1>2. PeopleInv(th) => Peopled(tk)
  BY AtRest DEF Peopled, Collects, InRun, Adds
<1>3. QED
  BY <1>1, <1>2, LocalAlone

\* delete_face, delete_faces_batch
LEMMA StartDeleteAlone ==
  ASSUME NEW th, Before(th), NEW o, NEW C, StartDelete(th, o, C)
  PROVE  KeptAlone(th)
<1> DEFINE tk == [Idle EXCEPT !.pc = "delete", !.op = "delete", !.owner = o, !.todo = C]
<1>1. /\ tk.pc = "delete" /\ tk.op = "delete" /\ tk.known = Nothing
      /\ tk.purge = {} /\ tk.items = {}
  BY DEF Idle
<1>2. Minds(tk) /\ KnowsCrops(tk)
  BY <1>1 DEF Minds, Resting, InOwnLoop, KnowsNames, Selected, Grouped, Cascading,
              Nothing, KnowsCrops, Removals
<1>3. tk.pc \in Steps \ Adds
  BY <1>1 DEF Steps, Adds
<1>4. At(th, "idle") /\ UNCHANGED <<libvars, crops, frames>> /\ Become(th, tk)
  BY DEF StartDelete, Starts, At
<1>5. QED
  BY <1>1, <1>2, <1>3, <1>4, StartAlone

\* delete_empty_faces
LEMMA StartSweepAlone ==
  ASSUME NEW th, Before(th), NEW o, StartSweep(th, o)
  PROVE  KeptAlone(th)
<1> DEFINE empty == {c \in Live : rows[c].owner = o /\ OccOf(occ, c) = {}}
           tk == [Idle EXCEPT !.pc = "sweep", !.op = "sweep", !.owner = o, !.todo = empty]
<1>1. /\ tk.pc = "sweep" /\ tk.op = "sweep" /\ tk.known = Nothing
      /\ tk.purge = {} /\ tk.items = {}
  BY DEF Idle
<1>2. Minds(tk) /\ KnowsCrops(tk)
  BY <1>1 DEF Minds, Resting, InOwnLoop, KnowsNames, Selected, Grouped, Cascading,
              Nothing, KnowsCrops, Removals
<1>3. tk.pc \in Steps \ Adds
  BY <1>1 DEF Steps, Adds
<1>4. At(th, "idle") /\ UNCHANGED <<libvars, crops, frames>> /\ Become(th, tk)
  BY DEF StartSweep, Starts, At
<1>5. QED
  BY <1>1, <1>2, <1>3, <1>4, StartAlone

\* merge_faces
LEMMA StartMergeAlone ==
  ASSUME NEW th, Before(th), NEW ids, StartMerge(th, ids),
         1 \in DOMAIN ids, DOMAIN ids \subseteq Nat \ {0}
  PROVE  KeptAlone(th)
<1> DEFINE tk == [Idle EXCEPT !.pc = "choose", !.op = "merge", !.ids = ids]
<1>1. /\ tk.pc = "choose" /\ tk.op = "merge" /\ tk.known = Nothing
      /\ tk.purge = {} /\ tk.items = {} /\ tk.todo = {} /\ tk.ids = ids
  BY DEF Idle
<1>2. Minds(tk) /\ KnowsCrops(tk)
  BY <1>1 DEF Minds, Resting, InOwnLoop, KnowsNames, Selected, Grouped, Cascading,
              Nothing, KnowsCrops, Removals
<1>3. tk.pc \in Steps \ Adds
  BY <1>1 DEF Steps, Adds
<1>4. At(th, "idle") /\ UNCHANGED <<libvars, crops, frames>> /\ Become(th, tk)
  BY DEF StartMerge, Starts, At
<1>5. QED
  BY <1>1, <1>2, <1>3, <1>4, StartAlone

\* What get_clusters_for_owner returns is true when it is returned.
LEMMA SnapshotTrue ==
  ASSUME ServiceInv, NEW o
  PROVE  \A c \in DOMAIN Snapshot(o) : /\ Owned(c, o) /\ Snapshot(o)[c] \in Known
                                       /\ Snapshot(o)[c].named <=> IsNamed(c)
                                       /\ Snapshot(o)[c].crop = rows[c].crop
<1>1. rows \in [Live -> Row]
  BY DEF ServiceInv, TypeInv, TypeOK
<1>2. QED
  BY <1>1 DEF Snapshot, Owned, Known, Row, IsNamed

\* So is what get_cluster returns.
LEMMA ReadTrue ==
  ASSUME ServiceInv, NEW c \in Live
  PROVE  /\ Read(c) \in Known /\ (Read(c).named <=> IsNamed(c))
         /\ Read(c).crop = rows[c].crop
<1>1. rows \in [Live -> Row]
  BY DEF ServiceInv, TypeInv, TypeOK
<1>2. QED
  BY <1>1 DEF Read, Known, Row, IsNamed

\* merge_duplicate_groups
LEMMA StartDuplicatesAlone ==
  ASSUME NEW th, Before(th), NEW o, StartDuplicates(th, o)
  PROVE  KeptAlone(th)
<1> DEFINE tk == [Idle EXCEPT !.pc = "group", !.op = "duplicates", !.owner = o,
                              !.known = Snapshot(o)]
<1>1. /\ tk.pc = "group" /\ tk.op = "duplicates" /\ tk.known = Snapshot(o)
      /\ tk.purge = {} /\ tk.items = {} /\ tk.todo = {}
  BY DEF Idle
<1>2. KnowsNames(tk) /\ KnowsCrops(tk)
  BY <1>1, SnapshotTrue DEF Before, KnowsNames, KnowsCrops
<1>3. Minds(tk)
  BY <1>1, <1>2 DEF Minds, Resting, InOwnLoop, Selected, Grouped, Cascading, Removals
<1>4. tk.pc \in Steps \ Adds
  BY <1>1 DEF Steps, Adds
<1>5. At(th, "idle") /\ UNCHANGED <<libvars, crops, frames>> /\ Become(th, tk)
  BY DEF StartDuplicates, Starts, At
<1>6. QED
  BY <1>1, <1>2, <1>3, <1>4, <1>5, StartAlone

\* merge_faces reads one of its clusters; once it has read them all it merges.
LEMMA ReadMemberAlone ==
  ASSUME NEW th, Before(th), ReadMember(th)
  PROVE  KeptAlone(th)
<1> DEFINE me == task[th]
           unread == {i \in DOMAIN me.ids : me.ids[i] \notin DOMAIN me.known}
           seen(c) == [me EXCEPT !.known = Add(@, c, Read(c))]
<1>1. PICK c : \/ Become(th, Idle)
               \/ c \in Live /\ Become(th, seen(c))
               \/ /\ c \in Live /\ \A i \in unread : me.ids[i] = c
                  /\ Become(th, [seen(c) EXCEPT !.pc = "merge"])
  BY DEF ReadMember
<1>2. me.pc = "choose" /\ UNCHANGED <<libvars, crops, frames>>
  BY DEF ReadMember, At
<1>3. Carries(me, minted) /\ me.pc \notin Adds
  BY <1>2, Looping
<1>4. CASE Become(th, Idle)
  BY <1>2, <1>3, <1>4, RefusedAlone DEF PeopleInv, Peopled, Collects, InRun, Adds
<1>5. ASSUME c \in Live, NEW tk, Become(th, tk),
             tk = seen(c) \/ (tk = [seen(c) EXCEPT !.pc = "merge"]
                              /\ \A i \in unread : me.ids[i] = c)
      PROVE  KeptAlone(th)
  <2>1. /\ tk.op = me.op /\ tk.ids = me.ids /\ tk.purge = me.purge /\ tk.items = me.items
        /\ tk.todo = me.todo /\ tk.known = Add(me.known, c, Read(c))
        /\ tk.pc \in {"choose", "merge"}
    BY <1>2, <1>3, <1>5 DEF Carries, Fields
  <2>2. tk.pc = "merge" => \A i \in unread : me.ids[i] = c
    BY <1>2, <1>3, <1>5 DEF Carries, Fields
  <2>3. /\ DOMAIN tk.known = DOMAIN me.known \cup {c}
        /\ \A k \in DOMAIN tk.known : tk.known[k] = IF k = c THEN Read(c) ELSE me.known[k]
    BY <2>1 DEF Add
  <2>4. /\ me.op = "merge" /\ me.todo = {} /\ KnowsNames(me)
        /\ 1 \in DOMAIN me.ids /\ DOMAIN me.ids \subseteq Nat \ {0}
    BY <1>2 DEF Before, NamesInv, Minds, InOwnLoop, Selected
  <2>5. KnowsNames(tk)
    BY <1>5, <2>3, <2>4, ReadTrue DEF KnowsNames, Before
  <2>6. Selected(tk)
    BY <2>1, <2>2, <2>3, <2>4 DEF Selected
  <2>7. Minds(tk)
    BY <2>1, <2>4, <2>5, <2>6 DEF Minds, Resting, InOwnLoop, Grouped, Cascading, Removals
  <2>8. CropsInv(th) => Cares(tk)
    <3>1. CropsInv(th) => KnowsCrops(tk)
      BY <1>2, <1>5, <2>3, ReadTrue DEF CropsInv, Cares, KnowsCrops, Setting, Before
    <3>2. CropsInv(th) => Accounted(tk) /\ Pointed(tk)
      BY <1>2, <2>1 DEF CropsInv, Cares, Accounted, Pointed, Setting
    <3>3. Working(tk)
      BY <2>1 DEF Working, InRun
    <3>4. QED
      BY <3>1, <3>2, <3>3 DEF Cares
  <2>9. PeopleInv(th) => Peopled(tk)
    BY <1>2, <1>3, <2>1 DEF PeopleInv, Peopled, Collects, InRun, Adds
  <2>10. QED
    BY <1>2, <1>5, <2>7, <2>8, <2>9, LocalAlone
<1>6. QED
  BY <1>1, <1>4, <1>5

(***************************************************************************)
(* Rename and cascade.                                                     *)
(***************************************************************************)

\* rename_face, which no request waits for
LEMMA RenameFaceAlone ==
  ASSUME NEW th, Before(th), NEW c \in ClusterIds, NEW n, RenameFace(th, c, n)
  PROVE  KeptAlone(th)
<1>1. PICK o \in Owners : Rename(c, o, n)
  BY DEF RenameFace
<1>2. /\ UNCHANGED <<crops, frames, task>> /\ At(th, "idle")
  BY DEF RenameFace, Starts, At
<1>3. task[th] = Idle /\ task'[th] = Idle
  BY <1>2, AtRest
<1>4. /\ Live' = Live /\ occ' = occ
      /\ \A k \in Live : rows'[k].crop = rows[k].crop /\ rows'[k].samples = rows[k].samples
  <2>1. rows \in [Live -> Row]
    BY DEF Before, ServiceInv, TypeInv, TypeOK
  <2>2. QED
    BY <1>1, <2>1 DEF Rename, Live, Row
<1>5. NamesInv(th)'
  BY <1>3 DEF NamesInv, Minds, Resting, InOwnLoop, KnowsNames, Selected, Grouped,
                    Cascading, Idle, Nothing, Removals
<1>6. CropsInv(th) => CropsInv(th)'
  BY <1>2, <1>3, <1>4 DEF CropsInv, Cares, Accounted, Pointed, KnowsCrops, Working, Setting,
                          InRun, Idle, Nothing
<1>7. PeopleInv(th) => PeopleInv(th)'
  BY <1>3, <1>4 DEF PeopleInv, Peopled, Collects, InRun, Adds, Idle
<1>8. QED
  BY <1>5, <1>6, <1>7 DEF KeptAlone

\* The cascade's transaction empties the stream, and its crops are noted down.
LEMMA CascadeStreamAlone ==
  ASSUME NEW th, Before(th), NEW s \in Streams, CascadeStream(th, s)
  PROVE  KeptAlone(th)
<1> DEFINE tk == [Idle EXCEPT !.pc = "frames", !.op = "cascade", !.stream = s,
                              !.purge = Live \ Live']
<1>1. /\ Cascade(s) /\ Become(th, tk) /\ UNCHANGED <<crops, frames>> /\ At(th, "idle")
  BY DEF CascadeStream, Starts, At
<1>2. /\ task'[th].pc = "frames" /\ task'[th].op = "cascade" /\ task'[th].stream = s
      /\ task'[th].purge = Live \ Live' /\ task'[th].known = Nothing
      /\ task'[th].todo = {} /\ task'[th].items = {}
  <2>1. task'[th] = tk
    BY <1>1, Becomes DEF Before
  <2>2. QED
    BY <2>1 DEF Idle
<1>3. Spares /\ OccIn(occ', s) = {}
  BY <1>1, CascadeSpares DEF Before, ServiceInv
<1>4. NamesInv(th)'
  BY <1>2, <1>3 DEF NamesInv, Minds, Resting, InOwnLoop, KnowsNames, Selected,
                          Grouped, Cascading, Nothing, Removals
<1>5. CropsInv(th) => CropsInv(th)'
  <2>1. ASSUME CropsInv(th)
        PROVE  DOMAIN crops \subseteq Live /\ \A c \in DOMAIN crops : rows[c].crop
    BY <1>1, <2>1, AtRest
  <2>2. QED
    BY <1>1, <1>2, <1>3, <2>1 DEF CropsInv, Cares, Accounted, Pointed, KnowsCrops, Working,
                                  Setting, InRun, Nothing, Spares
<1>6. PeopleInv(th) => PeopleInv(th)'
  <2>1. ASSUME PeopleInv(th) PROVE \A c \in Live' : rows'[c].samples > 0
    BY <1>1, <1>3, <2>1, AtRest, PeopledStep DEF Spares, Before
  <2>2. QED
    BY <1>2, <2>1 DEF PeopleInv, Peopled, Collects, InRun, Adds
<1>7. QED
  BY <1>4, <1>5, <1>6 DEF KeptAlone

\* A request that is abandoned leaves its crops and samples as they are.
LEMMA AbandonAlone ==
  ASSUME NEW th, Before(th), Abandon(th)
  PROVE  KeptAlone(th)
<1>1. "raise" \in Faults /\ Become(th, Idle) /\ UNCHANGED <<libvars, crops, frames>>
  BY DEF Abandon
<1>2. QED
  BY <1>1, EndKeepsNames DEF KeptAlone

(***************************************************************************)
(* Inference.                                                              *)
(***************************************************************************)

\* A run notes down who is there; it has no sample yet.
LEMMA StartInferAlone ==
  ASSUME NEW th, Before(th), NEW o, NEW s, StartInfer(th, o, s)
  PROVE  KeptAlone(th)
<1> DEFINE tk == [Idle EXCEPT !.pc = "frame", !.op = "infer", !.owner = o, !.stream = s,
                              !.known = Snapshot(o)]
<1>1. /\ tk.pc = "frame" /\ tk.op = "infer" /\ tk.known = Snapshot(o) /\ tk.owner = o
      /\ tk.stream = s /\ tk.purge = {} /\ tk.items = {} /\ tk.todo = {}
  BY DEF Idle
<1>2. /\ At(th, "idle") /\ Become(th, tk)
      /\ UNCHANGED <<libvars, crops, frames>>
  BY DEF StartInfer, Starts, At
<1>3. KnowsNames(tk) /\ KnowsCrops(tk) /\ \A c \in DOMAIN tk.known : Owned(c, o)
  <2>1. \A c \in DOMAIN Snapshot(o) : Owned(c, o)
    BY SnapshotTrue DEF Before
  <2>2. QED
    BY <1>1, <2>1, SnapshotTrue DEF Before, KnowsNames, KnowsCrops
<1>4. Minds(tk)
  BY <1>1, <1>2, <1>3 DEF Minds, Resting, InOwnLoop, Selected, Grouped, Cascading,
                          Removals
<1>5. CropsInv(th) => Cares(tk)
  BY <1>1, <1>2, <1>3, AtRest DEF Cares, Accounted, Pointed, Working, InRun
<1>6. PeopleInv(th) => Peopled(tk)
  BY <1>1, <1>2, AtRest DEF Peopled, Collects, InRun, Adds
<1>7. QED
  BY <1>2, <1>4, <1>5, <1>6, LocalAlone

\* A caller who hangs up leaves people without samples, but no crop.
LEMMA AbortInferAlone ==
  ASSUME NEW th, Before(th), AbortInfer(th)
  PROVE  KeptAlone(th)
<1> DEFINE me == task[th]
           tk == [me EXCEPT !.pc = "aborted"]
<1>1. /\ me.pc = "frame" /\ "cancel" \in Faults /\ Become(th, tk)
      /\ UNCHANGED <<libvars, crops, frames>>
  BY DEF AbortInfer, At
<1>2. Sound(me, minted, Live, DOMAIN crops)
  BY Serving DEF Before
<1>3. /\ tk.pc = "aborted" /\ tk.op = "infer" /\ tk.known = me.known /\ tk.purge = me.purge
      /\ tk.todo = me.todo
  BY <1>1, <1>2 DEF Sound, Carries, Fields
<1>4. Minds(tk)
  BY <1>1, <1>3 DEF Before, NamesInv, Minds, Resting, InOwnLoop, KnowsNames, Selected,
                    Grouped, Cascading, Removals
<1>5. CropsInv(th) => Cares(tk)
  BY <1>1, <1>3 DEF CropsInv, Cares, Accounted, Pointed, KnowsCrops, Working, Setting, InRun
<1>6. QED
  BY <1>1, <1>4, <1>5, LocalAlone

\* The answer to somebody who hung up.
LEMMA Answer499Alone ==
  ASSUME NEW th, Before(th), Answer499(th)
  PROVE  KeptAlone(th)
<1>1. /\ task[th].pc = "aborted" /\ Become(th, Idle)
      /\ UNCHANGED <<libvars, crops, frames>>
  BY DEF Answer499, At
<1>2. QED
  BY <1>1, RefusedAlone DEF PeopleInv, Peopled, Collects, InRun, Adds

\* The run takes its samples along, from frame to frame and to the append.
LEMMA NextFrameAlone ==
  ASSUME NEW th, Before(th), NextFrame(th)
  PROVE  KeptAlone(th)
<1> DEFINE me == task[th]
           done == [Idle EXCEPT !.pc = "append", !.op = "infer", !.owner = me.owner,
                                !.stream = me.stream, !.items = me.items, !.drift = me.drift]
           next == [me EXCEPT !.frame = @ + 1, !.faces = 0]
<1>1. /\ me.pc = "frame" /\ UNCHANGED <<libvars, crops, frames>>
      /\ Become(th, done) \/ Become(th, next)
  BY DEF NextFrame, At
<1>2. me.op = "infer" /\ Carries(me, minted)
  BY <1>1, Serving DEF Before, Sound
<1>3. ASSUME NEW tk, tk = done \/ tk = next
      PROVE  /\ Minds(tk) /\ (CropsInv(th) => Cares(tk)) /\ (PeopleInv(th) => Peopled(tk))
  <2>1. /\ tk.pc \in {"frame", "append"} /\ tk.op = "infer" /\ tk.owner = me.owner
        /\ tk.stream = me.stream /\ tk.items = me.items
        /\ tk.known = me.known \/ tk.known = Nothing
        /\ tk.purge = me.purge \/ tk.purge = {}
        /\ tk.pc = "frame" => tk.known = me.known
    BY <1>1, <1>2, <1>3 DEF Carries, Fields, Idle
  <2>2. CropsInv(th) => me.purge = {}
    BY <1>1 DEF CropsInv, Cares, Accounted
  <2>3. Minds(tk)
    BY <1>1, <2>1 DEF Before, NamesInv, Minds, Resting, InOwnLoop, KnowsNames, Selected,
                      Grouped, Cascading, Removals, Nothing
  <2>4. CropsInv(th) => Cares(tk)
    BY <1>1, <2>1, <2>2 DEF CropsInv, Cares, Accounted, Pointed, KnowsCrops, Working,
                            Setting, InRun, Nothing
  <2>5. PeopleInv(th) => Peopled(tk)
    BY <1>1, <2>1 DEF PeopleInv, Peopled, Collects, InRun, Adds
  <2>6. QED
    BY <2>3, <2>4, <2>5
<1>4. QED
  BY <1>1, <1>3, LocalAlone

\* A face of cluster c, known or created for it: the run knows K from now on.
LEMMA FaceAlone ==
  ASSUME NEW th, Before(th), task[th].pc = "frame",
         NEW c, NEW K, c \in DOMAIN K,
         UNCHANGED <<occ, crops, frames>>,
         Live \subseteq Live', Live' \subseteq Live \cup {c}, \A k \in Live : rows'[k] = rows[k],
         c \in Live' \ Live =>
           rows'[c].owner = task[th].owner /\ rows'[c].name = NoName /\ rows'[c].crop = FALSE,
         \A k \in DOMAIN K :
           \/ k \in DOMAIN task[th].known /\ K[k] = task[th].known[k] /\ k \notin Live' \ Live
           \/ k = c /\ c \in Live' \ Live /\ K[k] = Newborn,
         NEW b, DOMAIN b = Fields, b.known = K,
         \A f \in Fields \ {"known"} : b[f] = task[th][f],
         Detected(th, b, c)
  PROVE  KeptAlone(th)
<1> DEFINE me == task[th]
           new == task'[th]
           tk(pc) == [b EXCEPT !.pc = pc, !.cluster = c, !.faces = @ + 1,
                               !.items = @ \cup {<<c, b.frame * Interval>>},
                               !.drift = @ \cup {c}]
<1>1. Carries(me, minted) /\ me.op = "infer"
  BY Serving DEF Before, Sound
<1>2. /\ b.op = "infer" /\ b.owner = me.owner /\ b.stream = me.stream
      /\ b.purge = me.purge /\ b.items = me.items /\ b.frame = me.frame
  BY <1>1 DEF Fields
<1>3. PICK pc \in {"frame"} \cup (IF K[c].crop THEN {} ELSE {"put"}) : Become(th, tk(pc))
  BY DEF Detected
<1>4. new = tk(pc)
  BY <1>3, Becomes DEF Before
<1>5. /\ new.pc = pc /\ new.op = "infer" /\ new.owner = me.owner /\ new.stream = me.stream
      /\ new.cluster = c /\ new.known = K /\ new.purge = me.purge
      /\ new.items = me.items \cup {<<c, me.frame * Interval>>}
  BY <1>2, <1>4 DEF Fields
<1>6. pc = "frame" \/ (pc = "put" /\ ~K[c].crop)
  BY <1>3
<1>7. NamesInv(th)'
  <2>1. ASSUME NEW k \in DOMAIN K
        PROVE  /\ K[k] \in Known
               /\ k \in Live' => (K[k].named <=> rows'[k].name # NoName)
    <3>1. CASE k \in DOMAIN me.known /\ K[k] = me.known[k] /\ k \notin Live' \ Live
      BY <3>1 DEF Before, NamesInv, Minds, KnowsNames, IsNamed
    <3>2. CASE k = c /\ c \in Live' \ Live /\ K[k] = Newborn
      BY <3>2 DEF Newborn, Known
    <3>3. QED
      BY <2>1, <3>1, <3>2
  <2>2. KnowsNames(task[th])'
    BY <1>5, <2>1 DEF KnowsNames, IsNamed
  <2>3. Cascading(task[th])'
    BY <1>5, <1>6 DEF Before, NamesInv, Minds, Cascading
  <2>4. QED
    BY <1>5, <1>6, <2>2, <2>3 DEF NamesInv, Minds, Resting, InOwnLoop, Selected, Grouped,
                                  Removals
<1>8. ASSUME CropsInv(th) PROVE CropsInv(th)'
  <2>1. DOMAIN crops \subseteq Live /\ me.purge = {}
    BY <1>8 DEF CropsInv, Cares, Accounted
  <2>2. \A k \in DOMAIN crops : rows[k].crop
    BY <1>8, <2>1 DEF CropsInv, Cares, Pointed, Setting
  <2>3. \A k \in DOMAIN me.known \cap Live : me.known[k].crop = rows[k].crop
    BY <1>8 DEF CropsInv, Cares, KnowsCrops, Setting
  <2>4. \A k \in DOMAIN me.known : Owned(k, me.owner)
    BY <1>8 DEF CropsInv, Cares, Working, InRun
  <2>5. Accounted(task[th])'
    BY <1>5, <2>1 DEF Accounted
  <2>6. Pointed(task[th])'
    BY <2>1, <2>2 DEF Pointed
  <2>7. KnowsCrops(task[th])'
    <3>1. ASSUME NEW k \in DOMAIN K, k \in Live' PROVE K[k].crop = rows'[k].crop
      <4>1. CASE k \in DOMAIN me.known /\ K[k] = me.known[k] /\ k \notin Live' \ Live
        BY <2>3, <3>1, <4>1
      <4>2. CASE k = c /\ c \in Live' \ Live /\ K[k] = Newborn
        <5>1. k = c /\ rows'[c].crop = FALSE
          BY <4>2
        <5>2. K[k].crop = FALSE
          BY <4>2 DEF Newborn
        <5>3. QED
          BY <5>1, <5>2
      <4>3. QED
        BY <3>1, <4>1, <4>2
    <3>2. QED
      BY <1>5, <3>1 DEF KnowsCrops
  <2>8. \A k \in DOMAIN K : k \in Live' /\ rows'[k].owner = me.owner
    BY <2>4 DEF Owned
  <2>9. pc = "put" => c \notin DOMAIN crops
    BY <1>6, <2>1, <2>2, <2>3
  <2>10. Working(task[th])'
    BY <1>5, <1>6, <2>8, <2>9 DEF Working, InRun, Owned
  <2>11. QED
    BY <2>5, <2>6, <2>7, <2>10 DEF CropsInv, Cares
<1>9. ASSUME CropsInv(th), PeopleInv(th) PROVE PeopleInv(th)'
  <2>1. \A k \in DOMAIN me.known : Owned(k, me.owner)
    BY <1>9 DEF CropsInv, Cares, Working, InRun
  <2>2. c \in Live' /\ rows'[c].owner = me.owner
    BY <2>1 DEF Owned
  <2>3. \A i \in me.items : i[1] \in Live' /\ rows'[i[1]].owner = me.owner
    BY <1>9 DEF PeopleInv, Peopled, Collects, InRun, Adds, Owned
  <2>4. \A i \in new.items : i[1] \in Live' /\ rows'[i[1]].owner = new.owner
    BY <1>5, <2>2, <2>3
  <2>5. \A k \in Live' : rows'[k].samples > 0 \/ \E i \in new.items : i[1] = k
    <3>1. <<c, me.frame * Interval>> \in new.items /\ <<c, me.frame * Interval>>[1] = c
      BY <1>5
    <3>2. \E i \in new.items : i[1] = c
      BY <3>1
    <3>3. QED
      BY <1>5, <1>9, <3>2 DEF PeopleInv, Peopled, Collects, InRun, Adds
  <2>6. QED
    BY <1>5, <1>6, <2>4, <2>5 DEF PeopleInv, Peopled, Collects, InRun, Adds, Owned
<1>10. QED
  BY <1>7, <1>8, <1>9 DEF KeptAlone

\* A face of somebody the run knows.
LEMMA FaceKnownAlone ==
  ASSUME NEW th, Before(th), FaceKnown(th)
  PROVE  KeptAlone(th)
<1> DEFINE me == task[th]
<1>1. PICK c \in DOMAIN me.known : Detected(th, me, c)
  BY DEF FaceKnown
<1>2. me.pc = "frame" /\ UNCHANGED <<libvars, crops, frames>>
  BY DEF FaceKnown, Detects
<1>3. rows' = rows /\ occ' = occ /\ Live' = Live
  BY <1>2 DEF libvars, Live
<1>4. DOMAIN me = Fields
  BY Serving DEF Before, Sound, Carries
<1>5. QED
  BY <1>1, <1>2, <1>3, <1>4, FaceAlone

\* A face of nobody the run knows.
LEMMA FaceUnknownAlone ==
  ASSUME NEW th, Before(th), FaceUnknown(th)
  PROVE  KeptAlone(th)
<1> DEFINE me == task[th]
           K(id) == Add(me.known, id, Newborn)
<1>1. PICK id \in ClusterIds, v \in Centroids :
        /\ Upsert(me.owner, v, id)
        /\ Detected(th, [me EXCEPT !.known = Add(@, id, Newborn)], id)
  BY DEF FaceUnknown
<1>2. me.pc = "frame" /\ UNCHANGED <<crops, frames>>
  BY DEF FaceUnknown, Detects
<1>3. /\ id \notin minted /\ Live' = Live \cup {id} /\ ~rows'[id].crop
      /\ \A c \in Live : rows'[c] = rows[c]
  BY <1>1, UpsertEffect DEF Before, ServiceInv
<1>4. /\ rows'[id].owner = me.owner /\ rows'[id].name = NoName /\ rows'[id].crop = FALSE
      /\ occ' = occ
  BY <1>1 DEF Upsert
<1>5. DOMAIN me.known \subseteq minted /\ Live \subseteq minted
  BY Serving DEF Before, Sound, Carries
<1>6. /\ DOMAIN K(id) = DOMAIN me.known \cup {id}
      /\ \A k \in DOMAIN K(id) : K(id)[k] = IF k = id THEN Newborn ELSE me.known[k]
  BY DEF Add
<1> DEFINE b == [me EXCEPT !.known = K(id)]
<1>7. DOMAIN b = Fields /\ b.known = K(id) /\ \A f \in Fields \ {"known"} : b[f] = me[f]
  BY Serving DEF Before, Sound, Carries, Fields
<1>8. Detected(th, b, id)
  BY <1>1
<1> HIDE DEF K, b
<1>9. QED
  BY <1>2, <1>3, <1>4, <1>5, <1>6, <1>7, <1>8, FaceAlone

(***************************************************************************)
(* Appending, moving centroids, storing a crop.                            *)
(***************************************************************************)

\* After an append everybody it was about has a sample of the stream: the new
\* one, or the one that was there and kept it out.
LEMMA AppendFills ==
  ASSUME NEW o, NEW s, NEW items, AppendSamples(o, s, items), NEW i \in items
  PROVE  OccOf(occ', i[1]) # {}
<1> DEFINE row == [stream |-> s, cluster |-> i[1], t |-> i[2], owner |-> o]
<1>1. occ' = occ \cup Fresh(o, s, items)
  BY DEF AppendSamples
<1>2. CASE \A x \in occ : <<x.stream, x.cluster, x.t>> # <<s, i[1], i[2]>>
  <2>1. row \in Fresh(o, s, items)
    BY <1>2 DEF Fresh
  <2>2. row \in OccOf(occ', i[1])
    BY <1>1, <2>1 DEF OccOf
  <2>3. QED
    BY <2>2
<1>3. ASSUME NEW x \in occ, <<x.stream, x.cluster, x.t>> = <<s, i[1], i[2]>>
      PROVE  OccOf(occ', i[1]) # {}
  <2>1. x.cluster = i[1]
    BY <1>3
  <2>2. x \in OccOf(occ', i[1])
    BY <1>1, <2>1 DEF OccOf
  <2>3. QED
    BY <2>2
<1>4. QED
  BY <1>2, <1>3

\* So nobody is left without a sample when a run has appended.
LEMMA AppendRunAlone ==
  ASSUME NEW th, Before(th), AppendRun(th)
  PROVE  KeptAlone(th)
<1> DEFINE me == task[th]
           drifting == [me EXCEPT !.pc = "drift", !.items = {}]
           next == IF me.drift = {} THEN Idle ELSE drifting
<1>1. \/ AppendSamples(me.owner, me.stream, me.items) /\ Become(th, next)
      \/ /\ \E i \in me.items : i[1] \notin Live
         /\ Become(th, Idle) /\ UNCHANGED libvars
  BY DEF AppendRun
<1>2. UNCHANGED <<crops, frames>> /\ me.pc = "append"
  BY DEF AppendRun, At
<1>3. Sound(me, minted, Live, DOMAIN crops)
  BY Serving DEF Before
<1>4. /\ me.owner \in Owners /\ me.stream \in Streams /\ Carries(me, minted)
      /\ me.items \in SUBSET (ClusterIds \X SampleTimes)
  BY <1>2, <1>3, Serving DEF Sound, Carries, Before
<1>5. CASE AppendSamples(me.owner, me.stream, me.items) /\ Become(th, next)
  <2>1. \A i \in me.items : Owned(i[1], me.owner)
    BY <1>5 DEF Before, AppendSamples, ServiceInv, TasksOwn, Appends, Owned
  <2>2. Curates
    BY <1>5, AppendCurates DEF Before, ServiceInv
  <2>3. /\ occ' = occ \cup Fresh(me.owner, me.stream, me.items) /\ Live' = Live
        /\ \A c \in Live : SameIdentity(c)
    BY <1>4, <1>5, <2>1, AppendEffect DEF Before, ServiceInv
  <2>4. \A x \in Fresh(me.owner, me.stream, me.items) : x.stream = me.stream
    BY <1>4, FreshFacts
  <2>5. ASSUME PeopleInv(th), NEW c \in Live PROVE rows'[c].samples > 0
    <3>1. CASE rows[c].samples > 0
      BY <2>3, <3>1, PeopledStep DEF Before
    <3>2. CASE \E i \in me.items : i[1] = c
      <4>1. OccOf(occ', c) # {}
        BY <1>5, <3>2, AppendFills
      <4>2. IsFiniteSet(OccOf(occ', c)) /\ rows'[c].samples = Cardinality(OccOf(occ', c))
        BY <2>3, PartsFinite DEF Before, LibraryInv, TypeInv, OccFinite, SampleCountExact
      <4>3. Cardinality(OccOf(occ', c)) # 0 /\ Cardinality(OccOf(occ', c)) \in Nat
        BY <4>1, <4>2, FS_EmptySet, FS_CardinalityType
      <4>4. QED
        BY <4>2, <4>3
    <3>3. QED
      BY <2>5, <3>1, <3>2 DEF PeopleInv, Peopled
  <2>6. CASE me.drift = {}
    BY <1>2, <1>5, <2>2, <2>3, <2>5, <2>6, EndKeeps DEF Curates
  <2>7. CASE me.drift # {}
    <3>1. task'[th] = drifting
      BY <1>5, <2>7, Becomes DEF Before
    <3>2. /\ task'[th].pc = "drift" /\ task'[th].op = me.op /\ task'[th].owner = me.owner
          /\ task'[th].cluster = me.cluster /\ task'[th].known = me.known
          /\ task'[th].drift = me.drift /\ task'[th].todo = me.todo
          /\ task'[th].purge = me.purge /\ task'[th].items = {}
      BY <1>4, <3>1 DEF Carries, Fields
    <3>3. KnowsNames(task[th])'
      BY <2>3, <3>2 DEF Before, NamesInv, Minds, KnowsNames, IsNamed, SameIdentity
    <3>4. NamesInv(th)'
      BY <3>2, <3>3 DEF Before, NamesInv, Minds, Resting, InOwnLoop, Selected,
                              Grouped, Cascading, Removals
    <3>5. CropsInv(th) => Accounted(task[th])' /\ Pointed(task[th])' /\ KnowsCrops(task[th])'
      BY <1>2, <2>2, <2>3, <3>2 DEF CropsInv, Cares, Accounted, Pointed, KnowsCrops,
                                    Setting, Curates
    <3>6. CropsInv(th) => Working(task[th])'
      BY <1>2, <2>3, <3>2 DEF CropsInv, Cares, Working, InRun, Owned, SameIdentity
    <3>7. PeopleInv(th) => PeopleInv(th)'
      BY <2>3, <2>5, <3>2 DEF PeopleInv, Peopled, Collects, InRun
    <3>8. QED
      BY <3>4, <3>5, <3>6, <3>7 DEF KeptAlone, CropsInv, Cares
  <2>8. QED
    BY <2>6, <2>7
<1>6. CASE /\ \E i \in me.items : i[1] \notin Live
           /\ Become(th, Idle) /\ UNCHANGED libvars
  BY <1>2, <1>6, RefusedAlone DEF PeopleInv, Peopled, Collects, Owned
<1>7. QED
  BY <1>1, <1>5, <1>6

\* A centroid that moves is nobody else's concern; attach goes on to a crop only
\* where there is none.
LEMMA UpdateDriftAlone ==
  ASSUME NEW th, Before(th), UpdateDrift(th)
  PROVE  KeptAlone(th)
<1> DEFINE me == task[th]
<1>1. PICK c \in me.drift, v \in Centroids :
        /\ UpdateCentroid(c, me.owner, v)
        /\ \/ me.drift # {c} /\ Become(th, [me EXCEPT !.drift = @ \ {c}])
           \/ Become(th, Idle)
           \/ /\ me.op = "attach" /\ ~me.known[c].crop
              /\ Become(th, [me EXCEPT !.pc = "put", !.drift = {}])
  BY DEF UpdateDrift
<1>2. UNCHANGED <<crops, frames>> /\ me.pc = "drift"
  BY DEF UpdateDrift, At
<1>3. Carries(me, minted)
  BY Serving DEF Before, Sound
<1>4. /\ Live' = Live /\ occ' = occ
      /\ \A k \in Live : /\ SameIdentity(k) /\ rows'[k].crop = rows[k].crop
                         /\ rows'[k].samples = rows[k].samples
  <2>1. rows \in [Live -> Row]
    BY DEF Before, ServiceInv, TypeInv, TypeOK
  <2>2. QED
    BY <1>1, <2>1 DEF UpdateCentroid, Live, Row, SameIdentity
<1>5. PeopleInv(th) => me.items = {} /\ \A k \in Live : rows'[k].samples > 0
  BY <1>2, <1>4 DEF PeopleInv, Peopled, Collects, InRun
<1>6. CASE Become(th, Idle)
  BY <1>2, <1>4, <1>5, <1>6, EndKeeps
<1>7. ASSUME NEW tk, Become(th, tk), DOMAIN tk = Fields,
             \A f \in Fields \ {"pc", "drift"} : tk[f] = me[f],
             \/ me.drift # {c} /\ tk.pc = "drift" /\ tk.drift = me.drift \ {c}
             \/ me.op = "attach" /\ ~me.known[c].crop /\ tk.pc = "put"
      PROVE  KeptAlone(th)
  <2>1. task'[th] = tk
    BY <1>7, Becomes DEF Before
  <2>2. /\ task'[th].op = me.op /\ task'[th].owner = me.owner
        /\ task'[th].cluster = me.cluster /\ task'[th].known = me.known
        /\ task'[th].todo = me.todo /\ task'[th].purge = me.purge
        /\ task'[th].items = me.items
        /\ \/ me.drift # {c} /\ task'[th].pc = "drift"
           \/ me.op = "attach" /\ ~me.known[c].crop /\ task'[th].pc = "put"
    BY <1>7, <2>1 DEF Fields
  <2>3. KnowsNames(task[th])'
    BY <1>4, <2>2 DEF Before, NamesInv, Minds, KnowsNames, IsNamed, SameIdentity
  <2>4. NamesInv(th)'
    BY <1>2, <2>2, <2>3 DEF Before, NamesInv, Minds, Resting, InOwnLoop, Selected,
                                  Grouped, Cascading, Removals
  <2>5. ASSUME CropsInv(th) PROVE CropsInv(th)'
    <3>1. me.op = "attach" => /\ Owned(me.cluster, me.owner) /\ me.cluster \in DOMAIN me.known
                              /\ c = me.cluster /\ me.drift = {c}
      BY <1>2, <2>5 DEF CropsInv, Cares, Working
    <3>2. Accounted(task[th])' /\ Pointed(task[th])' /\ KnowsCrops(task[th])'
      BY <1>2, <1>4, <2>2, <2>5 DEF CropsInv, Cares, Accounted, Pointed, KnowsCrops, Setting
    <3>3. me.op = "attach" /\ ~me.known[c].crop => me.cluster \notin DOMAIN crops
      BY <1>2, <2>5, <3>1 DEF CropsInv, Cares, Pointed, KnowsCrops, Setting, Owned
    <3>4. Owned(me.cluster, me.owner) => Owned(task[th].cluster, task[th].owner)'
      BY <1>4, <2>2 DEF Owned, SameIdentity
    <3>5. Working(task[th])'
      BY <1>2, <2>2, <3>1, <3>3, <3>4 DEF Working, InRun
    <3>6. QED
      BY <3>2, <3>5 DEF CropsInv, Cares
  <2>6. PeopleInv(th) => PeopleInv(th)'
    BY <1>4, <1>5, <2>2 DEF PeopleInv, Peopled, Collects, InRun
  <2>7. QED
    BY <2>4, <2>5, <2>6 DEF KeptAlone
<1>8. CASE me.drift # {c} /\ Become(th, [me EXCEPT !.drift = @ \ {c}])
  BY <1>2, <1>3, <1>7, <1>8 DEF Carries, Fields
<1>9. CASE /\ me.op = "attach" /\ ~me.known[c].crop
            /\ Become(th, [me EXCEPT !.pc = "put", !.drift = {}])
  BY <1>3, <1>7, <1>9 DEF Carries, Fields
<1>10. QED
  BY <1>1, <1>6, <1>8, <1>9

\* A crop is stored for somebody who is there; its pointer follows.
LEMMA PutCropAlone ==
  ASSUME NEW th, Before(th), PutCrop(th)
  PROVE  KeptAlone(th)
<1> DEFINE me == task[th]
           who == IF me.op = "recrop" THEN "user" ELSE "auto"
<1>1. /\ crops' = Add(crops, me.cluster, who) /\ Become(th, [me EXCEPT !.pc = "set"])
      /\ UNCHANGED <<libvars, frames>> /\ me.pc = "put"
  BY DEF PutCrop, At
<1>2. /\ rows' = rows /\ occ' = occ /\ Live' = Live
      /\ DOMAIN crops' = DOMAIN crops \cup {me.cluster}
  BY <1>1 DEF libvars, Live, Add
<1>3. /\ task'[th].pc = "set" /\ task'[th].op = me.op /\ task'[th].owner = me.owner
      /\ task'[th].cluster = me.cluster /\ task'[th].known = me.known
      /\ task'[th].todo = me.todo /\ task'[th].purge = me.purge /\ task'[th].items = me.items
      /\ task'[th].stream = me.stream
  <2>1. task'[th] = [me EXCEPT !.pc = "set"]
    BY <1>1, Becomes DEF Before
  <2>2. DOMAIN me = Fields
    BY Serving DEF Before, Sound, Carries
  <2>3. QED
    BY <2>1, <2>2 DEF Fields
<1>4. KnowsNames(task[th])'
  BY <1>1, <1>2, <1>3 DEF Before, NamesInv, Minds, KnowsNames, IsNamed
<1>5. NamesInv(th)'
  BY <1>1, <1>3, <1>4 DEF Before, NamesInv, Minds, Resting, InOwnLoop, Selected, Grouped,
                          Cascading, Removals
<1>6. ASSUME CropsInv(th) PROVE CropsInv(th)'
  <2>1. Owned(me.cluster, me.owner) /\ me.purge = {} /\ DOMAIN crops \subseteq Live
    BY <1>1, <1>6 DEF CropsInv, Cares, Working, Accounted
  <2>2. Accounted(task[th])'
    BY <1>2, <1>3, <2>1 DEF Accounted, Owned
  <2>3. Pointed(task[th])' /\ KnowsCrops(task[th])'
    BY <1>1, <1>2, <1>3, <1>6 DEF CropsInv, Cares, Pointed, KnowsCrops, Setting
  <2>4. Working(task[th])'
    BY <1>1, <1>2, <1>3, <1>6, <2>1 DEF CropsInv, Cares, Working, InRun, Owned
  <2>5. QED
    BY <2>2, <2>3, <2>4 DEF CropsInv, Cares
<1>7. PeopleInv(th) => PeopleInv(th)'
  BY <1>1, <1>2, <1>3 DEF PeopleInv, Peopled, Collects, InRun, Owned
<1>8. QED
  BY <1>5, <1>6, <1>7 DEF KeptAlone

\* The pointer is set for somebody who is there, and the run knows it.
LEMMA SetCropPointerAlone ==
  ASSUME NEW th, Before(th), SetCropPointer(th)
  PROVE  KeptAlone(th)
<1> DEFINE me == task[th]
           back == [me EXCEPT !.pc = "frame", !.known[me.cluster].crop = TRUE]
<1>1. /\ SetCrop(me.cluster, me.owner) /\ UNCHANGED <<crops, frames>>
      /\ Become(th, IF me.op = "infer" THEN back ELSE Idle) /\ me.pc = "set"
  BY DEF SetCropPointer, At
<1>2. /\ Live' = Live /\ occ' = occ
      /\ \A k \in Live : /\ SameIdentity(k) /\ rows'[k].samples = rows[k].samples
                         /\ k # me.cluster => rows'[k].crop = rows[k].crop
                         /\ rows[k].crop => rows'[k].crop
  <2>1. rows \in [Live -> Row]
    BY DEF Before, ServiceInv, TypeInv, TypeOK
  <2>2. QED
    BY <1>1, <2>1 DEF SetCrop, Live, Row, SameIdentity
<1>3. CropsInv(th) => Owned(me.cluster, me.owner) /\ rows'[me.cluster].crop = TRUE
  <2>1. rows \in [Live -> Row]
    BY DEF Before, ServiceInv, TypeInv, TypeOK
  <2>2. CropsInv(th) => Owned(me.cluster, me.owner)
    BY <1>1 DEF CropsInv, Cares, Working
  <2>3. Owned(me.cluster, me.owner) => rows'[me.cluster].crop = TRUE
    BY <1>1, <2>1 DEF SetCrop, Owned, Row
  <2>4. QED
    BY <2>2, <2>3
<1>4. CASE me.op # "infer"
  <2>1. PeopleInv(th) => \A c \in Live : rows'[c].samples > 0
    BY <1>1, <1>2, <1>4 DEF PeopleInv, Peopled, Collects, InRun
  <2>2. QED
    BY <1>1, <1>2, <1>3, <1>4, <2>1, EndKeeps
<1>5. CASE me.op = "infer"
  <2>1. task'[th] = back
    BY <1>1, <1>5, Becomes DEF Before
  <2>2. /\ task'[th].pc = "frame" /\ task'[th].op = "infer" /\ task'[th].owner = me.owner
        /\ task'[th].stream = me.stream /\ task'[th].todo = me.todo
        /\ task'[th].purge = me.purge /\ task'[th].items = me.items
        /\ task'[th].known = [me.known EXCEPT ![me.cluster].crop = TRUE]
    <3>1. DOMAIN me = Fields
      BY Serving DEF Before, Sound, Carries
    <3>2. QED
      BY <1>5, <2>1, <3>1 DEF Fields
  <2>3. \A k \in DOMAIN me.known :
          /\ me.known[k] \in Known
          /\ k \in Live => (me.known[k].named <=> rows[k].name # NoName)
    BY DEF Before, NamesInv, Minds, KnowsNames, IsNamed
  <2>4. /\ DOMAIN task'[th].known = DOMAIN me.known
        /\ \A k \in DOMAIN me.known :
             /\ task'[th].known[k] \in Known
             /\ task'[th].known[k].named = me.known[k].named
             /\ k = me.cluster => task'[th].known[k].crop = TRUE
             /\ k # me.cluster => task'[th].known[k].crop = me.known[k].crop
    <3>1. DOMAIN task'[th].known = DOMAIN me.known
      BY <2>2
    <3>2. ASSUME NEW k \in DOMAIN me.known, k # me.cluster
          PROVE  task'[th].known[k] = me.known[k]
      BY <2>2, <3>2
    <3>3. ASSUME me.cluster \in DOMAIN me.known
          PROVE  /\ task'[th].known[me.cluster] \in Known
                 /\ task'[th].known[me.cluster].named = me.known[me.cluster].named
                 /\ task'[th].known[me.cluster].crop = TRUE
      <4>1. task'[th].known[me.cluster] = [me.known[me.cluster] EXCEPT !.crop = TRUE]
        BY <2>2, <3>3
      <4>2. me.known[me.cluster] \in Known
        BY <2>3, <3>3
      <4>3. QED
        BY <4>1, <4>2 DEF Known
    <3>4. QED
      BY <2>3, <3>1, <3>2, <3>3
  <2>5. KnowsNames(task[th])'
    BY <1>2, <2>3, <2>4 DEF KnowsNames, IsNamed, SameIdentity
  <2>6. NamesInv(th)'
    BY <1>1, <1>5, <2>2, <2>5 DEF Before, NamesInv, Minds, Resting, InOwnLoop,
                                        Selected, Grouped, Cascading, Removals
  <2>7. ASSUME CropsInv(th) PROVE CropsInv(th)'
    <3>1. Accounted(task[th])'
      BY <1>1, <1>2, <2>2, <2>7 DEF CropsInv, Cares, Accounted
    <3>2. Pointed(task[th])'
      BY <1>1, <1>2, <1>3, <2>7 DEF CropsInv, Cares, Pointed, Setting
    <3>3. KnowsCrops(task[th])'
      <4>1. ASSUME NEW k \in DOMAIN me.known, k \in Live
            PROVE  task'[th].known[k].crop = rows'[k].crop
        <5>1. CASE k = me.cluster
          BY <1>3, <2>4, <2>7, <5>1
        <5>2. CASE k # me.cluster
          BY <1>2, <2>4, <2>7, <4>1, <5>2 DEF CropsInv, Cares, KnowsCrops, Setting
        <5>3. QED
          BY <5>1, <5>2
      <4>2. QED
        BY <1>2, <2>4, <4>1 DEF KnowsCrops
    <3>4. Working(task[th])'
      <4>1. \A k \in DOMAIN me.known : Owned(k, me.owner)
        BY <1>1, <1>5, <2>7 DEF CropsInv, Cares, Working, InRun
      <4>2. \A k \in DOMAIN me.known : k \in Live' /\ rows'[k].owner = me.owner
        BY <1>2, <4>1 DEF Owned, SameIdentity
      <4>3. task'[th].owner = me.owner /\ DOMAIN task'[th].known = DOMAIN me.known
        BY <2>2, <2>4
      <4>4. QED
        BY <2>2, <4>2, <4>3 DEF Working, Owned
    <3>5. QED
      BY <3>1, <3>2, <3>3, <3>4 DEF CropsInv, Cares
  <2>8. PeopleInv(th) => PeopleInv(th)'
    BY <1>1, <1>2, <1>5, <2>2 DEF PeopleInv, Peopled, Collects, InRun, Owned, SameIdentity
  <2>9. QED
    BY <2>6, <2>7, <2>8 DEF KeptAlone
<1>6. QED
  BY <1>4, <1>5

(***************************************************************************)
(* attach_frame_face, and the routes that replace a crop.                  *)
(***************************************************************************)

\* attach_frame_face of somebody who was found.
LEMMA StartAttachAlone ==
  ASSUME NEW th, Before(th), NEW c, NEW s, NEW t, StartAttach(th, c, s, t)
  PROVE  KeptAlone(th)
<1> DEFINE tk == [Idle EXCEPT !.pc = "append", !.op = "attach", !.owner = rows[c].owner,
                              !.stream = s, !.cluster = c, !.known = Add(Nothing, c, Read(c)),
                              !.items = {<<c, t>>}, !.drift = {c}]
<1>1. /\ At(th, "idle") /\ c \in Live /\ Become(th, tk)
      /\ UNCHANGED <<libvars, crops, frames>>
  BY DEF StartAttach, Starts, At
<1>2. /\ tk.pc = "append" /\ tk.op = "attach" /\ tk.owner = rows[c].owner
      /\ tk.stream = s /\ tk.cluster = c /\ tk.known = Add(Nothing, c, Read(c))
      /\ tk.items = {<<c, t>>} /\ tk.drift = {c} /\ tk.purge = {} /\ tk.todo = {}
  BY DEF Idle
<1>3. DOMAIN tk.known = {c} /\ tk.known[c] = Read(c)
  BY <1>2 DEF Add, Nothing
<1>4. Owned(c, tk.owner) /\ \A i \in tk.items : i[1] = c
  BY <1>1, <1>2 DEF Owned
<1> HIDE DEF tk
<1>5. KnowsNames(tk) /\ KnowsCrops(tk)
  BY <1>1, <1>3, ReadTrue DEF Before, KnowsNames, KnowsCrops
<1>6. Minds(tk)
  BY <1>1, <1>2, <1>5 DEF Minds, Resting, InOwnLoop, Selected, Grouped, Cascading, Removals
<1>7. CropsInv(th) => Cares(tk)
  BY <1>1, <1>2, <1>3, <1>4, <1>5, AtRest DEF Cares, Accounted, Pointed, Working, InRun
<1>8. PeopleInv(th) => Peopled(tk)
  BY <1>1, <1>2, <1>4, AtRest DEF Peopled, Collects, InRun
<1>9. QED
  BY <1>1, <1>6, <1>7, <1>8, LocalAlone

\* attach_frame_face that creates its cluster: the sample is noted down with it.
LEMMA StartAttachNewAlone ==
  ASSUME NEW th, Before(th), NEW o \in Owners, NEW s, NEW t, StartAttachNew(th, o, s, t)
  PROVE  KeptAlone(th)
<1> DEFINE tk(id) == [Idle EXCEPT !.pc = "reread", !.op = "attach", !.owner = o, !.stream = s,
                                  !.cluster = id, !.items = {<<id, t>>}, !.drift = {id}]
<1>1. PICK id \in ClusterIds, v \in Centroids : Upsert(o, v, id) /\ Become(th, tk(id))
  BY DEF StartAttachNew
<1>2. At(th, "idle") /\ UNCHANGED <<crops, frames>>
  BY DEF StartAttachNew, Starts, At
<1>3. /\ Live' = Live \cup {id} /\ id \notin Live /\ \A c \in Live : rows'[c] = rows[c]
      /\ rows'[id].owner = o /\ occ' = occ
  <2>1. /\ id \notin minted /\ Live' = Live \cup {id} /\ \A c \in Live : rows'[c] = rows[c]
    BY <1>1, UpsertEffect DEF Before, ServiceInv
  <2>2. rows'[id].owner = o /\ occ' = occ
    BY <1>1 DEF Upsert
  <2>3. QED
    BY <2>1, <2>2, Serving DEF Before
<1>4. /\ task'[th].pc = "reread" /\ task'[th].op = "attach" /\ task'[th].owner = o
      /\ task'[th].stream = s /\ task'[th].cluster = id /\ task'[th].known = Nothing
      /\ task'[th].items = {<<id, t>>} /\ task'[th].drift = {id} /\ task'[th].purge = {}
      /\ task'[th].todo = {}
  <2>1. task'[th] = tk(id)
    BY <1>1, Becomes DEF Before
  <2>2. QED
    BY <2>1 DEF Idle
<1>5. NamesInv(th)'
  BY <1>2, <1>4 DEF NamesInv, Minds, Resting, InOwnLoop, KnowsNames, Selected,
                          Grouped, Cascading, Nothing, Removals
<1>6. ASSUME CropsInv(th) PROVE CropsInv(th)'
  <2>1. DOMAIN crops \subseteq Live /\ \A c \in DOMAIN crops : rows[c].crop
    BY <1>2, <1>6, AtRest
  <2>2. Accounted(task[th])' /\ Pointed(task[th])' /\ KnowsCrops(task[th])'
    BY <1>2, <1>3, <1>4, <2>1 DEF Accounted, Pointed, KnowsCrops, Nothing
  <2>3. Working(task[th])'
    BY <1>3, <1>4 DEF Working, InRun, Owned
  <2>4. QED
    BY <2>2, <2>3 DEF CropsInv, Cares
<1>7. ASSUME PeopleInv(th) PROVE PeopleInv(th)'
  <2>1. \A c \in Live : rows[c].samples > 0
    BY <1>2, <1>7, AtRest
  <2>2. <<id, t>> \in task'[th].items /\ <<id, t>>[1] = id
    BY <1>4
  <2>3. \A c \in Live' : rows'[c].samples > 0 \/ \E i \in task'[th].items : i[1] = c
    BY <1>3, <2>1, <2>2
  <2>4. \A i \in task'[th].items : i[1] \in Live' /\ rows'[i[1]].owner = task'[th].owner
    BY <1>3, <1>4
  <2>5. QED
    BY <1>4, <2>3, <2>4 DEF PeopleInv, Peopled, Collects, InRun, Owned
<1>8. QED
  BY <1>5, <1>6, <1>7 DEF KeptAlone

\* The new cluster is read back; alone, it is always there.
LEMMA RereadAlone ==
  ASSUME NEW th, Before(th), Reread(th)
  PROVE  KeptAlone(th)
<1> DEFINE me == task[th]
           tk == [me EXCEPT !.pc = "append", !.known = Add(Nothing, me.cluster, Read(me.cluster))]
<1>1. \/ me.cluster \notin Live /\ Become(th, Idle)
      \/ me.cluster \in Live /\ Become(th, tk)
  BY DEF Reread
<1>2. /\ me.pc = "reread" /\ UNCHANGED <<libvars, crops, frames>>
  BY DEF Reread, At
<1>3. DOMAIN me = Fields
  BY Serving DEF Before, Sound, Carries
<1>4. CASE me.cluster \notin Live /\ Become(th, Idle)
  <2>1. Spares
    BY <1>2, UnchangedSpares
  <2>2. NamesInv(th)'
    BY <1>4, EndKeepsNames
  <2>3. ~CropsInv(th)
    BY <1>2, <1>4 DEF CropsInv, Cares, Working, Owned
  <2>4. QED
    BY <2>2, <2>3 DEF KeptAlone
<1>5. CASE me.cluster \in Live /\ Become(th, tk)
  <2>1. /\ tk.pc = "append" /\ tk.op = me.op /\ tk.owner = me.owner
        /\ tk.stream = me.stream /\ tk.cluster = me.cluster /\ tk.drift = me.drift
        /\ tk.items = me.items /\ tk.purge = me.purge /\ tk.todo = me.todo
        /\ tk.known = Add(Nothing, me.cluster, Read(me.cluster))
    BY <1>3 DEF Fields
  <2>2. DOMAIN tk.known = {me.cluster} /\ tk.known[me.cluster] = Read(me.cluster)
    BY <2>1 DEF Add, Nothing
  <2> HIDE DEF tk
  <2>3. KnowsNames(tk) /\ KnowsCrops(tk)
    BY <1>5, <2>2, ReadTrue DEF Before, KnowsNames, KnowsCrops
  <2>4. Minds(tk)
    BY <1>2, <2>1, <2>3 DEF Before, NamesInv, Minds, Resting, InOwnLoop, Selected, Grouped,
                            Cascading, Removals
  <2>5. CropsInv(th) => Cares(tk)
    BY <1>2, <2>1, <2>2, <2>3 DEF CropsInv, Cares, Accounted, Pointed, Setting, Working,
                                  InRun
  <2>6. PeopleInv(th) => Peopled(tk)
    BY <1>2, <2>1 DEF PeopleInv, Peopled, Collects, InRun
  <2>7. QED
    BY <1>2, <1>5, <2>4, <2>5, <2>6, LocalAlone
<1>6. QED
  BY <1>1, <1>4, <1>5

\* A crop is replaced for somebody who was found.
LEMMA StartRecropAlone ==
  ASSUME NEW th, Before(th), NEW c, StartRecrop(th, c)
  PROVE  KeptAlone(th)
<1> DEFINE tk == [Idle EXCEPT !.pc = "put", !.op = "recrop", !.owner = rows[c].owner,
                              !.cluster = c]
<1>1. /\ At(th, "idle") /\ c \in Live /\ Become(th, tk)
      /\ UNCHANGED <<libvars, crops, frames>>
  BY DEF StartRecrop, Starts, At
<1>2. /\ tk.pc = "put" /\ tk.op = "recrop" /\ tk.owner = rows[c].owner /\ tk.cluster = c
      /\ tk.known = Nothing /\ tk.items = {} /\ tk.purge = {} /\ tk.todo = {}
  BY DEF Idle
<1>3. Minds(tk)
  BY <1>2 DEF Minds, Resting, InOwnLoop, KnowsNames, Selected, Grouped, Cascading, Nothing, Removals
<1>4. CropsInv(th) => Cares(tk)
  BY <1>1, <1>2, AtRest DEF Cares, Accounted, Pointed, KnowsCrops, Working, InRun,
                            Nothing, Owned
<1>5. PeopleInv(th) => Peopled(tk)
  BY <1>1, <1>2, AtRest DEF Peopled, Collects, InRun
<1>6. QED
  BY <1>1, <1>3, <1>4, <1>5, LocalAlone

(***************************************************************************)
(* The whole service, with one handler.                                    *)
(***************************************************************************)

\* The invariant: each part under the failures it survives
AloneInv(th) == /\ ServiceInv /\ LibraryInv /\ NamesInv(th)
                /\ "raise" \notin Faults => CropsInv(th)
                /\ Faults = {} => PeopleInv(th)

\* Every request keeps all three parts.
LEMMA RequestAlone ==
  ASSUME NEW th, Before(th), Request(th)
  PROVE  KeptAlone(th)
<1>1. ASSUME NEW n \in 2 .. MaxSelected, NEW ids \in [1 .. n -> ClusterIds],
             StartMerge(th, ids)
      PROVE  KeptAlone(th)
  <2>1. 1 \in DOMAIN ids /\ DOMAIN ids \subseteq Nat \ {0}
    OBVIOUS
  <2>2. QED
    BY <1>1, <2>1, StartMergeAlone
<1>2. CASE \E o \in Owners : StartSweep(th, o) \/ StartDuplicates(th, o)
  BY <1>2, StartSweepAlone, StartDuplicatesAlone
<1>3. CASE \E o \in Owners, C \in SUBSET ClusterIds : StartDelete(th, o, C)
  BY <1>3, StartDeleteAlone
<1>4. CASE \E o \in Owners, s \in Streams : StartInfer(th, o, s)
  BY <1>4, StartInferAlone
<1>5. CASE \E o \in Owners, s \in Streams, t \in SampleTimes : StartAttachNew(th, o, s, t)
  BY <1>5, StartAttachNewAlone
<1>6. CASE \E c \in ClusterIds, s \in Streams, t \in SampleTimes : StartAttach(th, c, s, t)
  BY <1>6, StartAttachAlone
<1>7. CASE \E c \in ClusterIds, n \in Names \cup {NoName} : RenameFace(th, c, n)
  BY <1>7, RenameFaceAlone
<1>8. CASE \E c \in ClusterIds, s \in Streams : DetachFace(th, c, s)
  BY <1>8, DetachFaceAlone
<1>9. CASE \E c \in ClusterIds : StartRecrop(th, c)
  BY <1>9, StartRecropAlone
<1>10. CASE \E s \in Streams : CascadeStream(th, s)
  BY <1>10, CascadeStreamAlone
<1>11. QED
  BY <1>1, <1>2, <1>3, <1>4, <1>5, <1>6, <1>7, <1>8, <1>9, <1>10 DEF Request

\* So does every call of a request that is being served.
LEMMA WorkAlone ==
  ASSUME NEW th, Before(th), Work(th)
  PROVE  KeptAlone(th)
BY PurgeCropAlone, DeleteNextAlone, ReadMemberAlone, MergeFacesAlone, GroupDuplicatesAlone,
   MergeGroupAlone, PurgeFramesAlone, FaceKnownAlone, FaceUnknownAlone, NextFrameAlone,
   Answer499Alone, AppendRunAlone, UpdateDriftAlone, PutCropAlone, SetCropPointerAlone,
   RereadAlone DEF Work

\* What a step of the service starts from and leaves
LEMMA StepBefore ==
  ASSUME NEW th, Threads = {th}, AloneInv(th), [Next]_vars
  PROVE  Before(th)
<1>1. Kept /\ ServiceInv'
  BY StepKeeps, ServiceInvStep DEF AloneInv
<1>2. [LibraryNext]_libvars
  BY <1>1 DEF Kept
<1>3. LibraryInv'
  BY <1>2, LibraryInvStep DEF AloneInv
<1>4. QED
  BY <1>1, <1>2, <1>3 DEF AloneInv, Before

\* And so does every step of the service.
LEMMA StepAlone ==
  ASSUME NEW th, Threads = {th}, AloneInv(th), [Next]_vars
  PROVE  AloneInv(th)'
<1>1. Before(th)
  BY StepBefore
<1>2. CASE Next
  <2>1. Request(th) \/ Work(th) \/ PurgeFails(th) \/ AbortInfer(th) \/ Abandon(th)
    BY <1>2 DEF Next
  <2>2. KeptAlone(th)
    BY <1>1, <2>1, RequestAlone, WorkAlone, PurgeFailsAlone, AbortInferAlone, AbandonAlone
  <2>3. QED
    BY <1>1, <2>2 DEF KeptAlone, AloneInv, Before
<1>3. CASE UNCHANGED vars
  <2>1. task' = task /\ rows' = rows /\ occ' = occ /\ crops' = crops /\ frames' = frames
    BY <1>3 DEF vars
  <2>2. NamesInv(th)'
    BY <2>1 DEF AloneInv, NamesInv, Minds, Resting, InOwnLoop, KnowsNames, Selected,
                Grouped, Cascading, IsNamed, Live
  <2>3. CropsInv(th) => CropsInv(th)'
    BY <2>1 DEF CropsInv, Cares, Accounted, Pointed, KnowsCrops, Working, Setting, InRun,
                Owned, Live
  <2>4. PeopleInv(th) => PeopleInv(th)'
    BY <2>1 DEF PeopleInv, Peopled, Collects, InRun, Owned, Live
  <2>5. QED
    BY <1>1, <2>2, <2>3, <2>4 DEF AloneInv, Before
<1>4. QED
  BY <1>2, <1>3

\* It holds of the empty service.
LEMMA AloneInit ==
  ASSUME NEW th \in Threads, Init
  PROVE  AloneInv(th)
<1>1. ServiceInv /\ LibraryInv
  BY ServiceInvInit, LibraryInvInit DEF Init
<1>2. task[th] = Idle /\ Live = {} /\ occ = {} /\ DOMAIN crops = {}
  BY DEF Init, LibraryInit, Live, Nothing
<1>3. NamesInv(th)
  BY <1>2 DEF NamesInv, Minds, Resting, InOwnLoop, KnowsNames, Selected, Grouped, Cascading,
              Idle, Nothing, Removals
<1>4. CropsInv(th)
  BY <1>2 DEF CropsInv, Cares, Accounted, Pointed, KnowsCrops, Working, InRun, Idle, Nothing
<1>5. PeopleInv(th)
  BY <1>2 DEF PeopleInv, Peopled, Collects, InRun, Idle
<1>6. QED
  BY <1>1, <1>3, <1>4, <1>5 DEF AloneInv

\* It holds throughout.
LEMMA AloneInvariant ==
  ASSUME NEW h, Threads = {h}
  PROVE  Spec => []AloneInv(h)
<1>1. Init => AloneInv(h)
  BY AloneInit
<1>2. AloneInv(h) /\ [Next]_vars => AloneInv(h)'
  BY StepAlone
<1>3. QED
  BY <1>1, <1>2, PTL DEF Spec

(***************************************************************************)
(* What the routes promise.                                                *)
(***************************************************************************)

\* Whatever fails, a cascade that is answered 200 leaves its stream with no
\* sample and no frame: the answer comes after the transaction and the frames,
\* and nothing that the one handler does in between adds a sample.
THEOREM CascadesComplete ==
  ASSUME NEW h, Threads = {h}
  PROVE  Spec => CascadeComplete
<1>1. ASSUME AloneInv(h), AnswersCascade(h)
      PROVE  OccIn(occ', task[h].stream) = {} /\ task[h].stream \notin frames'
  <2> DEFINE me == task[h]
  <2>1. InOwnLoop(me) /\ Cascading(me) /\ me.op = "cascade"
    BY <1>1 DEF AloneInv, NamesInv, Minds, AnswersCascade
  <2>2. CASE PurgeFrames(h)
    BY <2>1, <2>2 DEF PurgeFrames, At, Cascading, libvars
  <2>3. CASE PurgeCrop(h)
    BY <2>1, <2>3 DEF PurgeCrop, At, Cascading, libvars
  <2>4. QED
    BY <1>1, <2>2, <2>3 DEF AnswersCascade
<1>2. AloneInv(h) /\ [Next]_vars =>
        [\A th \in Threads : AnswersCascade(th) =>
           OccIn(occ', task[th].stream) = {} /\ task[th].stream \notin frames']_vars
  BY <1>1
<1>3. QED
  BY <1>2, AloneInvariant, PTL DEF Spec, CascadeComplete

\* Unless a call raises, no crop is left without its person.
THEOREM NoCropOrphaned ==
  ASSUME NEW h, Threads = {h}, "raise" \notin Faults
  PROVE  Spec => []NoOrphanCrop
<1>1. AloneInv(h) => NoOrphanCrop
  BY DEF AloneInv, NoOrphanCrop, Quiet, At, CropsInv, Cares, Accounted
<1>2. QED
  BY <1>1, AloneInvariant, PTL

\* If no call raises and no caller hangs up, nobody is left without a sample.
THEOREM NobodyEmpty ==
  ASSUME NEW h, Threads = {h}, Faults = {}
  PROVE  Spec => []NoEmptyPeople
<1>1. AloneInv(h) => NoEmptyPeople
  <2> SUFFICES ASSUME AloneInv(h), Quiet, NEW c \in Live
               PROVE  rows[c].samples > 0
    BY DEF NoEmptyPeople
  <2>1. task[h].pc = "idle" /\ PeopleInv(h)
    BY DEF Quiet, At, AloneInv
  <2>2. task[h].items = {}
    BY <2>1 DEF PeopleInv, Peopled, Collects, InRun
  <2>3. QED
    BY <2>1, <2>2 DEF PeopleInv, Peopled
<1>2. QED
  BY <1>1, AloneInvariant, PTL

\* Only these two store or delete a crop.
LEMMA CropStep ==
  ASSUME NEW th, Threads = {th}, [Next]_vars
  PROVE  crops' = crops \/ PutCrop(th) \/ PurgeCrop(th)
<1>1. CASE UNCHANGED vars
  BY <1>1 DEF vars
<1>2. CASE Request(th)
  BY <1>2 DEF Request, StartSweep, StartDuplicates, StartDelete, StartInfer, StartAttachNew,
              StartAttach, RenameFace, DetachFace, StartMerge, StartRecrop, CascadeStream
<1>3. CASE Work(th)
  BY <1>3 DEF Work, DeleteNext, ReadMember, MergeFaces, GroupDuplicates, MergeGroup,
              PurgeFrames, FaceKnown, FaceUnknown, NextFrame, Answer499, AppendRun,
              UpdateDrift, SetCropPointer, Reread
<1>4. CASE PurgeFails(th) \/ AbortInfer(th) \/ Abandon(th)
  BY <1>4 DEF PurgeFails, AbortInfer, Abandon
<1>5. QED
  BY <1>1, <1>2, <1>3, <1>4 DEF Next

\* Unless a call raises, a picture the user chose stays until the user chooses
\* another or the person is deleted: infer and attach store a crop only where
\* there is none.
THEOREM UserCropsKept ==
  ASSUME NEW h, Threads = {h}, "raise" \notin Faults
  PROVE  Spec => UserCropKept
<1>1. AloneInv(h) /\ [Next]_vars =>
        [\A c \in DOMAIN crops \cap DOMAIN crops' :
           crops[c] = "user" /\ c \in Live => crops'[c] = "user"]_vars
  <2> SUFFICES ASSUME AloneInv(h), [Next]_vars,
                      NEW c \in DOMAIN crops \cap DOMAIN crops', crops[c] = "user"
               PROVE  crops'[c] = "user"
    OBVIOUS
  <2>1. CASE crops' = crops
    BY <2>1
  <2>2. CASE PutCrop(h)
    <3>1. /\ crops' = Add(crops, task[h].cluster,
                          IF task[h].op = "recrop" THEN "user" ELSE "auto")
          /\ task[h].pc = "put"
      BY <2>2 DEF PutCrop, At
    <3>2. task[h].op # "recrop" => c # task[h].cluster
      BY <3>1 DEF AloneInv, CropsInv, Cares, Working
    <3>3. QED
      BY <3>1, <3>2 DEF Add
  <2>3. CASE PurgeCrop(h)
    <3>1. PICK k : crops' = Minus(crops, k)
      BY <2>3 DEF PurgeCrop
    <3>2. QED
      BY <3>1 DEF Minus
  <2>4. QED
    BY <2>1, <2>2, <2>3, CropStep
<1>2. QED
  BY <1>1, AloneInvariant, PTL DEF Spec, UserCropKept

\* Of a request that merges, only these two transactions delete anybody.
LEMMA DeletingStep ==
  ASSUME NEW th, Threads = {th}, [Next]_vars, Live' # Live,
         task[th].pc \in {"merge", "duplicates"}
  PROVE  \/ task[th].pc = "merge" /\ MergeFaces(th)
         \/ task[th].pc = "duplicates" /\ MergeGroup(th)
<1>1. ~UNCHANGED vars /\ ~UNCHANGED libvars
  BY DEF vars, libvars, Live
<1>2. ~Request(th)
  BY DEF Request, Starts, StartSweep, StartDuplicates, StartDelete, StartInfer,
         StartAttachNew, StartAttach, RenameFace, DetachFace, StartMerge, StartRecrop,
         CascadeStream
<1>3. Work(th) => MergeFaces(th) \/ MergeGroup(th)
  BY DEF Work, At, PurgeCrop, DeleteNext, ReadMember, GroupDuplicates, PurgeFrames, Detects,
         FaceKnown, FaceUnknown, NextFrame, Answer499, AppendRun, UpdateDrift, PutCrop,
         SetCropPointer, Reread
<1>4. ~PurgeFails(th) /\ ~AbortInfer(th) /\ ~Abandon(th)
  BY <1>1 DEF PurgeFails, AbortInfer, Abandon
<1>5. MergeFaces(th) \/ MergeGroup(th)
  BY <1>1, <1>2, <1>3, <1>4 DEF Next
<1>6. QED
  BY <1>5 DEF MergeFaces, MergeGroup, At

\* Whatever fails, merging duplicates deletes no named person: a group has one
\* name at most, and who bears it is the one the others are merged into.
THEOREM DuplicatesSpareNames ==
  ASSUME NEW h, Threads = {h}
  PROVE  Spec => DuplicatesKeepNames
<1>1. ASSUME AloneInv(h), [Next]_vars, At(h, "duplicates"), NEW c \in Live \ Live'
      PROVE  ~IsNamed(c)
  <2> DEFINE me == task[h]
  <2>1. Before(h) /\ MergeGroup(h) /\ me.pc = "duplicates"
    BY <1>1, StepBefore, DeletingStep DEF At
  <2>2. PICK g \in me.todo : \E target \in GroupTargets(me.known, g) :
          Merge(me.owner, target, g \ {target})
    BY <1>1, <2>1 DEF MergeGroup, libvars, Live
  <2>3. PICK target \in GroupTargets(me.known, g) : Merge(me.owner, target, g \ {target})
    BY <2>2
  <2>4. Live' = Live \ (g \ {target})
    BY <2>1, <2>3, MergeSpares DEF Before, ServiceInv
  <2>5. OneName(me.known, g) /\ KnowsNames(me)
    BY <2>1 DEF Before, NamesInv, Minds, InOwnLoop, Grouped, Removals
  <2>6. c \in g /\ c # target /\ c \in DOMAIN me.known
    BY <1>1, <2>4, <2>5 DEF OneName
  <2>7. ~me.known[c].named
    BY <2>3, <2>5, <2>6 DEF GroupTargets, OneName
  <2>8. QED
    BY <1>1, <2>5, <2>6, <2>7 DEF KnowsNames
<1>2. AloneInv(h) /\ [Next]_vars =>
        [\A th \in Threads : At(th, "duplicates") => \A c \in Live \ Live' : ~IsNamed(c)]_vars
  BY <1>1
<1>3. QED
  BY <1>2, AloneInvariant, PTL DEF Spec, DuplicatesKeepNames

\* The person a selection is merged into is the first one that was read with a
\* name, and the first one of all if none was.
LEMMA TargetNamed ==
  ASSUME NEW ids, 1 \in DOMAIN ids, DOMAIN ids \subseteq Nat \ {0}, NEW known
  PROVE  \E k \in DOMAIN ids :
           /\ MergeTarget(ids, known) = ids[k]
           /\ \A i \in DOMAIN ids : known[ids[i]].named => known[ids[k]].named /\ k <= i
           /\ known[ids[k]].named \/ k = 1
<1> DEFINE named == {k \in DOMAIN ids : known[ids[k]].named}
           first == CHOOSE k \in named : \A j \in named : k <= j
<1>1. CASE named = {}
  BY <1>1 DEF MergeTarget
<1>2. CASE named # {}
  <2>1. named \in SUBSET Nat
    OBVIOUS
  <2>2. \E k \in named : \A j \in named : k <= j
    <3> HIDE DEF named
    <3>1. QED
      BY <1>2, <2>1, LeastNatural
  <2>3. first \in named /\ \A j \in named : first <= j
    <3> HIDE DEF named
    <3>1. QED
      BY <2>2
  <2>4. MergeTarget(ids, known) = ids[first]
    BY <1>2 DEF MergeTarget
  <2>5. QED
    BY <2>3, <2>4
<1>3. QED
  BY <1>1, <1>2

\* Whatever fails, a merge of selected people, however many, leaves the first one
\* with a name, under that name, or the first one if nobody has a name: what was
\* read of them is still true when they are merged.
THEOREM MergesKeepAName ==
  ASSUME NEW h, Threads = {h}
  PROVE  Spec => MergeKeepsAName
<1>1. ASSUME AloneInv(h), [Next]_vars, At(h, "merge"), Live' # Live
      PROVE  LET ids == task[h].ids IN
             \E k \in DOMAIN ids :
               /\ {ids[i] : i \in DOMAIN ids} \cap Live' = {ids[k]}
               /\ rows'[ids[k]].name = rows[ids[k]].name
               /\ \A i \in DOMAIN ids : IsNamed(ids[i]) => IsNamed(ids[k]) /\ k <= i
               /\ IsNamed(ids[k]) \/ k = 1
  <2> DEFINE me == task[h]
             target == MergeTarget(me.ids, me.known)
             sources == DOMAIN me.known \ {target}
  <2>1. Before(h) /\ MergeFaces(h) /\ me.pc = "merge"
    BY <1>1, StepBefore, DeletingStep DEF At
  <2>2. PICK o \in Owners : Merge(o, target, sources)
    BY <1>1, <2>1 DEF MergeFaces, libvars, Live
  <2>3. /\ Spares /\ Live' = Live \ sources /\ target \in Live' /\ target \in Live
    BY <2>1, <2>2, MergeSpares DEF Before, ServiceInv, Spares
  <2>4. KnowsNames(me) /\ Selected(me)
    BY <2>1 DEF Before, NamesInv, Minds
  <2>5. /\ 1 \in DOMAIN me.ids /\ DOMAIN me.ids \subseteq Nat \ {0}
        /\ \A i \in DOMAIN me.ids : me.ids[i] \in DOMAIN me.known
    BY <2>1, <2>4 DEF Selected
  <2>6. \A c \in DOMAIN me.known : c \in Live
    BY <2>2, <2>3 DEF Merge, Owned
  <2>7. \A i \in DOMAIN me.ids : me.known[me.ids[i]].named <=> IsNamed(me.ids[i])
    BY <2>4, <2>5, <2>6 DEF KnowsNames
  <2>8. PICK k \in DOMAIN me.ids :
          /\ target = me.ids[k]
          /\ \A i \in DOMAIN me.ids :
               me.known[me.ids[i]].named => me.known[me.ids[k]].named /\ k <= i
          /\ me.known[me.ids[k]].named \/ k = 1
    BY <2>5, TargetNamed
  <2> HIDE DEF target
  <2>9. {me.ids[i] : i \in DOMAIN me.ids} \cap Live' = {me.ids[k]}
    BY <2>3, <2>5, <2>8
  <2>10. rows'[me.ids[k]].name = rows[me.ids[k]].name
    BY <2>3, <2>8 DEF Spares, SameIdentity
  <2>11. QED
    BY <2>7, <2>8, <2>9, <2>10
<1>2. AloneInv(h) /\ [Next]_vars =>
        [\A th \in Threads : LET ids == task[th].ids IN
           At(th, "merge") /\ Live' # Live =>
             \E k \in DOMAIN ids :
               /\ {ids[i] : i \in DOMAIN ids} \cap Live' = {ids[k]}
               /\ rows'[ids[k]].name = rows[ids[k]].name
               /\ \A i \in DOMAIN ids : IsNamed(ids[i]) => IsNamed(ids[k]) /\ k <= i
               /\ IsNamed(ids[k]) \/ k = 1]_vars
  BY <1>1
<1>3. QED
  BY <1>2, AloneInvariant, PTL DEF Spec, MergeKeepsAName

=============================================================================
