--------------------------- MODULE SuggestionIndex ---------------------------
(***************************************************************************)
(* SuggestionIndexCache of app/clustering.py, as one owner sees it: every  *)
(* uvicorn process keeps its own cache of the centroid index, db.py bumps  *)
(* the cache of its process after a commit, with one exception, and        *)
(* detect_faces reads it.  Nothing locks the cache, so its three           *)
(* dictionary accesses per call are steps of their own.                    *)
(*                                                                         *)
(* The library is the number of writes committed to it; an index is the    *)
(* number of writes its builder saw.  The clock counts ticks.              *)
(***************************************************************************)
EXTENDS Naturals

CONSTANTS Writers,    \* threads whose requests end in a db.py write
          Readers,    \* event loops that serve detect_faces, one per process
          Processes,
          Home,       \* thread |-> its process
          TTL,        \* ticks an entry is good for
          BuildTicks, \* bound: ticks between reading the epoch and storing
          MaxWrites,  \* bound on the writes committed
          MaxTime     \* bound on the clock

Threads == Writers \cup Readers

ASSUME HomeAssumption == Home \in [Threads -> Processes]
ASSUME RolesAssumption == Writers \cap Readers = {}
ASSUME TicksAssumption ==
  TTL \in Nat /\ BuildTicks \in Nat /\ MaxWrites \in Nat /\ MaxTime \in Nat

VARIABLES now,
          library,    \* writes committed so far
          asOf,       \* tick |-> writes committed by the end of that tick
          announced,  \* newest write whose bump is complete in a process
          finished,   \* newest write whose db.py call is over in a process
          epoch,      \* _epoch of every process
          entry,      \* _entries of every process
          task        \* local state of every thread

vars == <<now, library, asOf, announced, finished, epoch, entry, task>>

NoEntry == [stored |-> FALSE, epoch |-> 0, at |-> 0, index |-> 0]

Idle == [pc |-> "idle", epoch |-> 0, index |-> 0, floor |-> 0, due |-> 0, since |-> 0]

At(th, pc) == task[th].pc = pc

Become(th, tk) == task' = [task EXCEPT ![th] = tk]

Init == /\ now = 0 /\ library = 0
        /\ announced = [p \in Processes |-> 0]
        /\ finished = [p \in Processes |-> 0]
        /\ asOf = [k \in 0 .. MaxTime |-> 0]
        /\ epoch = [p \in Processes |-> 0]
        /\ entry = [p \in Processes |-> NoEntry]
        /\ task = [th \in Threads |-> Idle]

(***************************************************************************)
(* A write of db.py: commit, then bump.  Only set_cluster_crop does not    *)
(* bump, though the index carries crop_object.                             *)
(***************************************************************************)

\* Mutant: the bump follows a transaction that was rolled back
CommitRolledBack(th) ==
  /\ th \in Writers /\ At(th, "idle")
  /\ library < MaxWrites
  /\ Become(th, [Idle EXCEPT !.pc = "bump", !.index = library + 1])
  /\ UNCHANGED <<now, library, asOf, announced, finished, epoch, entry>>

Commit(th) ==
  /\ th \in Writers /\ At(th, "idle")
  /\ library < MaxWrites
  /\ library' = library + 1
  /\ asOf' = [asOf EXCEPT ![now] = library + 1]
  /\ Become(th, [Idle EXCEPT !.pc = "bump", !.index = library + 1])
  /\ UNCHANGED <<now, announced, finished, epoch, entry>>

Later(n, m) == IF n < m THEN m ELSE n

\* set_cluster_crop: the write is done, and nothing is dropped
SetClusterCrop(th) ==
  /\ th \in Writers /\ At(th, "idle")
  /\ library < MaxWrites
  /\ library' = library + 1
  /\ asOf' = [asOf EXCEPT ![now] = library + 1]
  /\ finished' = [finished EXCEPT ![Home[th]] = library + 1]
  /\ UNCHANGED <<now, announced, epoch, entry, task>>

\* self.epoch(owner_id)
ReadEpoch(th) ==
  /\ At(th, "bump")
  /\ Become(th, [task[th] EXCEPT !.pc = "raise", !.epoch = epoch[Home[th]]])
  /\ UNCHANGED <<now, library, asOf, announced, finished, epoch, entry>>

\* Mutant: the epoch is left as it was
RaiseEpochForgotten(th) ==
  /\ At(th, "raise")
  /\ Become(th, [task[th] EXCEPT !.pc = "pop"])
  /\ UNCHANGED <<now, library, asOf, announced, finished, epoch, entry>>

\* self._epoch[owner_id] = ... + 1
RaiseEpoch(th) ==
  /\ At(th, "raise")
  /\ epoch' = [epoch EXCEPT ![Home[th]] = task[th].epoch + 1]
  /\ Become(th, [task[th] EXCEPT !.pc = "pop"])
  /\ UNCHANGED <<now, library, asOf, announced, finished, entry>>

\* self._entries.pop(owner_id, None); the write is done
Pop(th) ==
  /\ At(th, "pop")
  /\ entry' = [entry EXCEPT ![Home[th]] = NoEntry]
  /\ announced' = [announced EXCEPT ![Home[th]] = Later(@, task[th].index)]
  /\ finished' = [finished EXCEPT ![Home[th]] = Later(@, task[th].index)]
  /\ Become(th, Idle)
  /\ UNCHANGED <<now, library, asOf, epoch>>

(***************************************************************************)
(* SuggestionIndexCache.get                                                *)
(***************************************************************************)

GetEpoch(th) ==
  /\ th \in Readers /\ At(th, "idle")
  /\ Become(th, [Idle EXCEPT !.pc = "lookup", !.epoch = epoch[Home[th]],
                             !.floor = announced[Home[th]], !.due = finished[Home[th]],
                             !.since = now])
  /\ UNCHANGED <<now, library, asOf, announced, finished, epoch, entry>>

\* Mutant: an entry never gets too old
GoodIgnoringAge(e, ep) == e.stored /\ e.epoch = ep

Good(e, ep) == e.stored /\ e.epoch = ep /\ now < e.at + TTL

Lookup(th) ==
  LET e == entry[Home[th]] IN
  /\ At(th, "lookup")
  /\ Become(th, IF Good(e, task[th].epoch)
                THEN [task[th] EXCEPT !.pc = "answered", !.index = e.index]
                ELSE [task[th] EXCEPT !.pc = "build"])
  /\ UNCHANGED <<now, library, asOf, announced, finished, epoch, entry>>

\* builder(): get_clusters_for_owner sees every commit
Build(th) ==
  /\ At(th, "build")
  /\ Become(th, [task[th] EXCEPT !.pc = "store", !.index = library])
  /\ UNCHANGED <<now, library, asOf, announced, finished, epoch, entry>>

\* Stored under the epoch read at the start of get
Store(th) ==
  /\ At(th, "store")
  /\ entry' = [entry EXCEPT ![Home[th]] = [stored |-> TRUE, epoch |-> task[th].epoch,
                                           at |-> now, index |-> task[th].index]]
  /\ Become(th, [task[th] EXCEPT !.pc = "answered"])
  /\ UNCHANGED <<now, library, asOf, announced, finished, epoch>>

Return(th) ==
  /\ At(th, "answered")
  /\ Become(th, Idle)
  /\ UNCHANGED <<now, library, asOf, announced, finished, epoch, entry>>

\* No get takes longer than BuildTicks
Tick ==
  /\ now < MaxTime
  /\ \A th \in Readers : At(th, "idle") \/ now < task[th].since + BuildTicks
  /\ now' = now + 1
  /\ asOf' = [asOf EXCEPT ![now + 1] = library]
  /\ UNCHANGED <<library, announced, finished, epoch, entry, task>>

Next == \/ Tick
        \/ \E th \in Threads :
             \/ Commit(th) \/ SetClusterCrop(th)
             \/ ReadEpoch(th) \/ RaiseEpoch(th) \/ Pop(th)
             \/ GetEpoch(th) \/ Lookup(th) \/ Build(th) \/ Store(th) \/ Return(th)

Spec == Init /\ [][Next]_vars

(***************************************************************************)
(* Properties                                                              *)
(***************************************************************************)

Entry == [stored : BOOLEAN, epoch : Nat, at : Nat, index : Nat]

Task == [pc : {"idle", "bump", "raise", "pop", "lookup", "build", "store", "answered"},
         epoch : Nat, index : Nat, floor : Nat, due : Nat, since : Nat]

\* Every variable stays in its domain, and a bump that is complete was
\* preceded by its commit.
TypeOK == /\ now \in 0 .. MaxTime
          /\ library \in 0 .. MaxWrites
          /\ asOf \in [0 .. MaxTime -> Nat]
          /\ announced \in [Processes -> 0 .. library]
          /\ finished \in [Processes -> 0 .. library]
          /\ epoch \in [Processes -> Nat]
          /\ entry \in [Processes -> Entry]
          /\ task \in [Threads -> Task]

\* What a bump is for: a get that starts after its process answered a write
\* that bumps sees that write, and all that were committed before it.
FreshAfterBump == \A th \in Readers : At(th, "answered") => task[th].index >= task[th].floor

\* "Entries are dropped by bump(owner_id) from every write path, so a fresh read
\* is the normal case": a get that starts after its process answered a write,
\* whichever it was, sees that write.
FreshRead == \A th \in Readers : At(th, "answered") => task[th].index >= task[th].due

\* "the TTL is only a backstop": whatever epochs are lost, whichever process
\* wrote and whether it bumped, an answer has every write that is older than
\* the lifetime of an entry and the two gets, that of its builder and that of
\* its reader.
BoundedStaleness ==
  \A th \in Readers :
    At(th, "answered") /\ now >= TTL + 2 * BuildTicks
      => task[th].index >= asOf[now - TTL - 2 * BuildTicks]

=============================================================================
