------------------------ MODULE SuggestionIndexProofs ------------------------
(***************************************************************************)
(* Proofs about SuggestionIndex, for any number of threads, processes,     *)
(* writes and ticks.                                                       *)
(***************************************************************************)
EXTENDS SuggestionIndex, TLAPS

\* Nobody has seen more writes than were committed
Bounded == /\ \A th \in Threads : task[th].index <= library
           /\ \A p \in Processes : entry[p].index <= library

TypeInv == TypeOK /\ Bounded

\* The initial state is well typed.
LEMMA TypeInit == Init => TypeInv
  BY HomeAssumption, TicksAssumption
     DEF Init, TypeInv, TypeOK, Bounded, NoEntry, Idle, Entry, Task

\* A local state made of typed parts is typed, and keeps within what the
\* library has if it did before.
LEMMA Becoming ==
  ASSUME TypeInv, NEW th \in Threads, NEW tk \in Task, Become(th, tk)
  PROVE  /\ task' \in [Threads -> Task]
         /\ \A n \in Nat : tk.index <= n /\ library <= n => \A u \in Threads : task'[u].index <= n
<1>1. task' \in [Threads -> Task] /\ \A u \in Threads : task'[u] = IF u = th THEN tk ELSE task[u]
  BY DEF TypeInv, TypeOK, Become
<1>2. ASSUME NEW n \in Nat, tk.index <= n, library <= n, NEW u \in Threads
      PROVE  task'[u].index <= n
  <2>1. task[u].index <= library /\ task[u].index \in Nat /\ library \in Nat
    BY DEF TypeInv, TypeOK, Bounded, Task
  <2>2. task[u].index <= n
    BY <1>2, <2>1
  <2> QED
    BY <1>1, <1>2, <2>2
<1> QED
  BY <1>1, <1>2

\* Every step keeps the types: a bump can only announce what was committed.
LEMMA TypeStep == TypeInv /\ [Next]_vars => TypeInv'
<1> SUFFICES ASSUME TypeInv, [Next]_vars PROVE TypeInv'
  OBVIOUS
<1> USE HomeAssumption, TicksAssumption
<1>1. CASE UNCHANGED vars
  BY <1>1 DEF vars, TypeInv, TypeOK, Bounded
<1>2. CASE Tick
  <2>1. /\ now' \in 0 .. MaxTime
        /\ asOf' \in [0 .. MaxTime -> Nat]
    BY <1>2 DEF Tick, TypeInv, TypeOK
  <2> QED
    BY <1>2, <2>1 DEF Tick, TypeInv, TypeOK, Bounded
<1>3. ASSUME NEW th \in Threads, SetClusterCrop(th) PROVE TypeInv'
  <2> DEFINE n == library + 1
  <2>1. /\ library \in Nat /\ n \in Nat /\ library <= n /\ n \in 0 .. MaxWrites
        /\ 0 .. library \subseteq 0 .. n
    BY <1>3 DEF SetClusterCrop, TypeInv, TypeOK
  <2>2. /\ library' = n /\ asOf' = [asOf EXCEPT ![now] = n]
        /\ finished' = [finished EXCEPT ![Home[th]] = n]
        /\ UNCHANGED <<now, announced, epoch, entry, task>>
    BY <1>3 DEF SetClusterCrop
  <2> HIDE DEF n
  <2>3. /\ announced' \in [Processes -> 0 .. n] /\ finished' \in [Processes -> 0 .. n]
        /\ asOf' \in [0 .. MaxTime -> Nat]
    BY <2>1, <2>2 DEF TypeInv, TypeOK
  <2>4. /\ \A u \in Threads : task[u].index <= n
        /\ \A p \in Processes : entry[p].index <= n
    <3>1. /\ \A u \in Threads : task[u].index \in Nat /\ task[u].index <= library
          /\ \A p \in Processes : entry[p].index \in Nat /\ entry[p].index <= library
      BY DEF TypeInv, TypeOK, Bounded, Task, Entry
    <3>2. QED
      BY <2>1, <3>1
  <2>5. QED
    BY <2>1, <2>2, <2>3, <2>4 DEF TypeInv, TypeOK, Bounded
<1>4. ASSUME NEW th \in Threads,
             \/ Commit(th) \/ ReadEpoch(th) \/ RaiseEpoch(th) \/ Pop(th)
             \/ GetEpoch(th) \/ Lookup(th) \/ Build(th) \/ Store(th) \/ Return(th)
      PROVE  TypeInv'
  <2>10. /\ task[th] \in Task /\ task[th].index \in Nat /\ task[th].epoch \in Nat
        /\ Home[th] \in Processes /\ epoch[Home[th]] \in Nat
        /\ entry[Home[th]] \in Entry /\ entry[Home[th]].index \in Nat
        /\ library \in Nat /\ now \in Nat
    BY DEF TypeInv, TypeOK, Task, Entry
  <2>11. task[th].index <= library /\ entry[Home[th]].index <= library
    BY <2>10 DEF TypeInv, Bounded
  <2>12. ASSUME NEW tk \in Task, tk.index <= library, Become(th, tk)
        PROVE  task' \in [Threads -> Task] /\ \A u \in Threads : task'[u].index <= library
    BY <2>10, <2>12, Becoming
  <2>1. CASE Commit(th)
    <3> DEFINE n  == library + 1
               tk == [Idle EXCEPT !.pc = "bump", !.index = n]
    <3>1. n \in Nat /\ library <= n /\ n <= n
      BY <2>10
    <3>2. n \in 0 .. MaxWrites /\ announced \in [Processes -> 0 .. n]
          /\ finished \in [Processes -> 0 .. n]
      <4>1. 0 .. library \subseteq 0 .. n
        BY <2>10
      <4> QED
        BY <2>1, <2>10, <4>1 DEF Commit, TypeInv, TypeOK
    <3>3. /\ asOf' = [asOf EXCEPT ![now] = n] /\ library' = n /\ Become(th, tk)
          /\ UNCHANGED <<now, announced, finished, epoch, entry>>
      BY <2>1 DEF Commit
    <3> HIDE DEF n
    <3>4. tk \in Task /\ tk.index = n
      BY <3>1 DEF Idle, Task
    <3> HIDE DEF tk
    <3>5. task' \in [Threads -> Task] /\ \A u \in Threads : task'[u].index <= n
      BY <3>1, <3>3, <3>4, Becoming
    <3>6. \A p \in Processes : entry[p].index <= n
      <4> TAKE p \in Processes
      <4>1. entry[p].index \in Nat /\ entry[p].index <= library
        BY DEF TypeInv, TypeOK, Bounded, Entry
      <4> QED
        BY <3>1, <4>1, <2>10
    <3>7. asOf' \in [0 .. MaxTime -> Nat]
      BY <3>1, <3>3 DEF TypeInv, TypeOK
    <3> QED
      BY <3>2, <3>3, <3>5, <3>6, <3>7 DEF TypeInv, TypeOK, Bounded
  <2>2. CASE ReadEpoch(th)
    <3> DEFINE tk == [task[th] EXCEPT !.pc = "raise", !.epoch = epoch[Home[th]]]
    <3>1. tk \in Task /\ tk.index = task[th].index
      BY <2>10 DEF Task
    <3>2. Become(th, tk)
      BY <2>2 DEF ReadEpoch
    <3> HIDE DEF tk
    <3>3. task' \in [Threads -> Task] /\ \A u \in Threads : task'[u].index <= library
      BY <2>10, <2>11, <2>12, <3>1, <3>2
    <3> QED
      BY <2>2, <3>3 DEF ReadEpoch, TypeInv, TypeOK, Bounded
  <2>3. CASE RaiseEpoch(th)
    <3> DEFINE tk == [task[th] EXCEPT !.pc = "pop"]
    <3>1. tk \in Task /\ tk.index = task[th].index
      BY <2>10 DEF Task
    <3>2. Become(th, tk)
      BY <2>3 DEF RaiseEpoch
    <3> HIDE DEF tk
    <3>3. task' \in [Threads -> Task] /\ \A u \in Threads : task'[u].index <= library
      BY <2>10, <2>11, <2>12, <3>1, <3>2
    <3>4. epoch' \in [Processes -> Nat]
      BY <2>3, <2>10 DEF RaiseEpoch, TypeInv, TypeOK
    <3> QED
      BY <2>3, <3>3, <3>4 DEF RaiseEpoch, TypeInv, TypeOK, Bounded
  <2>4. CASE Pop(th)
    <3>1. Idle \in Task /\ Idle.index = 0
      BY <2>10 DEF Task, Idle
    <3>2. Become(th, Idle)
      BY <2>4 DEF Pop
    <3>3. task' \in [Threads -> Task] /\ \A u \in Threads : task'[u].index <= library
      BY <2>10, <2>11, <2>12, <3>1, <3>2
    <3>4. /\ entry' \in [Processes -> Entry]
          /\ \A p \in Processes : entry'[p].index <= library
      <4>1. NoEntry \in Entry /\ NoEntry.index = 0
        BY DEF NoEntry, Entry
      <4> QED
        BY <2>4, <2>10, <4>1 DEF Pop, TypeInv, TypeOK, Bounded
    <3>5. /\ announced' \in [Processes -> 0 .. library]
          /\ finished' \in [Processes -> 0 .. library]
      BY <2>4, <2>10, <2>11 DEF Pop, Later, TypeInv, TypeOK
    <3> QED
      BY <2>4, <3>3, <3>4, <3>5 DEF Pop, TypeInv, TypeOK, Bounded
  <2>5. CASE GetEpoch(th)
    <3> DEFINE tk == [Idle EXCEPT !.pc = "lookup", !.epoch = epoch[Home[th]],
                                  !.floor = announced[Home[th]],
                                  !.due = finished[Home[th]],
                                  !.since = now]
    <3>0. announced[Home[th]] \in Nat /\ finished[Home[th]] \in Nat
      BY <2>10 DEF TypeInv, TypeOK
    <3>1. tk \in Task /\ tk.index = 0
      BY <2>10, <3>0 DEF Task, Idle
    <3>2. Become(th, tk)
      BY <2>5 DEF GetEpoch
    <3> HIDE DEF tk
    <3>3. task' \in [Threads -> Task] /\ \A u \in Threads : task'[u].index <= library
      BY <2>10, <2>11, <2>12, <3>1, <3>2
    <3> QED
      BY <2>5, <3>3 DEF GetEpoch, TypeInv, TypeOK, Bounded
  <2>6. CASE Lookup(th)
    <3>1. PICK tk \in Task : Become(th, tk) /\ tk.index <= library
      <4>1. /\ [task[th] EXCEPT !.pc = "build"] \in Task
            /\ [task[th] EXCEPT !.pc = "build"].index = task[th].index
        BY <2>10 DEF Task
      <4>2. /\ [task[th] EXCEPT !.pc = "answered", !.index = entry[Home[th]].index] \in Task
            /\ [task[th] EXCEPT !.pc = "answered", !.index = entry[Home[th]].index].index
                 = entry[Home[th]].index
        BY <2>10 DEF Task
      <4> QED
        BY <2>6, <2>11, <4>1, <4>2 DEF Lookup
    <3>2. task' \in [Threads -> Task] /\ \A u \in Threads : task'[u].index <= library
      BY <2>12, <3>1
    <3> QED
      BY <2>6, <3>2 DEF Lookup, TypeInv, TypeOK, Bounded
  <2>7. CASE Build(th)
    <3> DEFINE tk == [task[th] EXCEPT !.pc = "store", !.index = library]
    <3>1. tk \in Task /\ tk.index = library
      BY <2>10 DEF Task
    <3>2. Become(th, tk)
      BY <2>7 DEF Build
    <3> HIDE DEF tk
    <3>3. task' \in [Threads -> Task] /\ \A u \in Threads : task'[u].index <= library
      BY <2>10, <2>11, <2>12, <3>1, <3>2
    <3> QED
      BY <2>7, <3>3 DEF Build, TypeInv, TypeOK, Bounded
  <2>8. CASE Store(th)
    <3> DEFINE tk == [task[th] EXCEPT !.pc = "answered"]
    <3>1. tk \in Task /\ tk.index = task[th].index
      BY <2>10 DEF Task
    <3>2. Become(th, tk)
      BY <2>8 DEF Store
    <3> HIDE DEF tk
    <3>3. task' \in [Threads -> Task] /\ \A u \in Threads : task'[u].index <= library
      BY <2>10, <2>11, <2>12, <3>1, <3>2
    <3>4. /\ entry' \in [Processes -> Entry]
          /\ \A p \in Processes : entry'[p].index <= library
      <4> DEFINE e == [stored |-> TRUE, epoch |-> task[th].epoch, at |-> now,
                       index |-> task[th].index]
      <4>1. e \in Entry /\ e.index = task[th].index
        BY <2>10 DEF Entry
      <4>2. entry' = [entry EXCEPT ![Home[th]] = e]
        BY <2>8 DEF Store
      <4> HIDE DEF e
      <4> QED
        BY <2>10, <2>11, <4>1, <4>2 DEF TypeInv, TypeOK, Bounded
    <3> QED
      BY <2>8, <3>3, <3>4 DEF Store, TypeInv, TypeOK, Bounded
  <2>9. CASE Return(th)
    <3>1. Idle \in Task /\ Idle.index = 0
      BY <2>10 DEF Task, Idle
    <3>2. Become(th, Idle)
      BY <2>9 DEF Return
    <3>3. task' \in [Threads -> Task] /\ \A u \in Threads : task'[u].index <= library
      BY <2>10, <2>11, <2>12, <3>1, <3>2
    <3> QED
      BY <2>9, <3>3 DEF Return, TypeInv, TypeOK, Bounded
  <2> QED
    BY <1>4, <2>1, <2>2, <2>3, <2>4, <2>5, <2>6, <2>7, <2>8, <2>9
<1> QED
  BY <1>1, <1>2, <1>3, <1>4 DEF Next

\* TypeOK holds, however many writers and processes there are.
THEOREM IndexTyped == Spec => []TypeOK
<1>1. Spec => []TypeInv
  BY TypeInit, TypeStep, PTL DEF Spec
<1>2. TypeInv => TypeOK
  BY DEF TypeInv
<1> QED
  BY <1>1, <1>2, PTL

(***************************************************************************)
(* A process with one writer: no bump of the process overlaps another, so  *)
(* an epoch is never used twice and marks what an entry has seen.          *)
(***************************************************************************)

WritersOf(p) == {w \in Writers : Home[w] = p}

ReadersOf(p) == {r \in Readers : Home[r] = p}

OneWriter(p) == \A w, x \in WritersOf(p) : w = x

Ep(p) == epoch[p]
En(p) == entry[p]
Ann(p) == announced[p]

\* An index with i writes has every write the process announced or is about to
Covers(p, i) == /\ Ann(p) <= i
                /\ \A w \in WritersOf(p) : At(w, "pop") => task[w].index <= i

InGet(r) == task[r].pc \in {"lookup", "build", "store"}

Roles(p) ==
  /\ \A w \in WritersOf(p) : task[w].pc \in {"idle", "bump", "raise", "pop"}
  /\ \A r \in ReadersOf(p) : task[r].pc \in {"idle", "lookup", "build", "store", "answered"}

\* No epoch noted down is ahead of the process
EpochsPast(p) ==
  /\ En(p).stored => En(p).epoch <= Ep(p)
  /\ \A r \in ReadersOf(p) : InGet(r) => task[r].epoch <= Ep(p)
  /\ \A w \in WritersOf(p) : At(w, "raise") => task[w].epoch = Ep(p)

FloorsPast(p) == \A r \in ReadersOf(p) : InGet(r) => task[r].floor <= Ann(p)

\* What carries the current epoch covers all writes of the process
CurrentCovers(p) ==
  /\ En(p).stored /\ En(p).epoch = Ep(p) => Covers(p, En(p).index)
  /\ \A r \in ReadersOf(p) : At(r, "store") /\ task[r].epoch = Ep(p) => Covers(p, task[r].index)

\* What carries the epoch a reader looks up covers that reader's floor
LookupsCovered(p) ==
  \A r \in ReadersOf(p) : At(r, "lookup") =>
    /\ En(p).stored /\ En(p).epoch = task[r].epoch => task[r].floor <= En(p).index
    /\ \A q \in ReadersOf(p) : At(q, "store") /\ task[q].epoch = task[r].epoch
         => task[r].floor <= task[q].index

AnswersCovered(p) ==
  \A r \in ReadersOf(p) : task[r].pc \in {"store", "answered"} => task[r].floor <= task[r].index

FreshInv(p) == /\ Roles(p) /\ EpochsPast(p) /\ FloorsPast(p)
               /\ CurrentCovers(p) /\ LookupsCovered(p) /\ AnswersCovered(p)

\* Nothing is noted down at the start.
LEMMA FreshInit == ASSUME Init, NEW p \in Processes PROVE FreshInv(p)
<1>1. Ep(p) = 0 /\ En(p) = NoEntry /\ \A th \in Threads : task[th] = Idle
  BY DEF Init, Ep, En
<1>2. WritersOf(p) \subseteq Threads /\ ReadersOf(p) \subseteq Threads
  BY DEF WritersOf, ReadersOf, Threads
<1> QED
  BY <1>1, <1>2 DEF FreshInv, Roles, EpochsPast, FloorsPast, CurrentCovers, LookupsCovered,
              AnswersCovered, InGet, At, Idle, NoEntry

OthersKept(th) == \A u \in Threads \ {th} : task'[u] = task[u]

\* A thread of another process leaves this one's cache and threads alone.
LEMMA FreshElsewhere ==
  ASSUME NEW p \in Processes, TypeInv, FreshInv(p), NEW th \in Threads, Home[th] # p,
         \/ Commit(th) \/ ReadEpoch(th) \/ RaiseEpoch(th) \/ Pop(th)
         \/ GetEpoch(th) \/ Lookup(th) \/ Build(th) \/ Store(th) \/ Return(th)
  PROVE  FreshInv(p)'
<1>1. /\ task \in [Threads -> Task] /\ entry \in [Processes -> Entry]
      /\ epoch \in [Processes -> Nat] /\ announced \in [Processes -> 0 .. library]
  BY DEF TypeInv, TypeOK
<1>2. \A u \in Threads \ {th} : task'[u] = task[u]
  BY <1>1 DEF Commit, ReadEpoch, RaiseEpoch, Pop, GetEpoch, Lookup, Build, Store, Return, Become
<1>3. Ep(p)' = Ep(p) /\ En(p)' = En(p) /\ Ann(p)' = Ann(p)
  BY <1>1 DEF Commit, ReadEpoch, RaiseEpoch, Pop, GetEpoch, Lookup, Build, Store, Return,
              Ep, En, Ann
<1>4. WritersOf(p) \subseteq Threads \ {th} /\ ReadersOf(p) \subseteq Threads \ {th}
  BY DEF WritersOf, ReadersOf, Threads
<1>5. Roles(p)' /\ EpochsPast(p)' /\ FloorsPast(p)'
  BY <1>2, <1>3, <1>4 DEF FreshInv, Roles, EpochsPast, FloorsPast, InGet, At
<1>6. CurrentCovers(p)' /\ LookupsCovered(p)' /\ AnswersCovered(p)'
  BY <1>2, <1>3, <1>4 DEF FreshInv, CurrentCovers, LookupsCovered, AnswersCovered, Covers, At
<1> QED
  BY <1>5, <1>6 DEF FreshInv

\* The epoch moves on before a write is announced, so what was built earlier
\* no longer carries the current epoch by then.
LEMMA FreshStep ==
  ASSUME NEW p \in Processes, OneWriter(p), TypeInv, FreshInv(p), [Next]_vars
  PROVE  FreshInv(p)'
<1>1. CASE UNCHANGED vars
  BY <1>1 DEF vars, FreshInv, Roles, EpochsPast, FloorsPast, CurrentCovers, LookupsCovered,
              AnswersCovered, InGet, At, Covers, Ep, En, Ann, WritersOf, ReadersOf
<1>2. CASE Tick
  BY <1>2 DEF Tick, FreshInv, Roles, EpochsPast, FloorsPast, CurrentCovers, LookupsCovered,
              AnswersCovered, InGet, At, Covers, Ep, En, Ann, WritersOf, ReadersOf
<1>3. ASSUME NEW th \in Threads, SetClusterCrop(th) PROVE FreshInv(p)'
  BY <1>3 DEF SetClusterCrop, FreshInv, Roles, EpochsPast, FloorsPast, CurrentCovers,
              LookupsCovered, AnswersCovered, InGet, At, Covers, Ep, En, Ann, WritersOf,
              ReadersOf
<1>4. ASSUME NEW th \in Threads,
             \/ Commit(th) \/ ReadEpoch(th) \/ RaiseEpoch(th) \/ Pop(th)
             \/ GetEpoch(th) \/ Lookup(th) \/ Build(th) \/ Store(th) \/ Return(th)
      PROVE  FreshInv(p)'
  <2>11. CASE Home[th] # p
    BY <1>4, <2>11, FreshElsewhere
  <2> SUFFICES ASSUME Home[th] = p PROVE FreshInv(p)'
    BY <2>11
  <2>0. Home[th] = p
    OBVIOUS
  <2> /\ task \in [Threads -> Task] /\ task[th] \in Task
      /\ entry \in [Processes -> Entry] /\ epoch \in [Processes -> Nat]
      /\ announced \in [Processes -> 0 .. library]
    BY DEF TypeInv, TypeOK
  <2> /\ Ep(p) \in Nat /\ En(p).epoch \in Nat /\ En(p).index \in Nat
      /\ Ann(p) \in Nat /\ library \in Nat /\ Ann(p) <= library
    BY DEF TypeInv, TypeOK, Entry, Ep, En, Ann
  <2> \A u \in Threads : /\ task[u].epoch \in Nat /\ task[u].floor \in Nat
                         /\ task[u].index \in Nat /\ task[u].index <= library
    BY DEF TypeInv, TypeOK, Bounded, Task
  <2> /\ WritersOf(p) \subseteq Threads /\ ReadersOf(p) \subseteq Threads
      /\ WritersOf(p) \cap ReadersOf(p) = {}
      /\ th \in WritersOf(p) \cup ReadersOf(p) /\ (th \in Writers => th \in WritersOf(p))
      /\ (th \in Readers => th \in ReadersOf(p))
    BY <2>0, RolesAssumption DEF Threads, WritersOf, ReadersOf
  <2> /\ Roles(p) /\ EpochsPast(p) /\ FloorsPast(p)
      /\ CurrentCovers(p) /\ LookupsCovered(p) /\ AnswersCovered(p)
    BY DEF FreshInv
  <2>1. CASE Commit(th)
    <3>1. /\ OthersKept(th) /\ Ep(p)' = Ep(p) /\ En(p)' = En(p) /\ Ann(p)' = Ann(p)
          /\ th \in Writers /\ task'[th].pc = "bump"
      BY <2>1, <2>0 DEF Commit, At, Become, OthersKept, Task, Ep, En, Ann, Idle
    <3>2. th \in WritersOf(p)
      BY <3>1 DEF Roles, Threads
    <3>3. Roles(p)'
      BY <3>1, <3>2 DEF Roles, OthersKept
    <3>4. EpochsPast(p)'
      BY <3>1, <3>2 DEF EpochsPast, OthersKept, InGet, At
    <3>5. FloorsPast(p)'
      BY <3>1, <3>2 DEF FloorsPast, OthersKept, InGet, At
    <3>6. CurrentCovers(p)'
      BY <3>1, <3>2 DEF CurrentCovers, Covers, OthersKept, At
    <3>7. LookupsCovered(p)'
      BY <3>1, <3>2 DEF LookupsCovered, OthersKept, At
    <3>8. AnswersCovered(p)'
      BY <3>1, <3>2 DEF AnswersCovered, OthersKept
    <3> QED
      BY <3>3, <3>4, <3>5, <3>6, <3>7, <3>8 DEF FreshInv
  <2>2. CASE ReadEpoch(th)
    <3>1. /\ OthersKept(th) /\ Ep(p)' = Ep(p) /\ En(p)' = En(p) /\ Ann(p)' = Ann(p)
          /\ task[th].pc = "bump" /\ task'[th].pc = "raise" /\ task'[th].epoch = Ep(p)
      BY <2>2, <2>0 DEF ReadEpoch, At, Become, OthersKept, Task, Ep, En, Ann
    <3>2. th \in WritersOf(p)
      BY <3>1 DEF Roles, Threads
    <3>3. Roles(p)'
      BY <3>1, <3>2 DEF Roles, OthersKept
    <3>4. EpochsPast(p)'
      BY <3>1, <3>2 DEF EpochsPast, OthersKept, InGet, At
    <3>5. FloorsPast(p)'
      BY <3>1, <3>2 DEF FloorsPast, OthersKept, InGet, At
    <3>6. CurrentCovers(p)'
      BY <3>1, <3>2 DEF CurrentCovers, Covers, OthersKept, At
    <3>7. LookupsCovered(p)'
      BY <3>1, <3>2 DEF LookupsCovered, OthersKept, At
    <3>8. AnswersCovered(p)'
      BY <3>1, <3>2 DEF AnswersCovered, OthersKept
    <3> QED
      BY <3>3, <3>4, <3>5, <3>6, <3>7, <3>8 DEF FreshInv
  <2>3. CASE RaiseEpoch(th)
    <3>1. /\ OthersKept(th) /\ Ep(p)' = task[th].epoch + 1 /\ En(p)' = En(p) /\ Ann(p)' = Ann(p)
          /\ task[th].pc = "raise" /\ task'[th].pc = "pop" /\ task'[th].index = task[th].index
      BY <2>3, <2>0 DEF RaiseEpoch, At, Become, OthersKept, Task, Ep, En, Ann
    <3>2. th \in WritersOf(p)
      BY <3>1 DEF Roles, Threads
    <3>3. Roles(p)'
      BY <3>1, <3>2 DEF Roles, OthersKept
    <3>4. EpochsPast(p)'
      BY <3>1, <3>2 DEF EpochsPast, OthersKept, InGet, At, OneWriter
    <3>5. FloorsPast(p)'
      BY <3>1, <3>2 DEF FloorsPast, OthersKept, InGet, At
    <3>6. CurrentCovers(p)'
      BY <3>1, <3>2 DEF CurrentCovers, Covers, OthersKept, At, EpochsPast, InGet
    <3>7. LookupsCovered(p)'
      BY <3>1, <3>2 DEF LookupsCovered, OthersKept, At
    <3>8. AnswersCovered(p)'
      BY <3>1, <3>2 DEF AnswersCovered, OthersKept
    <3> QED
      BY <3>3, <3>4, <3>5, <3>6, <3>7, <3>8 DEF FreshInv
  <2>4. CASE Pop(th)
    <3>1. /\ OthersKept(th) /\ Ep(p)' = Ep(p) /\ ~En(p)'.stored
          /\ task[th].pc = "pop" /\ task'[th].pc = "idle"
          /\ Ann(p)' = IF Ann(p) < task[th].index THEN task[th].index ELSE Ann(p)
      BY <2>4, <2>0 DEF Pop, Later, At, Become, OthersKept, Task, Ep, En, Ann, Idle, NoEntry
    <3>2. th \in WritersOf(p)
      BY <3>1 DEF Roles, Threads
    <3>3. Roles(p)'
      BY <3>1, <3>2 DEF Roles, OthersKept
    <3>4. EpochsPast(p)'
      BY <3>1, <3>2 DEF EpochsPast, OthersKept, InGet, At
    <3>5. FloorsPast(p)'
      BY <3>1, <3>2 DEF FloorsPast, OthersKept, InGet, At
    <3>6. CurrentCovers(p)'
      BY <3>1, <3>2 DEF CurrentCovers, Covers, OthersKept, At
    <3>7. LookupsCovered(p)'
      BY <3>1, <3>2 DEF LookupsCovered, OthersKept, At
    <3>8. AnswersCovered(p)'
      BY <3>1, <3>2 DEF AnswersCovered, OthersKept
    <3> QED
      BY <3>3, <3>4, <3>5, <3>6, <3>7, <3>8 DEF FreshInv
  <2>5. CASE GetEpoch(th)
    <3>1. /\ OthersKept(th) /\ Ep(p)' = Ep(p) /\ En(p)' = En(p) /\ Ann(p)' = Ann(p)
          /\ th \in Readers /\ task'[th].pc = "lookup"
          /\ task'[th].epoch = Ep(p) /\ task'[th].floor = Ann(p)
      BY <2>5, <2>0 DEF GetEpoch, At, Become, OthersKept, Task, Ep, En, Ann, Idle
    <3>2. th \in ReadersOf(p)
      BY <3>1 DEF Roles, Threads
    <3>3. Roles(p)'
      BY <3>1, <3>2 DEF Roles, OthersKept
    <3>4. EpochsPast(p)'
      BY <3>1, <3>2 DEF EpochsPast, OthersKept, InGet, At
    <3>5. FloorsPast(p)'
      BY <3>1, <3>2 DEF FloorsPast, OthersKept, InGet, At
    <3>6. CurrentCovers(p)'
      BY <3>1, <3>2 DEF CurrentCovers, Covers, OthersKept, At
    <3>7. LookupsCovered(p)'
      BY <3>1, <3>2 DEF LookupsCovered, OthersKept, At, CurrentCovers, Covers
    <3>8. AnswersCovered(p)'
      BY <3>1, <3>2 DEF AnswersCovered, OthersKept
    <3> QED
      BY <3>3, <3>4, <3>5, <3>6, <3>7, <3>8 DEF FreshInv
  <2>6. CASE Lookup(th)
    <3>1. /\ OthersKept(th) /\ Ep(p)' = Ep(p) /\ En(p)' = En(p) /\ Ann(p)' = Ann(p)
          /\ task[th].pc = "lookup"
          /\ task'[th].epoch = task[th].epoch /\ task'[th].floor = task[th].floor
          /\ \/ /\ task'[th].pc = "answered" /\ En(p).stored /\ En(p).epoch = task[th].epoch
                /\ task'[th].index = En(p).index
             \/ task'[th].pc = "build"
      BY <2>6, <2>0 DEF Lookup, At, Become, OthersKept, Task, Ep, En, Ann, Good
    <3>2. th \in ReadersOf(p)
      BY <3>1 DEF Roles, Threads
    <3>3. Roles(p)'
      BY <3>1, <3>2 DEF Roles, OthersKept
    <3>4. EpochsPast(p)'
      BY <3>1, <3>2 DEF EpochsPast, OthersKept, InGet, At
    <3>5. FloorsPast(p)'
      BY <3>1, <3>2 DEF FloorsPast, OthersKept, InGet, At
    <3>6. CurrentCovers(p)'
      BY <3>1, <3>2 DEF CurrentCovers, Covers, OthersKept, At
    <3>7. LookupsCovered(p)'
      BY <3>1, <3>2 DEF LookupsCovered, OthersKept, At
    <3>8. AnswersCovered(p)'
      BY <3>1, <3>2 DEF AnswersCovered, OthersKept, LookupsCovered, At
    <3> QED
      BY <3>3, <3>4, <3>5, <3>6, <3>7, <3>8 DEF FreshInv
  <2>7. CASE Build(th)
    <3>1. /\ OthersKept(th) /\ Ep(p)' = Ep(p) /\ En(p)' = En(p) /\ Ann(p)' = Ann(p)
          /\ task[th].pc = "build" /\ task'[th].pc = "store" /\ task'[th].index = library
          /\ task'[th].epoch = task[th].epoch /\ task'[th].floor = task[th].floor
      BY <2>7, <2>0 DEF Build, At, Become, OthersKept, Task, Ep, En, Ann
    <3>2. th \in ReadersOf(p)
      BY <3>1 DEF Roles, Threads
    <3>3. Roles(p)'
      BY <3>1, <3>2 DEF Roles, OthersKept
    <3>4. EpochsPast(p)'
      BY <3>1, <3>2 DEF EpochsPast, OthersKept, InGet, At
    <3>5. FloorsPast(p)'
      BY <3>1, <3>2 DEF FloorsPast, OthersKept, InGet, At
    <3>6. CurrentCovers(p)'
      BY <3>1, <3>2 DEF CurrentCovers, Covers, OthersKept, At
    <3>7. LookupsCovered(p)'
      BY <3>1, <3>2 DEF LookupsCovered, OthersKept, At, FloorsPast, InGet
    <3>8. AnswersCovered(p)'
      BY <3>1, <3>2 DEF AnswersCovered, OthersKept, FloorsPast, InGet
    <3> QED
      BY <3>3, <3>4, <3>5, <3>6, <3>7, <3>8 DEF FreshInv
  <2>8. CASE Store(th)
    <3>1. /\ OthersKept(th) /\ Ep(p)' = Ep(p) /\ Ann(p)' = Ann(p)
          /\ task[th].pc = "store" /\ task'[th].pc = "answered"
          /\ task'[th].index = task[th].index /\ task'[th].epoch = task[th].epoch
          /\ task'[th].floor = task[th].floor
          /\ En(p)'.epoch = task[th].epoch /\ En(p)'.index = task[th].index
      BY <2>8, <2>0 DEF Store, At, Become, OthersKept, Task, Ep, En, Ann
    <3>2. th \in ReadersOf(p)
      BY <3>1 DEF Roles, Threads
    <3>3. Roles(p)'
      BY <3>1, <3>2 DEF Roles, OthersKept
    <3>4. EpochsPast(p)'
      BY <3>1, <3>2 DEF EpochsPast, OthersKept, InGet, At
    <3>5. FloorsPast(p)'
      BY <3>1, <3>2 DEF FloorsPast, OthersKept, InGet, At
    <3>6. CurrentCovers(p)'
      BY <3>1, <3>2 DEF CurrentCovers, Covers, OthersKept, At
    <3>7. LookupsCovered(p)'
      BY <3>1, <3>2 DEF LookupsCovered, OthersKept, At
    <3>8. AnswersCovered(p)'
      BY <3>1, <3>2 DEF AnswersCovered, OthersKept
    <3> QED
      BY <3>3, <3>4, <3>5, <3>6, <3>7, <3>8 DEF FreshInv
  <2>9. CASE Return(th)
    <3>1. /\ OthersKept(th) /\ Ep(p)' = Ep(p) /\ En(p)' = En(p) /\ Ann(p)' = Ann(p)
          /\ task[th].pc = "answered" /\ task'[th].pc = "idle"
      BY <2>9, <2>0 DEF Return, At, Become, OthersKept, Task, Ep, En, Ann, Idle
    <3>2. th \in ReadersOf(p)
      BY <3>1 DEF Roles, Threads
    <3>3. Roles(p)'
      BY <3>1, <3>2 DEF Roles, OthersKept
    <3>4. EpochsPast(p)'
      BY <3>1, <3>2 DEF EpochsPast, OthersKept, InGet, At
    <3>5. FloorsPast(p)'
      BY <3>1, <3>2 DEF FloorsPast, OthersKept, InGet, At
    <3>6. CurrentCovers(p)'
      BY <3>1, <3>2 DEF CurrentCovers, Covers, OthersKept, At
    <3>7. LookupsCovered(p)'
      BY <3>1, <3>2 DEF LookupsCovered, OthersKept, At
    <3>8. AnswersCovered(p)'
      BY <3>1, <3>2 DEF AnswersCovered, OthersKept
    <3> QED
      BY <3>3, <3>4, <3>5, <3>6, <3>7, <3>8 DEF FreshInv
  <2> QED
    BY <1>4, <2>1, <2>2, <2>3, <2>4, <2>5, <2>6, <2>7, <2>8, <2>9
<1> QED
  BY <1>1, <1>2, <1>3, <1>4 DEF Next

\* A process with one writer at a time gives a cached index that is as good as
\* a fresh read of all writes up to the last one that it bumped for, whatever
\* readers, commits and bumps overlap, whatever other processes do, and whatever
\* crops are set in between: of the writes that bump, none needs the TTL or a
\* lock.  (A crop that is set after the last bump may be missing: FreshRead.)
THEOREM OneWriterFresh ==
  ASSUME \A p \in Processes : OneWriter(p)
  PROVE  Spec => []FreshAfterBump
<1> DEFINE Fresh == \A p \in Processes : FreshInv(p)
<1>1. Init => TypeInv /\ Fresh
  BY TypeInit, FreshInit
<1>2. (TypeInv /\ Fresh) /\ [Next]_vars => (TypeInv /\ Fresh)'
  BY TypeStep, FreshStep
<1>3. Fresh => FreshAfterBump
  <2> SUFFICES ASSUME Fresh, NEW r \in Readers, At(r, "answered")
               PROVE  task[r].index >= task[r].floor
    BY DEF FreshAfterBump
  <2>1. Home[r] \in Processes /\ r \in ReadersOf(Home[r])
    BY HomeAssumption DEF ReadersOf, Threads
  <2>2. AnswersCovered(Home[r])
    BY <2>1 DEF FreshInv
  <2> QED
    BY <2>1, <2>2 DEF AnswersCovered, At
<1> QED
  BY <1>1, <1>2, <1>3, PTL DEF Spec

(***************************************************************************)
(* Answers in any process: nothing but the clock bounds their age, so the  *)
(* invariant relates an index to the tick its get started in.              *)
(***************************************************************************)

\* An index with i writes has those of every tick that was over at tick t
HasTicksBefore(i, t) == \A k \in 0 .. now : k < t => asOf[k] <= i

\* A tick's writes are committed ones
PastCommitted == \A k \in 0 .. now : asOf[k] <= library

ThreadRoles ==
  /\ \A w \in Writers : task[w].pc \in {"idle", "bump", "raise", "pop"}
  /\ \A r \in Readers : task[r].pc \in {"idle", "lookup", "build", "store", "answered"}

\* No get takes longer than BuildTicks
GetsBounded ==
  \A r \in Readers : ~At(r, "idle") => task[r].since <= now /\ now <= task[r].since + BuildTicks

\* An index that was built has what was committed before its get
BuildsSee == \A r \in Readers : At(r, "store") => HasTicksBefore(task[r].index, task[r].since)

\* A stored one was built at most BuildTicks ago
EntriesSee ==
  \A p \in Processes : entry[p].stored =>
    /\ entry[p].at <= now
    /\ \A k \in 0 .. now : k + BuildTicks < entry[p].at => asOf[k] <= entry[p].index

\* An answer was built then, or was in the cache for less than TTL
AnswersSee ==
  \A r \in Readers : At(r, "answered") =>
    \A k \in 0 .. now : k + TTL + BuildTicks <= task[r].since => asOf[k] <= task[r].index

AgeInv == /\ PastCommitted /\ ThreadRoles /\ GetsBounded
          /\ BuildsSee /\ EntriesSee /\ AnswersSee

\* Before the first tick nothing is committed.
LEMMA AgeInit == Init => AgeInv
  BY RolesAssumption, TicksAssumption
     DEF Init, AgeInv, PastCommitted, ThreadRoles, GetsBounded, BuildsSee, EntriesSee,
         AnswersSee, NoEntry, Idle, At, Threads

\* Only the writes of the current tick can still grow, and no index is
\* required to have them.
LEMMA AgeStep ==
  ASSUME TTL > 0
  PROVE  TypeInv /\ AgeInv /\ [Next]_vars => AgeInv'
<1> SUFFICES ASSUME TypeInv, AgeInv, [Next]_vars PROVE AgeInv'
  OBVIOUS
<1>0. /\ now \in Nat /\ library \in Nat /\ now <= MaxTime
      /\ TTL \in Nat /\ BuildTicks \in Nat /\ MaxTime \in Nat
      /\ asOf \in [0 .. MaxTime -> Nat] /\ \A k \in 0 .. now : asOf[k] \in Nat
      /\ task \in [Threads -> Task] /\ entry \in [Processes -> Entry]
      /\ \A th \in Threads : Home[th] \in Processes
  BY TicksAssumption, HomeAssumption DEF TypeInv, TypeOK
<1>a. /\ PastCommitted /\ ThreadRoles /\ GetsBounded /\ BuildsSee /\ EntriesSee /\ AnswersSee
  BY DEF AgeInv
<1>b. \A th \in Threads : /\ task[th].since \in Nat /\ task[th].index \in Nat
                          /\ DOMAIN task[th] = {"pc", "epoch", "index", "floor", "due", "since"}
  BY <1>0 DEF Task
<1>c. \A p \in Processes : entry[p].at \in Nat /\ entry[p].index \in Nat
  BY <1>0 DEF Entry
<1>d. Writers \subseteq Threads /\ Readers \subseteq Threads /\ Writers \cap Readers = {}
  BY RolesAssumption DEF Threads
<1>1. CASE UNCHANGED vars
  BY <1>1, <1>a DEF vars, AgeInv, PastCommitted, ThreadRoles, GetsBounded, BuildsSee, EntriesSee,
         AnswersSee, HasTicksBefore, At
<1>2. CASE Tick
  <2>1. /\ now' = now + 1 /\ library' = library /\ entry' = entry /\ task' = task
        /\ \A k \in 0 .. now : asOf'[k] = asOf[k]
        /\ asOf'[now + 1] = library
        /\ \A r \in Readers : At(r, "idle") \/ now < task[r].since + BuildTicks
    BY <1>0, <1>2 DEF Tick
  <2>2. PastCommitted'
    <3>1. \A k \in 0 .. now + 1 : k \in 0 .. now \/ k = now + 1
      BY <1>0
    <3>2. \A k \in 0 .. now + 1 : asOf'[k] <= library
      BY <1>0, <1>a, <2>1, <3>1, SMTT(20) DEF PastCommitted
    <3>3. QED
      BY <2>1, <3>2 DEF PastCommitted
  <2>3. ThreadRoles' /\ GetsBounded'
    BY <1>0, <1>a, <1>b, <1>d, <2>1 DEF ThreadRoles, GetsBounded, At
  <2>4. BuildsSee'
    <3> SUFFICES ASSUME NEW r \in Readers, At(r, "store"), NEW k \in 0 .. now + 1,
                        k < task[r].since
                 PROVE  asOf'[k] <= task[r].index
      BY <2>1 DEF BuildsSee, HasTicksBefore, At
    <3>1. task[r].since <= now /\ task[r].since \in Nat
      BY <1>a, <1>b, <1>d DEF GetsBounded, At
    <3>2. k \in 0 .. now
      BY <1>0, <3>1
    <3>3. QED
      BY <1>a, <2>1, <3>2 DEF BuildsSee, HasTicksBefore
  <2>5. EntriesSee'
    BY <1>0, <1>a, <1>c, <2>1 DEF EntriesSee
  <2>6. AnswersSee'
    <3> SUFFICES ASSUME NEW r \in Readers, At(r, "answered"), NEW k \in 0 .. now + 1,
                        k + TTL + BuildTicks <= task[r].since
                 PROVE  asOf'[k] <= task[r].index
      BY <2>1 DEF AnswersSee, At
    <3>1. task[r].since <= now /\ task[r].since \in Nat
      BY <1>a, <1>b, <1>d DEF GetsBounded, At
    <3>2. k \in 0 .. now
      BY <1>0, <3>1
    <3>3. QED
      BY <1>a, <2>1, <3>2 DEF AnswersSee
  <2>7. QED
    BY <2>2, <2>3, <2>4, <2>5, <2>6 DEF AgeInv
<1>3. ASSUME NEW th \in Threads, Commit(th) \/ SetClusterCrop(th) PROVE AgeInv'
  <2>1. /\ now' = now /\ library' = library + 1 /\ entry' = entry
        /\ \A k \in 0 .. now : k < now => asOf'[k] = asOf[k]
        /\ asOf'[now] = library + 1
        /\ th \in Writers /\ task'[th].pc \in {"bump", "idle"}
        /\ \A u \in Threads \ {th} : task'[u] = task[u]
    <3>1. CASE Commit(th)
      BY <1>0, <3>1 DEF Commit, Become, Idle
    <3>2. CASE SetClusterCrop(th)
      BY <1>0, <3>2 DEF SetClusterCrop, At
    <3>3. QED
      BY <1>3, <3>1, <3>2
  <2>2. PastCommitted'
    BY <1>0, <1>a, <2>1 DEF PastCommitted
  <2>3. ThreadRoles' /\ GetsBounded'
    BY <1>a, <1>d, <2>1 DEF ThreadRoles, GetsBounded, At
  <2>a. \A r \in Readers : task'[r] = task[r]
    BY <1>d, <2>1
  <2>4. BuildsSee'
    <3> SUFFICES ASSUME NEW r \in Readers, At(r, "store"), NEW k \in 0 .. now,
                        k < task[r].since
                 PROVE  asOf'[k] <= task[r].index
      BY <2>1, <2>a DEF BuildsSee, HasTicksBefore, At
    <3>1. task[r].since <= now /\ task[r].since \in Nat
      BY <1>a, <1>b, <1>d DEF GetsBounded, At
    <3>2. k < now
      BY <1>0, <3>1
    <3>3. QED
      BY <1>a, <2>1, <3>2 DEF BuildsSee, HasTicksBefore
  <2>5. EntriesSee'
    BY <1>0, <1>a, <1>c, <2>1 DEF EntriesSee
  <2>6. AnswersSee'
    <3> SUFFICES ASSUME NEW r \in Readers, At(r, "answered"), NEW k \in 0 .. now,
                        k + TTL + BuildTicks <= task[r].since
                 PROVE  asOf'[k] <= task[r].index
      BY <2>1, <2>a DEF AnswersSee, At
    <3>1. task[r].since <= now /\ task[r].since \in Nat
      BY <1>a, <1>b, <1>d DEF GetsBounded, At
    <3>2. k < now
      BY <1>0, <3>1
    <3>3. QED
      BY <1>a, <2>1, <3>2 DEF AnswersSee
  <2>7. QED
    BY <2>2, <2>3, <2>4, <2>5, <2>6 DEF AgeInv
\* The clock and the library stand still
<1>4. ASSUME NEW th \in Threads,
             \/ ReadEpoch(th) \/ RaiseEpoch(th) \/ Pop(th)
             \/ GetEpoch(th) \/ Lookup(th) \/ Build(th) \/ Store(th) \/ Return(th)
      PROVE  AgeInv'
  <2>1. /\ now' = now /\ library' = library /\ asOf' = asOf
        /\ \A u \in Threads \ {th} : task'[u] = task[u]
    BY <1>0, <1>4 DEF ReadEpoch, RaiseEpoch, Pop, GetEpoch, Lookup, Build, Store, Return, Become
  <2>2. PastCommitted'
    BY <1>a, <2>1 DEF PastCommitted
  <2>3. ASSUME entry' = entry, th \in Readers,
               task'[th].pc \in {"idle", "lookup", "build", "store", "answered"},
               task'[th].pc # "idle" =>
                 task'[th].since <= now /\ now <= task'[th].since + BuildTicks,
               task'[th].pc = "store" => HasTicksBefore(task'[th].index, task'[th].since),
               task'[th].pc = "answered" =>
                 \A k \in 0 .. now : k + TTL + BuildTicks <= task'[th].since
                                       => asOf[k] <= task'[th].index
        PROVE  AgeInv'
    <3>1. ThreadRoles' /\ GetsBounded'
      BY <1>a, <1>d, <2>1, <2>3 DEF ThreadRoles, GetsBounded, At
    <3>2. BuildsSee' /\ EntriesSee' /\ AnswersSee'
      BY <1>a, <1>d, <2>1, <2>3 DEF BuildsSee, EntriesSee, AnswersSee, HasTicksBefore, At
    <3>3. QED
      BY <2>2, <3>1, <3>2 DEF AgeInv
  <2>4. CASE ReadEpoch(th) \/ RaiseEpoch(th) \/ Pop(th)
    <3>1. th \in Writers /\ th \notin Readers
      BY <1>a, <1>d, <2>4 DEF ThreadRoles, ReadEpoch, RaiseEpoch, Pop, At, Threads
    <3>2. task'[th].pc \in {"idle", "bump", "raise", "pop"}
      <4>1. CASE ReadEpoch(th)
        BY <1>0, <1>b, <4>1 DEF ReadEpoch, Become
      <4>2. CASE RaiseEpoch(th)
        BY <1>0, <1>b, <4>2 DEF RaiseEpoch, Become
      <4>3. CASE Pop(th)
        BY <1>0, <4>3 DEF Pop, Become, Idle
      <4>4. QED
        BY <2>4, <4>1, <4>2, <4>3
    <3>3. \A p \in Processes : entry'[p].stored => entry'[p] = entry[p]
      BY <1>0, <2>4 DEF ReadEpoch, RaiseEpoch, Pop, NoEntry
    <3>4. ThreadRoles' /\ GetsBounded'
      BY <1>a, <1>d, <2>1, <3>1, <3>2 DEF ThreadRoles, GetsBounded, At
    <3>5. BuildsSee' /\ AnswersSee'
      BY <1>a, <1>d, <2>1, <3>1 DEF BuildsSee, AnswersSee, HasTicksBefore, At
    <3>6. EntriesSee'
      BY <1>a, <2>1, <3>3 DEF EntriesSee
    <3>7. QED
      BY <2>2, <3>4, <3>5, <3>6 DEF AgeInv
  <2>5. CASE GetEpoch(th)
    <3>1. /\ th \in Readers /\ entry' = entry
          /\ task'[th].pc = "lookup" /\ task'[th].since = now
      BY <1>0, <2>5 DEF GetEpoch, Become, Idle
    <3>2. QED
      BY <1>0, <2>3, <3>1
  <2>6. CASE Lookup(th)
    <3>1. /\ task[th].pc = "lookup" /\ entry' = entry /\ task'[th].since = task[th].since
          /\ \/ /\ task'[th].pc = "answered" /\ task'[th].index = entry[Home[th]].index
                /\ entry[Home[th]].stored /\ now < entry[Home[th]].at + TTL
             \/ task'[th].pc = "build"
      BY <1>0, <1>b, <2>6 DEF Lookup, Become, At, Good
    <3>2. th \in Readers
      BY <1>a, <3>1 DEF ThreadRoles, Threads
    <3>3. task[th].since <= now /\ now <= task[th].since + BuildTicks
      BY <1>a, <3>1, <3>2 DEF GetsBounded, At
    <3>4. ASSUME task'[th].pc = "answered", NEW k \in 0 .. now,
                 k + TTL + BuildTicks <= task'[th].since
          PROVE  asOf[k] <= task'[th].index
      <4>1. now < entry[Home[th]].at + TTL /\ entry[Home[th]].at \in Nat
            /\ entry[Home[th]].stored
        BY <1>0, <1>c, <3>1, <3>4
      <4>2. k + BuildTicks < entry[Home[th]].at
        BY <1>0, <1>b, <3>1, <3>3, <3>4, <4>1, SMTT(20)
      <4>3. QED
        BY <1>0, <1>a, <3>1, <3>4, <4>1, <4>2 DEF EntriesSee
    <3>5. QED
      BY <2>3, <3>1, <3>2, <3>3, <3>4
  <2>7. CASE Build(th)
    <3>1. /\ task[th].pc = "build" /\ entry' = entry /\ task'[th].since = task[th].since
          /\ task'[th].pc = "store" /\ task'[th].index = library
      BY <1>0, <1>b, <2>7 DEF Build, Become, At
    <3>2. th \in Readers
      BY <1>a, <3>1 DEF ThreadRoles, Threads
    <3>3. task[th].since <= now /\ now <= task[th].since + BuildTicks
      BY <1>a, <3>1, <3>2 DEF GetsBounded, At
    <3>4. QED
      BY <1>a, <2>3, <3>1, <3>2, <3>3 DEF HasTicksBefore, PastCommitted
  <2>8. CASE Store(th)
    <3>1. /\ task[th].pc = "store" /\ task'[th].pc = "answered"
          /\ task'[th].index = task[th].index /\ task'[th].since = task[th].since
          /\ entry' = [entry EXCEPT ![Home[th]] = [stored |-> TRUE, epoch |-> task[th].epoch,
                                           at |-> now, index |-> task[th].index]]
      BY <1>0, <1>b, <2>8 DEF Store, Become, At
    <3>2. th \in Readers
      BY <1>a, <3>1 DEF ThreadRoles, Threads
    <3>3. /\ task[th].since <= now /\ now <= task[th].since + BuildTicks
          /\ HasTicksBefore(task[th].index, task[th].since)
      BY <1>a, <3>1, <3>2 DEF GetsBounded, BuildsSee, At
    <3>4. ThreadRoles' /\ GetsBounded'
      BY <1>a, <1>d, <2>1, <3>1, <3>2, <3>3 DEF ThreadRoles, GetsBounded, At
    <3>5. BuildsSee'
      BY <1>a, <1>d, <2>1, <3>1 DEF BuildsSee, HasTicksBefore, At
    <3>6. EntriesSee'
      <4>1. \A p \in Processes :
              \/ entry'[p] = entry[p]
              \/ entry'[p].at = now /\ entry'[p].index = task[th].index
        BY <1>0, <3>1
      <4>2. \A k \in 0 .. now : k + BuildTicks < now => asOf[k] <= task[th].index
        BY <1>0, <1>b, <3>3 DEF HasTicksBefore
      <4>3. ASSUME NEW q \in Processes, entry'[q].stored
            PROVE  /\ entry'[q].at <= now
                   /\ \A k \in 0 .. now : k + BuildTicks < entry'[q].at
                                           => asOf[k] <= entry'[q].index
        <5>1. CASE entry'[q] = entry[q]
          BY <1>a, <4>3, <5>1 DEF EntriesSee
        <5>2. CASE entry'[q].at = now /\ entry'[q].index = task[th].index
          BY <1>0, <4>2, <5>2
        <5>3. QED
          BY <4>1, <5>1, <5>2
      <4>4. QED
        BY <2>1, <4>3 DEF EntriesSee
    <3>7. AnswersSee'
      <4>1. \A k \in 0 .. now : k + TTL + BuildTicks <= task[th].since
                                  => asOf[k] <= task[th].index
        BY <1>0, <1>b, <3>3 DEF HasTicksBefore
      <4>2. QED
        BY <1>a, <1>d, <2>1, <3>1, <4>1 DEF AnswersSee, At
    <3>8. QED
      BY <2>2, <3>4, <3>5, <3>6, <3>7 DEF AgeInv
  <2>9. CASE Return(th)
    <3>1. task[th].pc = "answered" /\ task'[th].pc = "idle" /\ entry' = entry
      BY <1>0, <2>9 DEF Return, Become, At, Idle
    <3>2. th \in Readers
      BY <1>a, <3>1 DEF ThreadRoles, Threads
    <3>3. QED
      BY <2>3, <3>1, <3>2
  <2>10. QED
    BY <1>4, <2>4, <2>5, <2>6, <2>7, <2>8, <2>9
<1>5. QED
  BY <1>1, <1>2, <1>3, <1>4 DEF Next

\* An entry that can be used at all is no older than its lifetime, so an answer
\* has every write older than that lifetime and two gets, in whichever process
\* it was made and whatever epochs were lost.  (ttl_seconds is 300.0; a
\* lifetime of nothing would have no past tick to promise.)
THEOREM StalenessBounded ==
  ASSUME TTL > 0
  PROVE  Spec => []BoundedStaleness
<1>1. Init => TypeInv /\ AgeInv
  BY TypeInit, AgeInit
<1>2. (TypeInv /\ AgeInv) /\ [Next]_vars => (TypeInv /\ AgeInv)'
  BY TypeStep, AgeStep
<1>3. TypeInv /\ AgeInv => BoundedStaleness
  <2> SUFFICES ASSUME TypeInv, AgeInv, NEW r \in Readers, At(r, "answered"),
                      now >= TTL + 2 * BuildTicks
               PROVE  task[r].index >= asOf[now - TTL - 2 * BuildTicks]
    BY DEF BoundedStaleness
  <2> DEFINE k == now - TTL - 2 * BuildTicks
  <2>1. /\ now \in Nat /\ TTL \in Nat /\ BuildTicks \in Nat /\ now <= MaxTime
        /\ MaxTime \in Nat /\ asOf \in [0 .. MaxTime -> Nat]
        /\ task[r].since \in Nat /\ task[r].index \in Nat
    BY TicksAssumption DEF TypeInv, TypeOK, Task, Threads
  <2>2. now <= task[r].since + BuildTicks
    BY DEF AgeInv, GetsBounded, At
  <2>3. k \in 0 .. now /\ k + TTL + BuildTicks <= task[r].since /\ asOf[k] \in Nat
    BY <2>1, <2>2
  <2> HIDE DEF k
  <2>4. asOf[k] <= task[r].index
    BY <2>3 DEF AgeInv, AnswersSee
  <2>5. QED
    BY <2>1, <2>3, <2>4 DEF k
<1>4. QED
  BY <1>1, <1>2, <1>3, PTL DEF Spec

=============================================================================
