--------------------------- MODULE CapacityProofs ---------------------------
(***************************************************************************)
(* For every number of clients, slots and permits: slots are conserved,    *)
(* the pool is never asked for more than it has, and conn() implements     *)
(* its contract.                                                           *)
(***************************************************************************)
EXTENDS Capacity, FiniteSetTheorems, TLAPS

\* Who has a permit
InGate == {t \in Clients : pc[t] = "embed"}

PermitsConserved == permits + Cardinality(InGate) = Permits

\* A connection is out for a client that is at its statements, or about to
\* put it back
UsedByQueries == used \subseteq {t \in Clients : pc[t] \in {"query", "put"}}

CapacityInv == TypeOK /\ SlotsConserved /\ PermitsConserved /\ UsedByQueries

\* The clients are finitely many, and so are all sets of them.
LEMMA ClientsFinite == \A S \in SUBSET Clients :
                         /\ IsFiniteSet(S)
                         /\ Cardinality(S) \in Nat
<1>1. IsFiniteSet(Clients)
  BY CapacityAssumption, FS_AddElement DEF Clients
<1>2. QED
  BY <1>1, FS_Subset, FS_CardinalityType

\* A client that enters a set of places makes it one larger.
LEMMA OneMore ==
  ASSUME NEW S \in SUBSET Clients, NEW t \in Clients \ S
  PROVE  Cardinality(S \cup {t}) = Cardinality(S) + 1
BY ClientsFinite, FS_AddElement

\* A client that leaves a set of places makes it one smaller.
LEMMA OneLess ==
  ASSUME NEW S \in SUBSET Clients, NEW t \in S
  PROVE  Cardinality(S) = Cardinality(S \ {t}) + 1
BY ClientsFinite, FS_RemoveElement

\* What a step of one client does to the set of those in conn().
LEMMA InConnMoves ==
  ASSUME TypeOK, NEW t \in Clients, NEW from, NEW to \in Places, Goes(t, from, to)
  PROVE  LET In == {"get", "query", "put", "release"} IN
         /\ from \in In /\ to \in In => InConn' = InConn
         /\ from \notin In /\ to \notin In => InConn' = InConn
         /\ from \notin In /\ to \in In => t \notin InConn /\ InConn' = InConn \cup {t}
         /\ from \in In /\ to \notin In => t \in InConn /\ InConn' = InConn \ {t}
BY DEF TypeOK, InConn, Goes, Places

\* What a step of one client does to the set of those that have a permit.
LEMMA InGateMoves ==
  ASSUME TypeOK, NEW t \in Clients, NEW from, NEW to \in Places, Goes(t, from, to)
  PROVE  /\ from # "embed" /\ to # "embed" => InGate' = InGate
         /\ from # "embed" /\ to = "embed" => t \notin InGate /\ InGate' = InGate \cup {t}
         /\ from = "embed" /\ to # "embed" => t \in InGate /\ InGate' = InGate \ {t}
BY DEF TypeOK, InGate, Goes, Places

LEMMA InitCapacity == Init => CapacityInv
<1> SUFFICES ASSUME Init PROVE CapacityInv
  OBVIOUS
<1>1. TypeOK
  BY CapacityAssumption DEF Init, TypeOK, Places
<1>2. InConn = {} /\ InGate = {}
  BY DEF Init, InConn, InGate
<1>3. SlotsConserved /\ PermitsConserved
  BY <1>2, FS_EmptySet, CapacityAssumption DEF Init, SlotsConserved, PermitsConserved
<1>4. QED
  BY <1>1, <1>3 DEF CapacityInv, UsedByQueries, Init

LEMMA StepCapacity == CapacityInv /\ [Next]_vars => CapacityInv'
<1> SUFFICES ASSUME CapacityInv, [Next]_vars PROVE CapacityInv'
  OBVIOUS
<1> USE DEF CapacityInv
<1>0. /\ Cardinality(InConn) \in Nat /\ Cardinality(InGate) \in Nat
      /\ InConn \in SUBSET Clients /\ InGate \in SUBSET Clients
  BY ClientsFinite DEF InConn, InGate
<1>1. CASE UNCHANGED vars
  BY <1>1 DEF vars, TypeOK, SlotsConserved, PermitsConserved, UsedByQueries, InConn, InGate
<1>2. ASSUME NEW t \in Clients, NEW from \in Places, NEW to \in Places, Goes(t, from, to),
             pool' \in BOOLEAN, UNCHANGED <<slots, used, permits>>,
             from \in {"get", "query", "put", "release"}
               <=> to \in {"get", "query", "put", "release"},
             from # "embed", to # "embed", from = "query" => to = "put", from # "put"
      PROVE  CapacityInv'
  <2>1. InConn' = InConn /\ InGate' = InGate
    BY <1>2, InConnMoves, InGateMoves
  <2>2. TypeOK'
    BY <1>2 DEF TypeOK, Goes
  <2>3. UsedByQueries'
    BY <1>2 DEF UsedByQueries, Goes, TypeOK
  <2>4. QED
    BY <1>2, <2>1, <2>2, <2>3 DEF SlotsConserved, PermitsConserved
<1>3. ASSUME NEW t \in Clients, Request(t) \/ Respond(t) \/ EnterConn(t) \/ EnterConnFails(t)
                                \/ AskPermit(t) \/ Busy(t) \/ RunQuery(t)
      PROVE  CapacityInv'
  BY <1>2, <1>3 DEF Request, Respond, EnterConn, EnterConnFails, AskPermit, Busy, RunQuery,
                    Returns, Places, TypeOK
<1>4. ASSUME NEW t \in Clients, AcquireSlot(t) PROVE CapacityInv'
  <2>1. Goes(t, "acquire", "get")
    BY <1>4 DEF AcquireSlot
  <2>2. /\ t \notin InConn /\ InConn' = InConn \cup {t} /\ InGate' = InGate
    BY <2>1, InConnMoves, InGateMoves DEF Places
  <2>3. SlotsConserved' /\ PermitsConserved'
    BY <1>0, <1>4, <2>2, OneMore DEF AcquireSlot, SlotsConserved, PermitsConserved, TypeOK
  <2>4. TypeOK'
    BY <1>4, <2>1, CapacityAssumption DEF AcquireSlot, TypeOK, Goes, Places
  <2>5. UsedByQueries'
    BY <1>4, <2>1 DEF AcquireSlot, UsedByQueries, Goes, TypeOK
  <2>6. QED
    BY <2>3, <2>4, <2>5
<1>5. ASSUME NEW t \in Clients, GetConn(t) \/ PutConn(t) PROVE CapacityInv'
  <2>1. /\ InConn' = InConn /\ InGate' = InGate
    BY <1>5, InConnMoves, InGateMoves DEF GetConn, PutConn, Places
  <2>2. SlotsConserved' /\ PermitsConserved'
    BY <1>5, <2>1 DEF GetConn, PutConn, SlotsConserved, PermitsConserved
  <2>3. TypeOK' /\ UsedByQueries'
    BY <1>5 DEF GetConn, PutConn, TypeOK, Goes, Places, UsedByQueries
  <2>4. QED
    BY <2>2, <2>3
<1>6. ASSUME NEW t \in Clients, GetConnFails(t) \/ ReleaseSlot(t) PROVE CapacityInv'
  <2>1. PICK from \in {"get", "release"}, to \in {"serving", "idle"} :
          Goes(t, from, to) /\ slots' = slots + 1 /\ UNCHANGED <<pool, used, permits>>
    BY <1>6 DEF GetConnFails, ReleaseSlot, Returns
  <2>2. t \in InConn /\ InConn' = InConn \ {t} /\ InGate' = InGate
    BY <2>1, InConnMoves, InGateMoves DEF Places
  <2>3. SlotsConserved' /\ PermitsConserved'
    BY <1>0, <2>1, <2>2, OneLess, ClientsFinite DEF SlotsConserved, PermitsConserved, TypeOK
  <2>4. slots' \in 0 .. MaxConn
    <3>1. Cardinality(InConn \ {t}) \in Nat
      BY <1>0, ClientsFinite
    <3>2. QED
      BY <2>1, <2>2, <2>3, <3>1, CapacityAssumption DEF SlotsConserved, TypeOK
  <2>5. TypeOK' /\ UsedByQueries'
    BY <2>1, <2>4 DEF TypeOK, Goes, Places, UsedByQueries
  <2>6. QED
    BY <2>3, <2>5
<1>7. ASSUME NEW t \in Clients, TakePermit(t) PROVE CapacityInv'
  <2>1. Goes(t, "gate", "embed")
    BY <1>7 DEF TakePermit
  <2>2. /\ t \notin InGate /\ InGate' = InGate \cup {t} /\ InConn' = InConn
    BY <2>1, InConnMoves, InGateMoves DEF Places
  <2>3. SlotsConserved' /\ PermitsConserved'
    BY <1>0, <1>7, <2>2, OneMore DEF TakePermit, SlotsConserved, PermitsConserved, TypeOK
  <2>4. TypeOK' /\ UsedByQueries'
    BY <1>7, <2>1, CapacityAssumption DEF TakePermit, TypeOK, Goes, Places, UsedByQueries
  <2>5. QED
    BY <2>3, <2>4
<1>8. ASSUME NEW t \in Clients, GivePermit(t) PROVE CapacityInv'
  <2>1. PICK to \in {"serving", "idle"} : Goes(t, "embed", to)
    BY <1>8 DEF GivePermit, Returns
  <2>2. t \in InGate /\ InGate' = InGate \ {t} /\ InConn' = InConn
    BY <2>1, InConnMoves, InGateMoves DEF Places
  <2>3. SlotsConserved' /\ PermitsConserved'
    BY <1>0, <1>8, <2>2, OneLess, ClientsFinite
       DEF GivePermit, SlotsConserved, PermitsConserved, TypeOK
  <2>4. permits' \in 0 .. Permits
    <3>1. Cardinality(InGate \ {t}) \in Nat
      BY <1>0, ClientsFinite
    <3>2. QED
      BY <1>8, <2>2, <2>3, <3>1, CapacityAssumption DEF GivePermit, PermitsConserved, TypeOK
  <2>5. TypeOK' /\ UsedByQueries'
    BY <1>8, <2>1, <2>4 DEF GivePermit, TypeOK, Goes, Places, UsedByQueries
  <2>6. QED
    BY <2>3, <2>5
<1>9. QED
  BY <1>1, <1>3, <1>4, <1>5, <1>6, <1>7, <1>8 DEF Next, Proceed

LEMMA CapacityKept == Spec => []CapacityInv
BY InitCapacity, StepCapacity, PTL DEF Spec

\* The semaphores never leave their range, and connections are where the
\* code says they are.
THEOREM CapacityTyped == Spec => []TypeOK
BY CapacityKept, PTL DEF CapacityInv

\* Whatever fails inside conn(), no slot is lost or given back twice.
THEOREM SlotsStayConserved == Spec => []SlotsConserved
BY CapacityKept, PTL DEF CapacityInv

\* Whoever reaches getconn holds a slot that no connection in use belongs to.
LEMMA RoomInPool == CapacityInv => PoolNeverExhausted
<1> SUFFICES ASSUME CapacityInv, NEW t \in Clients, pc[t] = "get"
             PROVE  Cardinality(used) < MaxConn
  BY DEF PoolNeverExhausted
<1>1. t \in InConn /\ used \subseteq InConn \ {t} /\ InConn \in SUBSET Clients
  BY DEF CapacityInv, UsedByQueries, InConn
<1>2. Cardinality(used) <= Cardinality(InConn \ {t})
  BY <1>1, ClientsFinite, FS_Subset
<1>3. Cardinality(InConn) = Cardinality(InConn \ {t}) + 1
  BY <1>1, OneLess
<1>4. Cardinality(used) \in Nat /\ Cardinality(InConn \ {t}) \in Nat
  BY <1>1, ClientsFinite
<1>5. QED
  BY <1>2, <1>3, <1>4, CapacityAssumption DEF CapacityInv, SlotsConserved, TypeOK

\* psycopg2's pool raises PoolError when it is exhausted; the semaphore in
\* front of it keeps that from ever happening.
THEOREM PoolHasRoom == Spec => []PoolNeverExhausted
BY CapacityKept, RoomInPool, PTL

Waiting == {t \in Clients : pc[t] = "acquire"}

\* The instance counts as this module does.
LEMMA ServiceCounts == \A S : Service!Cardinality(S) = Cardinality(S)
BY DEF Service!Cardinality, Cardinality

\* Every step of a client is a step of the contract, or invisible to it.
LEMMA StepServes == CapacityInv /\ [Next]_vars => [Service!ServiceNext]_(Service!servicevars)
<1> SUFFICES ASSUME CapacityInv, [Next]_vars
             PROVE  Service!ServiceNext \/ (InConn' = InConn /\ Waiting' = Waiting)
  BY DEF Service!servicevars, Waiting
<1> USE DEF CapacityInv
<1>1. CASE UNCHANGED vars
  BY <1>1 DEF vars, InConn, Waiting
<1>2. ASSUME NEW t \in Clients,
             Request(t) \/ Respond(t) \/ EnterConnFails(t) \/ AskPermit(t) \/ RunQuery(t)
             \/ GetConn(t) \/ PutConn(t) \/ TakePermit(t) \/ GivePermit(t)
      PROVE  InConn' = InConn /\ Waiting' = Waiting
  BY <1>2 DEF Request, Respond, EnterConnFails, AskPermit, RunQuery, GetConn, PutConn,
              TakePermit, GivePermit, Returns, Goes, InConn, Waiting, TypeOK
<1>3. ASSUME NEW t \in Clients, EnterConn(t) PROVE Service!Ask(t)
  BY <1>3 DEF EnterConn, Goes, Service!Ask, InConn, TypeOK
<1>4. ASSUME NEW t \in Clients, AcquireSlot(t) PROVE Service!Grant(t)
  <2>1. Cardinality(InConn) < MaxConn
    BY <1>4, ClientsFinite DEF AcquireSlot, SlotsConserved, TypeOK, InConn
  <2>2. /\ t \in Waiting /\ Waiting' = Waiting \ {t}
        /\ InConn' = InConn \cup {t}
    BY <1>4 DEF AcquireSlot, Goes, InConn, Waiting, TypeOK
  <2>3. QED
    BY <2>1, <2>2, ServiceCounts DEF Service!Grant, Waiting
<1>5. ASSUME NEW t \in Clients, Busy(t) PROVE Service!Refuse(t)
  <2>1. Cardinality(InConn) = MaxConn
    BY <1>5, ClientsFinite DEF Busy, SlotsConserved, InConn
  <2>2. /\ t \in Waiting /\ Waiting' = Waiting \ {t}
        /\ InConn' = InConn
    BY <1>5 DEF Busy, Returns, Goes, InConn, Waiting, TypeOK
  <2>3. QED
    BY <2>1, <2>2, ServiceCounts DEF Service!Refuse, Waiting
<1>6. ASSUME NEW t \in Clients, GetConnFails(t) \/ ReleaseSlot(t) PROVE Service!Leave(t)
  BY <1>6 DEF GetConnFails, ReleaseSlot, Returns, Goes, Service!Leave, InConn, TypeOK
<1>7. QED
  BY <1>1, <1>2, <1>3, <1>4, <1>5, <1>6 DEF Next, Proceed, Service!ServiceNext

\* conn() implements its contract for every number of clients and slots: at
\* most MaxConn are served, and "database busy" is the truth.
THEOREM ConnServes == Spec => ServiceKept
<1>1. Init => Service!ServiceInit
  BY DEF Init, Service!ServiceInit, InConn
<1>2. QED
  BY <1>1, CapacityKept, StepServes, PTL DEF Spec, ServiceKept, Service!ServiceSpec

=============================================================================
