------------------------------ MODULE Capacity ------------------------------
(***************************************************************************)
(* What limits the work of one process: the connection slots around the    *)
(* psycopg2 pool (db.conn) and the permits of the frame assist             *)
(* (_INFER_SEMAPHORE).  A client is a worker thread of the anyio pool or   *)
(* the event loop, on which the async handlers run and block: it makes one *)
(* database or model call after the other and may fail in any of them.     *)
(***************************************************************************)
EXTENDS Naturals, FiniteSets

CONSTANTS Workers,   \* threads of the anyio pool, READER_THREADS of them
          Loop,      \* the event loop, with whatever async handler it runs
          MaxConn,   \* DB_MAX_CONN
          Permits    \* of _INFER_SEMAPHORE

ASSUME CapacityAssumption ==
  /\ MaxConn \in Nat \ {0} /\ Permits \in Nat \ {0}
  /\ Loop \notin Workers /\ IsFiniteSet(Workers)

VARIABLES pool,     \* the psycopg2 pool exists
          slots,    \* value of _slots
          used,     \* clients that have a connection out of the pool
          permits,  \* value of _INFER_SEMAPHORE
          pc        \* where each client is

vars == <<pool, slots, used, permits, pc>>

Clients == Workers \cup {Loop}

Init == /\ pool \in BOOLEAN      \* lifespan: "db init deferred" when it fails
        /\ slots = MaxConn
        /\ used = {}
        /\ permits = Permits
        /\ pc = [t \in Clients |-> "idle"]

Goes(t, from, to) == pc[t] = from /\ pc' = [pc EXCEPT ![t] = to]

\* A call returned, or raised: the handler goes on (a few catch) or has ended
Returns(t, from) == Goes(t, from, "serving") \/ Goes(t, from, "idle")

Request(t) == Goes(t, "idle", "serving") /\ UNCHANGED <<pool, slots, used, permits>>

Respond(t) == Goes(t, "serving", "idle") /\ UNCHANGED <<pool, slots, used, permits>>

(***************************************************************************)
(* db.conn                                                                 *)
(***************************************************************************)

\* init_db makes the pool on first use
EnterConn(t) == /\ Goes(t, "serving", "acquire")
                /\ pool' = TRUE
                /\ UNCHANGED <<slots, used, permits>>

\* The pool's first connection is refused, before a slot is asked for
EnterConnFails(t) == /\ ~pool
                     /\ Goes(t, "serving", "idle")
                     /\ UNCHANGED <<pool, slots, used, permits>>

\* Mutant: the semaphore does not stop at zero
AcquireSlotUnguarded(t) == /\ Goes(t, "acquire", "get")
                           /\ slots' = slots - 1
                           /\ UNCHANGED <<pool, used, permits>>

AcquireSlot(t) == /\ slots > 0
                  /\ Goes(t, "acquire", "get")
                  /\ slots' = slots - 1
                  /\ UNCHANGED <<pool, used, permits>>

\* Mutant: acquire without a timeout
BusyNever(t) == FALSE /\ UNCHANGED vars

\* db_acquire_timeout passed without a slot: DBBusyError
Busy(t) == /\ slots = 0
           /\ Returns(t, "acquire")
           /\ UNCHANGED <<pool, slots, used, permits>>

\* getconn hands out an idle connection or opens one
GetConn(t) == /\ Cardinality(used) < MaxConn
              /\ Goes(t, "get", "query")
              /\ used' = used \cup {t}
              /\ UNCHANGED <<pool, slots, permits>>

\* Mutant: the slot is not given back
GetConnFailsKeepingSlot(t) == Returns(t, "get") /\ UNCHANGED <<pool, slots, used, permits>>

\* getconn raises: PoolError at maxconn, or the server refuses a connection
GetConnFails(t) == /\ Returns(t, "get")
                   /\ slots' = slots + 1
                   /\ UNCHANGED <<pool, used, permits>>

\* The statements and the commit, or an exception and the rollback
RunQuery(t) == Goes(t, "query", "put") /\ UNCHANGED <<pool, slots, used, permits>>

\* Mutant: the connection is not put back
PutConnForgotten(t) == Goes(t, "put", "release") /\ UNCHANGED <<pool, slots, used, permits>>

PutConn(t) == /\ Goes(t, "put", "release")
              /\ used' = used \ {t}
              /\ UNCHANGED <<pool, slots, permits>>

ReleaseSlot(t) == /\ Returns(t, "release")
                  /\ slots' = slots + 1
                  /\ UNCHANGED <<pool, used, permits>>

(***************************************************************************)
(* with _INFER_SEMAPHORE: engine.model.embed(...), in detect_faces and     *)
(* attach_frame_face on the event loop, in _render_sample_crop on a worker *)
(***************************************************************************)

AskPermit(t) == Goes(t, "serving", "gate") /\ UNCHANGED <<pool, slots, used, permits>>

TakePermit(t) == /\ permits > 0
                 /\ Goes(t, "gate", "embed")
                 /\ permits' = permits - 1
                 /\ UNCHANGED <<pool, slots, used>>

\* Mutant: the permit is not given back when embed raises
GivePermitUnlessRaised(t) ==
  /\ \/ Goes(t, "embed", "serving") /\ permits' = permits + 1
     \/ Goes(t, "embed", "idle") /\ permits' = permits
  /\ UNCHANGED <<pool, slots, used>>

GivePermit(t) == /\ Returns(t, "embed")
                 /\ permits' = permits + 1
                 /\ UNCHANGED <<pool, slots, used>>

\* The next step of a call that was made
Proceed(t) ==
  \/ AcquireSlot(t) \/ Busy(t) \/ GetConn(t) \/ GetConnFails(t) \/ RunQuery(t)
  \/ PutConn(t) \/ ReleaseSlot(t) \/ TakePermit(t) \/ GivePermit(t)

Next == \E t \in Clients :
  \/ Request(t) \/ Respond(t) \/ EnterConn(t) \/ EnterConnFails(t) \/ AskPermit(t)
  \/ Proceed(t)

\* A call that can go on does: queries and embeddings end, timeouts expire
Spec == Init /\ [][Next]_vars /\ \A t \in Clients : WF_vars(Proceed(t))

Places == {"idle", "serving", "acquire", "get", "query", "put", "release", "gate", "embed"}

\* Clients between acquire and release
InConn == {t \in Clients : pc[t] \in {"get", "query", "put", "release"}}

\* Counters stay in the range of their semaphore (a BoundedSemaphore raises
\* above it), and only a client at its statements has a connection.
TypeOK == /\ pool \in BOOLEAN
          /\ slots \in 0 .. MaxConn
          /\ permits \in 0 .. Permits
          /\ used \subseteq Clients
          /\ pc \in [Clients -> Places]

\* No slot is lost and none is given back twice, whichever of the calls inside
\* conn() raises: a lost one would be missing until the process restarts.
SlotsConserved == slots + Cardinality(InConn) = MaxConn

\* getconn is never called on an exhausted pool, so PoolError is not how a
\* burst ends: a slot is free only once its connection is back.
PoolNeverExhausted == \A t \in Clients : pc[t] = "get" => Cardinality(used) < MaxConn

\* conn() implements its contract: it waits, it serves at most MaxConn, and
\* it answers "database busy" only while that many are being served.
Service == INSTANCE ConnService
             WITH Limit   <- MaxConn,
                  waiting <- {t \in Clients : pc[t] = "acquire"},
                  served  <- InConn

ServiceKept == Service!ServiceSpec

\* A client that waits for a slot gets it or its 503, also when others keep
\* taking every slot that comes free.
WaitEnds == \A t \in Clients : pc[t] = "acquire" ~> pc[t] # "acquire"

\* Once the workers ask for no more permits, the event loop does not stay
\* blocked in an async handler: every permit comes back, whatever raised.
LoopComesBack ==
  <>[](\A w \in Workers : pc[w] # "gate") => (pc[Loop] = "gate" ~> pc[Loop] # "gate")

=============================================================================
