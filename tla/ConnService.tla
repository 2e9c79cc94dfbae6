----------------------------- MODULE ConnService -----------------------------
(***************************************************************************)
(* What db.conn() promises its callers: at most Limit of them are served   *)
(* at a time, a caller waits while there is no room, and it is refused     *)
(* (DBBusyError) only while Limit others are being served.                 *)
(***************************************************************************)
EXTENDS Naturals, FiniteSets

CONSTANTS Clients, Limit

VARIABLES waiting, served

servicevars == <<waiting, served>>

ServiceInit == waiting = {} /\ served = {}

Ask(c) == /\ c \notin waiting \cup served
          /\ waiting' = waiting \cup {c}
          /\ UNCHANGED served

Grant(c) == /\ c \in waiting
            /\ Cardinality(served) < Limit
            /\ waiting' = waiting \ {c}
            /\ served' = served \cup {c}

Refuse(c) == /\ c \in waiting
             /\ Cardinality(served) = Limit
             /\ waiting' = waiting \ {c}
             /\ UNCHANGED served

Leave(c) == /\ c \in served
            /\ served' = served \ {c}
            /\ UNCHANGED waiting

ServiceNext == \E c \in Clients : Ask(c) \/ Grant(c) \/ Refuse(c) \/ Leave(c)

ServiceSpec == ServiceInit /\ [][ServiceNext]_servicevars

=============================================================================
