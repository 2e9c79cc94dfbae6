-------------------------- MODULE MCSuggestionIndex --------------------------
(***************************************************************************)
(* Small instances of SuggestionIndex for TLC.                             *)
(***************************************************************************)
EXTENDS SuggestionIndex, TLC

CONSTANTS r1, r2, w1, w2, p1, p2

\* One process: an event loop and its worker threads
OneProcess == r1 :> p1 @@ r2 :> p1 @@ w1 :> p1 @@ w2 :> p1

\* Every writer and every event loop in a process of its own
TwoProcesses == r1 :> p1 @@ w1 :> p1 @@ r2 :> p2 @@ w2 :> p2

HomeOne == [th \in Threads |-> OneProcess[th]]
HomeTwo == [th \in Threads |-> TwoProcesses[th]]

=============================================================================
