----------------------------- MODULE Rendezvous -----------------------------
(***************************************************************************)
(* What a barrier promises, with no counter in it: a fixed set of threads  *)
(* meets again and again, and nobody leaves meeting r before everybody has *)
(* come to meeting r.  Barrier.tla shows that ggml_barrier keeps it.       *)
(***************************************************************************)
EXTENDS Naturals

CONSTANTS Threads,    \* the threads that meet
          MaxRounds   \* bound: meetings a thread goes to

VARIABLES arrived,    \* arrived[t]: meetings t has come to
          crossed     \* crossed[t]: meetings t has left

vars == <<arrived, crossed>>

Init == /\ arrived = [t \in Threads |-> 0]
        /\ crossed = [t \in Threads |-> 0]

Arrive(t) == /\ arrived[t] = crossed[t]
             /\ arrived[t] < MaxRounds
             /\ arrived' = [arrived EXCEPT ![t] = @ + 1]
             /\ UNCHANGED crossed

Cross(t) == /\ crossed[t] < arrived[t]
            /\ \A u \in Threads : crossed[t] < arrived[u]
            /\ crossed' = [crossed EXCEPT ![t] = @ + 1]
            /\ UNCHANGED arrived

Next == \E t \in Threads : Arrive(t) \/ Cross(t)

SafeSpec == Init /\ [][Next]_vars

Spec == SafeSpec /\ \A t \in Threads : WF_vars(Cross(t))

=============================================================================
