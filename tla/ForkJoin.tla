------------------------------ MODULE ForkJoin ------------------------------
(***************************************************************************)
(* What ggml_graph_compute promises its caller, with no worker scheduling  *)
(* in it: each call runs the nodes of one graph in order; every one of the *)
(* requested threads does its share of a node exactly once, and only when  *)
(* all shares of the node before are done; the call returns when all nodes *)
(* up to the end, or up to an abort, are done.                             *)
(***************************************************************************)
EXTENDS Integers

CONSTANTS N,        \* threads of the pool; thread 0 is the caller
          NNodes    \* nodes of a graph

VARIABLES busy,     \* a call is running
          active,   \* the threads of the running call
          cut,      \* nodes the running call is to run
          work      \* work[k]: threads that have done their share of node k

vars == <<busy, active, cut, work>>

Nodes == 0 .. NNodes - 1
NoWork == [k \in Nodes |-> {}]

Init == /\ busy = FALSE
        /\ active = 0 .. N - 1
        /\ cut = NNodes
        /\ work = NoWork

Start(n) == /\ ~ busy
            /\ busy' = TRUE
            /\ active' = 0 .. n - 1
            /\ cut' = NNodes
            /\ work' = NoWork

Work(t, k) == /\ busy /\ t \in active
              /\ k < cut /\ t \notin work[k]
              /\ \A j \in 0 .. k - 1 : work[j] = active
              /\ work' = [work EXCEPT ![k] = @ \cup {t}]
              \* only the caller asks whether to abort, after its share
              /\ \/ cut' = cut
                 \/ t = 0 /\ cut' = k + 1
              /\ UNCHANGED <<busy, active>>

Return == /\ busy
          /\ \A k \in 0 .. cut - 1 : work[k] = active
          /\ busy' = FALSE
          /\ cut' = NNodes
          /\ UNCHANGED <<active, work>>

Next == \/ \E n \in 1 .. N : Start(n)
        \/ \E t \in active, k \in Nodes : Work(t, k)
        \/ Return

Spec == Init /\ [][Next]_vars

=============================================================================
