------------------------------ MODULE Barrier ------------------------------
(***************************************************************************)
(* ggml_barrier of ggml-cpu.c, in the build without OpenMP: the threads of *)
(* one graph count themselves in on n_barrier; the last one resets the     *)
(* counter and bumps n_barrier_passed, on which the others spin.  Every    *)
(* atomic operation of the C code is a step of its own, and the steps of   *)
(* the threads interleave in any order (sequential consistency: the memory *)
(* orders of the C code are not modelled).                                 *)
(***************************************************************************)
EXTENDS Naturals, FiniteSets

CONSTANTS NThreads,   \* n_threads_cur, the same for every call here; a lone
                      \* thread returns at once (see Threadpool.tla)
          MaxRounds,  \* bound: calls of ggml_barrier each thread makes
          Wrap        \* n_barrier_passed counts modulo this (2^32 in C)

ASSUME BarrierAssumption == /\ NThreads \in Nat /\ NThreads > 1
                            /\ MaxRounds \in Nat
                            /\ Wrap \in Nat /\ Wrap > 1

VARIABLES n_barrier,         \* threads counted in at the current barrier
          n_barrier_passed,  \* barriers that have opened, modulo Wrap
          pc,                \* pc[t]: the next step of thread t
          seen,              \* seen[t]: the local n_passed of thread t
          arrived, crossed   \* history: calls entered, calls returned from

vars == <<n_barrier, n_barrier_passed, pc, seen, arrived, crossed>>

Threads == 0 .. NThreads - 1

Bump(p) == IF p + 1 = Wrap THEN 0 ELSE p + 1

Init == /\ n_barrier = 0
        /\ n_barrier_passed = 0
        /\ pc = [t \in Threads |-> "out"]
        /\ seen = [t \in Threads |-> 0]
        /\ arrived = [t \in Threads |-> 0]
        /\ crossed = [t \in Threads |-> 0]

Goto(t, l) == pc' = [pc EXCEPT ![t] = l]

Return(t) == /\ Goto(t, "out")
             /\ crossed' = [crossed EXCEPT ![t] = @ + 1]

Call(t) == /\ pc[t] = "out"
           /\ arrived[t] < MaxRounds
           /\ Goto(t, "load")
           /\ arrived' = [arrived EXCEPT ![t] = @ + 1]
           /\ UNCHANGED <<n_barrier, n_barrier_passed, seen, crossed>>

\* Mutant: the thread keeps the value it loaded for an earlier barrier.
LoadCached(t) == /\ pc[t] = "load"
                 /\ Goto(t, "enter")
                 /\ UNCHANGED <<n_barrier, n_barrier_passed, seen, arrived, crossed>>

Load(t) == /\ pc[t] = "load"
           /\ seen' = [seen EXCEPT ![t] = n_barrier_passed]
           /\ Goto(t, "enter")
           /\ UNCHANGED <<n_barrier, n_barrier_passed, arrived, crossed>>

\* Mutant: the test for the last thread is off by one.
EnterOffByOne(t) ==
    /\ pc[t] = "enter"
    /\ n_barrier' = n_barrier + 1
    /\ Goto(t, IF n_barrier >= NThreads - 2 THEN "reset" ELSE "spin")
    /\ UNCHANGED <<n_barrier_passed, seen, arrived, crossed>>

\* The fetch_add: the thread that reads NThreads - 1 is the last one.
Enter(t) == /\ pc[t] = "enter"
            /\ n_barrier' = n_barrier + 1
            /\ Goto(t, IF n_barrier = NThreads - 1 THEN "reset" ELSE "spin")
            /\ UNCHANGED <<n_barrier_passed, seen, arrived, crossed>>

\* Mutant: the last thread forgets to reset the counter.
ResetDropped(t) == /\ pc[t] = "reset"
                   /\ Goto(t, "release")
                   /\ UNCHANGED <<n_barrier, n_barrier_passed, seen, arrived, crossed>>

Reset(t) == /\ pc[t] = "reset"
            /\ n_barrier' = 0
            /\ Goto(t, "release")
            /\ UNCHANGED <<n_barrier_passed, seen, arrived, crossed>>

Release(t) == /\ pc[t] = "release"
              /\ n_barrier_passed' = Bump(n_barrier_passed)
              /\ Return(t)
              /\ UNCHANGED <<n_barrier, seen, arrived>>

\* Mutant: wait for the counter to be reset instead of for n_barrier_passed.
SpinOnCounter(t) ==
    /\ pc[t] = "spin"
    /\ n_barrier = 0
    /\ Return(t)
    /\ UNCHANGED <<n_barrier, n_barrier_passed, seen, arrived>>

\* The read that ends the spin loop; the reads before it change nothing.
Spin(t) == /\ pc[t] = "spin"
           /\ n_barrier_passed # seen[t]
           /\ Return(t)
           /\ UNCHANGED <<n_barrier, n_barrier_passed, seen, arrived>>

Inside(t) == Load(t) \/ Enter(t) \/ Reset(t) \/ Release(t) \/ Spin(t)

Finished == /\ \A t \in Threads : pc[t] = "out" /\ arrived[t] = MaxRounds
            /\ UNCHANGED vars

Next == \/ \E t \in Threads : Call(t) \/ Inside(t)
        \/ Finished

SafeSpec == Init /\ [][Next]_vars

\* A running thread is not suspended for ever, inside the barrier or before
\* its next call (ggml_graph_compute_thread always reaches its next barrier).
Spec == /\ SafeSpec
        /\ \A t \in Threads : WF_vars(Inside(t)) /\ WF_vars(Call(t))

-----------------------------------------------------------------------------

Labels == {"out", "load", "enter", "reset", "release", "spin"}

TypeOK == /\ n_barrier \in 0 .. NThreads
          /\ n_barrier_passed \in 0 .. Wrap - 1
          /\ pc \in [Threads -> Labels]
          /\ seen \in [Threads -> 0 .. Wrap - 1]
          /\ arrived \in [Threads -> Nat]
          /\ crossed \in [Threads -> Nat]

\* The parts of the inductive invariant.  A thread in "spin" has been let go
\* as soon as n_barrier_passed differs from what it saw, although it may not
\* have looked yet.
LetGo(t) == pc[t] = "spin" /\ seen[t] # n_barrier_passed
Waiters == {t \in Threads : pc[t] = "spin" /\ seen[t] = n_barrier_passed}
Last(t) == pc[t] \in {"reset", "release"}
Done(t) == IF LetGo(t) THEN crossed[t] + 1 ELSE crossed[t]

\* Every thread is inside at most one call.
CallsNest == \A t \in Threads :
    arrived[t] = IF pc[t] = "out" THEN crossed[t] ELSE crossed[t] + 1

\* All threads have been let out of the same number of barriers.
SameDone == \A t, u \in Threads : Done(t) = Done(u)

\* Between its load and its fetch_add no barrier can open.
FreshLoad == \A t \in Threads :
    pc[t] = "enter" => seen[t] = n_barrier_passed

\* While the last thread resets and releases, all others wait.
LastAlone == \A t \in Threads : Last(t) => Threads \ {t} = Waiters

CounterAtLast == \A t \in Threads :
    /\ pc[t] = "reset"   => n_barrier = NThreads
    /\ pc[t] = "release" => n_barrier = 0

CounterCounts ==
    (\A t \in Threads : ~ Last(t)) => n_barrier = Cardinality(Waiters)

IndInv == /\ TypeOK
          /\ CallsNest
          /\ SameDone
          /\ FreshLoad
          /\ LastAlone
          /\ CounterAtLast
          /\ CounterCounts

\* The counter both tells the last thread and is reused by the next barrier,
\* which early threads may enter while late ones still spin in this one
\* (ggml_barrier): no thread returns from its r-th call before every thread
\* has made its r-th call, and none is two barriers ahead of another.
NobodyLeavesEarly == \A t, u \in Threads : crossed[t] <= arrived[u]

\* While one thread is still inside the r-th barrier (it may not have seen the
\* release yet) another can have left at most the r-th: n_barrier_passed moves
\* by at most one under a spinning thread, so that its wrap-around can never
\* show the spinner the value it saw.
NoLapping == \A t, u \in Threads : crossed[u] <= crossed[t] + 1

\* ggml_barrier implements a rendezvous.
Abstract == INSTANCE Rendezvous
Implements == Abstract!Spec
ImplementsSafe == Abstract!SafeSpec

\* Once all threads call it, ggml_barrier returns in every one of them,
\* including the spinner overtaken by threads already in the next call.
BarrierReturns == \A t \in Threads : pc[t] # "out" ~> pc[t] = "out"

=============================================================================
