----------------------------- MODULE Threadpool -----------------------------
(***************************************************************************)
(* The thread pool of ggml-cpu.c, in the build without OpenMP.  Thread 0   *)
(* is the caller: it computes graphs, pauses, resumes and frees the pool.  *)
(* The workers poll for a new graph without the mutex and, failing that,   *)
(* look again under the mutex and sleep on the condition variable.  Every  *)
(* read or write of a field that another thread may change outside the     *)
(* mutex is a step of its own; what a worker does under the mutex is one   *)
(* step, because every writer holds the mutex too.                         *)
(***************************************************************************)
EXTENDS Integers, FiniteSets

CONSTANTS N,              \* n_threads_max
          NNodes,         \* nodes of every graph
          ThreadChoices,  \* the n_threads that plans ask for
          Growing,        \* may a graph use more threads than the one before?
          CanAbort,       \* is there an abort callback?
          MaxGraphs,      \* bound: calls of ggml_graph_compute
          MaxPauses       \* bound: calls of ggml_threadpool_pause

ASSUME PoolAssumption == /\ N \in Nat \ {0} /\ NNodes \in Nat \ {0}
                         /\ ThreadChoices \subseteq Nat \ {0}
                         /\ Growing \in BOOLEAN /\ CanAbort \in BOOLEAN
                         /\ MaxGraphs \in Nat /\ MaxPauses \in Nat

Threads == 0 .. N - 1
Workers == 1 .. N - 1
Nodes == 0 .. NNodes - 1

VARIABLES
    n_graph, n_threads_cur, n_barrier, n_barrier_passed, stop, pause,
    abort, ec,     \* -1 or the node to stop before; the status to return
    mutex,         \* held by the caller between two steps
    waiting,       \* the workers asleep in ggml_cond_wait
    last_graph,    \* last_graph[w]
    new_graph,     \* new_graph[w]: local of thread_ready
    pc, node,      \* next step; node_n, NNodes at the final barrier
    seen,          \* n_passed and n_threads, locals of ggml_barrier
    n_threads,
    nth,           \* params.nth
    plan,          \* the n_threads of the current call
    pauses,        \* calls of pause so far
    work           \* history: work[k] = threads that have computed node k

pool == <<n_graph, n_threads_cur, stop, pause, mutex>>
params == <<abort, ec>>
counters == <<n_barrier, n_barrier_passed>>
local == <<node, seen, n_threads, nth>>
found == <<last_graph, new_graph>>
caller == <<plan, pauses>>
vars == <<pool, params, counters, local, found, caller, waiting, pc, work>>

Min2(a, b) == IF a < b THEN a ELSE b

\* ggml_threadpool_new: the pool may be created paused.
Init == /\ n_graph = 0 /\ n_threads_cur = N
        /\ n_barrier = 0 /\ n_barrier_passed = 0
        /\ stop = FALSE /\ pause \in BOOLEAN
        /\ abort = -1 /\ ec = "success"
        /\ mutex = FALSE /\ waiting = {}
        /\ last_graph = [w \in Workers |-> 0]
        /\ new_graph = [w \in Workers |-> 0]
        /\ pc = [t \in Threads |-> IF t = 0 THEN "idle" ELSE "loop"]
        /\ node = [t \in Threads |-> 0]
        /\ seen = [t \in Threads |-> 0]
        /\ n_threads = [t \in Threads |-> 0]
        /\ nth = [t \in Threads |-> 0]
        /\ plan = 1 /\ pauses = 0
        /\ work = [k \in Nodes |-> {}]

Goto(t, l) == pc' = [pc EXCEPT ![t] = l]

-----------------------------------------------------------------------------
(* ggml_graph_compute_thread, run by the caller and by the active workers. *)

\* Mutant: the work is divided by the size of the pool.
BeginMax(t) ==
    /\ pc[t] = "begin"
    /\ nth' = [nth EXCEPT ![t] = N]
    /\ node' = [node EXCEPT ![t] = 0]
    /\ Goto(t, "head")
    /\ UNCHANGED <<pool, params, counters, seen, n_threads, found, caller, waiting, work>>

\* Reads cgraph, cplan and n_threads_cur.
Begin(t) == /\ pc[t] = "begin"
            /\ nth' = [nth EXCEPT ![t] = n_threads_cur]
            /\ node' = [node EXCEPT ![t] = 0]
            /\ Goto(t, "head")
            /\ UNCHANGED <<pool, params, counters, seen, n_threads, found, caller, waiting, work>>

\* The condition of the for loop.
Head(t) == /\ pc[t] = "head"
           /\ IF node[t] < NNodes /\ abort # node[t]
              THEN Goto(t, "compute") /\ UNCHANGED node
              ELSE Goto(t, "load") /\ node' = [node EXCEPT ![t] = NNodes]
           /\ UNCHANGED <<pool, params, counters, seen, n_threads, nth, found, caller, waiting, work>>

\* Mutant: the abort takes effect at the node that was just computed.
ComputeAbortHere(t) ==
    /\ pc[t] = "compute"
    /\ work' = [work EXCEPT ![node[t]] = @ \cup {t}]
    /\ \/ UNCHANGED params
       \/ t = 0 /\ CanAbort /\ abort' = node[t] /\ ec' = "aborted"
    /\ node' = [node EXCEPT ![t] = @ + 1]
    /\ Goto(t, IF node[t] + 1 < NNodes THEN "load" ELSE "head")
    /\ UNCHANGED <<pool, counters, seen, n_threads, nth, found, caller, waiting>>

\* ggml_compute_forward, then the abort callback of the caller.
Compute(t) ==
    /\ pc[t] = "compute"
    /\ work' = [work EXCEPT ![node[t]] = @ \cup {t}]
    /\ \/ UNCHANGED params
       \/ t = 0 /\ CanAbort /\ abort' = node[t] + 1 /\ ec' = "aborted"
    /\ node' = [node EXCEPT ![t] = @ + 1]
    /\ Goto(t, IF node[t] + 1 < NNodes THEN "load" ELSE "head")
    /\ UNCHANGED <<pool, counters, seen, n_threads, nth, found, caller, waiting>>

\* Where ggml_barrier returns to; the final barrier ends the function.
BarrierReturn(t) ==
    Goto(t, IF node[t] < NNodes THEN "head" ELSE IF t = 0 THEN "return" ELSE "loop")

\* ggml_barrier: the single-thread exit, else the load of n_barrier_passed.
Load(t) == /\ pc[t] = "load"
           /\ n_threads' = [n_threads EXCEPT ![t] = n_threads_cur]
           /\ IF n_threads_cur = 1
              THEN BarrierReturn(t) /\ UNCHANGED seen
              ELSE Goto(t, "enter") /\ seen' = [seen EXCEPT ![t] = n_barrier_passed]
           /\ UNCHANGED <<pool, params, counters, node, nth, found, caller, waiting, work>>

\* Mutant: the test for the last thread is off by one.
EnterOffByOne(t) ==
    /\ pc[t] = "enter"
    /\ n_barrier' = n_barrier + 1
    /\ Goto(t, IF n_barrier >= n_threads[t] - 2 THEN "reset" ELSE "spin")
    /\ UNCHANGED <<pool, params, n_barrier_passed, local, found, caller, waiting, work>>

Enter(t) == /\ pc[t] = "enter"
            /\ n_barrier' = n_barrier + 1
            /\ Goto(t, IF n_barrier = n_threads[t] - 1 THEN "reset" ELSE "spin")
            /\ UNCHANGED <<pool, params, n_barrier_passed, local, found, caller, waiting, work>>

Reset(t) == /\ pc[t] = "reset"
            /\ n_barrier' = 0
            /\ Goto(t, "release")
            /\ UNCHANGED <<pool, params, n_barrier_passed, local, found, caller, waiting, work>>

Release(t) == /\ pc[t] = "release"
              /\ n_barrier_passed' = n_barrier_passed + 1
              /\ BarrierReturn(t)
              /\ UNCHANGED <<pool, params, n_barrier, local, found, caller, waiting, work>>

Spin(t) == /\ pc[t] = "spin"
           /\ n_barrier_passed # seen[t]
           /\ BarrierReturn(t)
           /\ UNCHANGED <<pool, params, counters, local, found, caller, waiting, work>>

ComputeThread(t) == \/ Begin(t) \/ Head(t)  \/ Compute(t) \/ Load(t)
                    \/ Enter(t) \/ Reset(t) \/ Release(t) \/ Spin(t)

-----------------------------------------------------------------------------
(* ggml_graph_compute_secondary_thread, run by the workers. *)

\* while (threadpool->pause)
PauseTest(w) == /\ pc[w] = "loop"
                /\ Goto(w, IF pause THEN "lockpause" ELSE "stoptest")
                /\ UNCHANGED <<pool, params, counters, local, found, caller, waiting, work>>

\* Under the mutex, sleep if still paused.
PauseWait(w) == /\ pc[w] = "lockpause" /\ ~ mutex
                /\ IF pause
                   THEN Goto(w, "paused") /\ waiting' = waiting \cup {w}
                   ELSE Goto(w, "loop") /\ UNCHANGED waiting
                /\ UNCHANGED <<pool, params, counters, local, found, caller, work>>

\* Woken, the worker takes the mutex back, frees it and tests pause again.
PauseWoken(w) == /\ pc[w] = "paused" /\ w \notin waiting /\ ~ mutex
                 /\ Goto(w, "loop")
                 /\ UNCHANGED <<pool, params, counters, local, found, caller, waiting, work>>

StopTest(w) == /\ pc[w] = "stoptest"
               /\ Goto(w, IF stop THEN "exited" ELSE "polltest")
               /\ UNCHANGED <<pool, params, counters, local, found, caller, waiting, work>>

\* poll_for_work does not poll for a worker outside n_threads_cur.
PollTest(w) == /\ pc[w] = "polltest"
               /\ Goto(w, IF w < n_threads_cur THEN "readstop" ELSE "lockwork")
               /\ UNCHANGED <<pool, params, counters, local, found, caller, waiting, work>>

\* thread_ready without the mutex: four reads, in this order.  With stop or
\* pause set the poll ends without work and thread_ready is asked again under
\* the mutex.
ReadStop(w) == /\ pc[w] = "readstop"
               /\ Goto(w, IF stop THEN "lockwork" ELSE "readpause")
               /\ UNCHANGED <<pool, params, counters, local, found, caller, waiting, work>>

ReadPause(w) == /\ pc[w] = "readpause"
                /\ Goto(w, IF pause THEN "lockwork" ELSE "readgraph")
                /\ UNCHANGED <<pool, params, counters, local, found, caller, waiting, work>>

\* Not ready: poll again, or give up after n_rounds.
PollAgain(w) == Goto(w, "readstop") \/ Goto(w, "lockwork")

ReadGraph(w) ==
    /\ pc[w] = "readgraph"
    /\ IF n_graph # last_graph[w]
       THEN Goto(w, "readactive") /\ new_graph' = [new_graph EXCEPT ![w] = n_graph]
       ELSE PollAgain(w) /\ UNCHANGED new_graph
    /\ UNCHANGED <<pool, params, counters, local, last_graph, caller, waiting, work>>

\* Mutant: the worker does not remember which graph it has joined.
ReadActiveForgets(w) ==
    /\ pc[w] = "readactive"
    /\ IF w < n_threads_cur THEN Goto(w, "begin") ELSE PollAgain(w)
    /\ UNCHANGED <<pool, params, counters, local, found, caller, waiting, work>>

\* pending = ggml_graph_compute_thread_active(state); a pending worker clears
\* pending again and computes.
ReadActive(w) ==
    /\ pc[w] = "readactive"
    /\ last_graph' = [last_graph EXCEPT ![w] = new_graph[w]]
    /\ IF w < n_threads_cur THEN Goto(w, "begin") ELSE PollAgain(w)
    /\ UNCHANGED <<pool, params, counters, local, new_graph, caller, waiting, work>>

\* thread_ready under the mutex: leave on stop or pause, compute, or sleep.
LockWork(w) ==
    /\ pc[w] = "lockwork" /\ w \notin waiting /\ ~ mutex
    /\ \/ /\ stop \/ pause
          /\ Goto(w, "loop")
          /\ UNCHANGED <<last_graph, waiting>>
       \/ /\ ~ (stop \/ pause)
          /\ last_graph' = [last_graph EXCEPT ![w] = n_graph]
          /\ IF n_graph # last_graph[w] /\ w < n_threads_cur
             THEN Goto(w, "begin") /\ UNCHANGED waiting
             ELSE waiting' = waiting \cup {w} /\ UNCHANGED pc
    /\ UNCHANGED <<pool, params, counters, local, new_graph, caller, work>>

WorkerStep(w) == \/ PauseTest(w) \/ PauseWait(w) \/ PauseWoken(w)
                 \/ StopTest(w)  \/ PollTest(w)
                 \/ ReadStop(w)  \/ ReadPause(w)
                 \/ ReadGraph(w) \/ ReadActive(w) \/ LockWork(w)

\* ggml_cond_wait may return without a broadcast.
SpuriousWake(w) ==
    /\ w \in waiting
    /\ waiting' = waiting \ {w}
    /\ UNCHANGED <<pool, params, counters, local, found, caller, pc, work>>

-----------------------------------------------------------------------------
(* The caller. *)

\* Mutant: the plan's n_threads is not clipped to the pool.
ComputeCallUnclipped(n) ==
    /\ pc[0] = "idle" /\ n_graph < MaxGraphs
    /\ Growing \/ Min2(n, N) <= n_threads_cur
    /\ plan' = n
    /\ abort' = -1 /\ ec' = "success"
    /\ Goto(0, "kick")
    /\ UNCHANGED <<pool, counters, local, found, pauses, waiting, work>>

\* Mutant: the status of the graph before is not reset.
ComputeCallKeepsStatus(n) ==
    /\ pc[0] = "idle" /\ n_graph < MaxGraphs
    /\ Growing \/ Min2(n, N) <= n_threads_cur
    /\ plan' = Min2(n, N)
    /\ abort' = -1 /\ UNCHANGED ec
    /\ Goto(0, "kick")
    /\ UNCHANGED <<pool, counters, local, found, pauses, waiting, work>>

\* ggml_graph_compute resets the parameters of the pool; a plan that asks for
\* more threads than the pool has gets them all.
ComputeCall(n) ==
    /\ pc[0] = "idle" /\ n_graph < MaxGraphs
    /\ Growing \/ Min2(n, N) <= n_threads_cur
    /\ plan' = Min2(n, N)
    /\ abort' = -1 /\ ec' = "success"
    /\ Goto(0, "kick")
    /\ UNCHANGED <<pool, counters, local, found, pauses, waiting, work>>

\* ggml_graph_compute_kickoff takes the mutex and stores n_threads_cur ...
KickThreads == /\ pc[0] = "kick" /\ ~ mutex
               /\ mutex' = TRUE
               /\ n_threads_cur' = plan
               /\ work' = [k \in Nodes |-> {}]
               /\ Goto(0, "kickgraph")
               /\ UNCHANGED <<n_graph, stop, pause, params, counters, local, found,
                              caller, waiting>>

\* ... then announces the graph ...
KickGraph == /\ pc[0] = "kickgraph"
             /\ n_graph' = n_graph + 1
             /\ Goto(0, "kickwake")
             /\ UNCHANGED <<n_threads_cur, stop, pause, mutex, params, counters, local,
                            found, caller, waiting, work>>

\* ... and resumes or wakes the workers.
KickWake == /\ pc[0] = "kickwake"
            /\ pause' = FALSE
            /\ waiting' = {}
            /\ mutex' = FALSE
            /\ Goto(0, "begin")
            /\ UNCHANGED <<n_graph, n_threads_cur, stop, params, counters, local, found,
                           caller, work>>

ComputeReturn == /\ pc[0] = "return"
                 /\ Goto(0, "idle")
                 /\ UNCHANGED <<pool, params, counters, local, found, caller, waiting, work>>

\* ggml_threadpool_pause and ggml_threadpool_resume, between graphs.
Pause == /\ pc[0] = "idle" /\ ~ mutex /\ ~ pause /\ pauses < MaxPauses
         /\ pause' = TRUE
         /\ waiting' = {}
         /\ pauses' = pauses + 1
         /\ UNCHANGED <<n_graph, n_threads_cur, stop, mutex, params, counters, local,
                        found, plan, pc, work>>

Resume == /\ pc[0] = "idle" /\ ~ mutex /\ pause
          /\ pause' = FALSE
          /\ waiting' = {}
          /\ UNCHANGED <<n_graph, n_threads_cur, stop, mutex, params, counters, local,
                         found, caller, pc, work>>

\* ggml_threadpool_free takes the mutex and sets stop ...
FreeCall == /\ pc[0] = "idle" /\ ~ mutex
            /\ mutex' = TRUE
            /\ stop' = TRUE
            /\ Goto(0, "freewake")
            /\ UNCHANGED <<n_graph, n_threads_cur, pause, params, counters, local, found,
                           caller, waiting, work>>

\* Mutant: free leaves pause set.
FreeWakePaused ==
    /\ pc[0] = "freewake"
    /\ waiting' = {}
    /\ mutex' = FALSE
    /\ Goto(0, "join")
    /\ UNCHANGED <<n_graph, n_threads_cur, stop, pause, params, counters, local,
                   found, caller, work>>

\* ... clears pause, wakes all workers ...
FreeWake == /\ pc[0] = "freewake"
            /\ pause' = FALSE
            /\ waiting' = {}
            /\ mutex' = FALSE
            /\ Goto(0, "join")
            /\ UNCHANGED <<n_graph, n_threads_cur, stop, params, counters, local, found,
                           caller, work>>

\* ... and joins them.
Join == /\ pc[0] = "join"
        /\ \A w \in Workers : pc[w] = "exited"
        /\ Goto(0, "freed")
        /\ UNCHANGED <<pool, params, counters, local, found, caller, waiting, work>>

CallerStep == \/ KickThreads \/ KickGraph \/ KickWake
              \/ ComputeReturn \/ FreeWake \/ Join

ApiCall == \/ \E n \in ThreadChoices : ComputeCall(n)
           \/ Pause \/ Resume \/ FreeCall

Freed == pc[0] = "freed" /\ UNCHANGED vars

Next == \/ CallerStep \/ ApiCall \/ Freed
        \/ \E t \in Threads : ComputeThread(t)
        \/ \E w \in Workers : WorkerStep(w) \/ SpuriousWake(w)

\* The operating system runs every runnable thread and lets a woken thread
\* have the mutex; it owes nobody a spurious wake-up, nor a call.
Fairness == /\ WF_vars(CallerStep)
            /\ WF_vars(ComputeThread(0))
            /\ \A w \in Workers : WF_vars(ComputeThread(w) \/ WorkerStep(w))

Spec == Init /\ [][Next]_vars /\ Fairness

-----------------------------------------------------------------------------

Active == 0 .. n_threads_cur - 1

ComputeLabels == {"begin", "head", "compute", "load", "enter", "reset", "release", "spin"}
WorkerLabels == ComputeLabels \cup
    {"loop", "lockpause", "paused", "stoptest", "polltest", "readstop", "readpause",
     "readgraph", "readactive", "lockwork", "exited"}
CallerLabels == ComputeLabels \cup
    {"idle", "kick", "kickgraph", "kickwake", "return", "freewake", "join", "freed"}

TypeOK ==
    /\ n_graph \in 0 .. MaxGraphs /\ n_threads_cur \in 1 .. N
    /\ n_barrier \in 0 .. N /\ n_barrier_passed \in Nat
    /\ stop \in BOOLEAN /\ pause \in BOOLEAN /\ mutex \in BOOLEAN
    /\ abort \in -1 .. NNodes /\ ec \in {"success", "aborted"}
    /\ waiting \subseteq Workers
    /\ last_graph \in [Workers -> 0 .. MaxGraphs]
    /\ new_graph \in [Workers -> 0 .. MaxGraphs]
    /\ pc[0] \in CallerLabels /\ \A w \in Workers : pc[w] \in WorkerLabels
    /\ DOMAIN pc = Threads
    /\ node \in [Threads -> 0 .. NNodes]
    /\ seen \in [Threads -> Nat]
    /\ n_threads \in [Threads -> 0 .. N] /\ nth \in [Threads -> 0 .. N]
    /\ plan \in 1 .. N /\ pauses \in 0 .. MaxPauses
    /\ work \in [Nodes -> SUBSET Threads]

\* What a worker may still be doing when no graph runs: waiting for the next
\* one, or about to notice that the last barrier has opened.
LeftLastBarrier(w) == /\ pc[w] = "spin"
                      /\ node[w] = NNodes
                      /\ seen[w] # n_barrier_passed

\* ggml_graph_compute writes cgraph, cplan, abort and ec without the mutex: "No
\* worker threads should be accessing the parameters below at this stage".  No
\* worker is anywhere in the node loop between two graphs.
NoWorkerAccess ==
    pc[0] \in {"idle", "kick"} =>
        \A w \in Workers : pc[w] \in ComputeLabels => LeftLastBarrier(w)

\* The counter of the barrier, shared by graphs with different numbers of
\* threads, is clear whenever a graph starts (kickoff changes n_threads_cur
\* while late workers may still spin).
BarrierClear == pc[0] \in {"idle", "kick", "kickgraph"} => n_barrier = 0

\* All threads of a graph divide its nodes by the same n_threads_cur, although
\* each reads it at its own time (params.nth).
SameNth == \A t \in Threads :
    pc[t] \in {"head", "compute", "load", "enter"} =>
        t \in Active /\ nth[t] = n_threads_cur

\* ggml_graph_compute implements the abstract fork and join: each node computed
\* once by each active thread, in order, all stopping at the same node on an
\* abort, and nothing left to compute when the call returns.
Busy == pc[0] \in ComputeLabels \cup {"kickgraph", "kickwake", "return"}

Abstract == INSTANCE ForkJoin WITH
    busy <- Busy,
    active <- Active,
    cut <- IF Busy /\ abort # -1 THEN abort ELSE NNodes,
    work <- work
Implements == Abstract!Spec

\* The status ggml_graph_compute returns speaks of this call: success means
\* that every node has been computed by every active thread, aborted that the
\* callback has asked for it since the call began.
StatusTold == pc[0] = "return" =>
    CASE ec = "success" -> \A k \in Nodes : work[k] = Active
      [] ec = "aborted" -> abort # -1

\* ggml_graph_compute returns, as no worker it waits for sleeps through the
\* broadcast, on either of its two waits; and ggml_threadpool_free joins every
\* worker, paused, asleep or polling.
CallsReturn == pc[0] \in {"kick", "freewake"} ~> pc[0] \in {"idle", "freed"}

=============================================================================
