-------------------------- MODULE ThreadpoolProofs --------------------------
(***************************************************************************)
(* The thread pool computes graphs as ggml_graph_compute promises, for all *)
(* numbers of threads, nodes, graphs and pauses, as long as no graph uses  *)
(* more threads than the one before.                                       *)
(***************************************************************************)
EXTENDS Threadpool, FiniteSetTheorems, TLAPS

\* From the announcement of a graph to the return of the caller.
Running == pc[0] \in {"kickwake", "return"} \cup ComputeLabels

\* A worker that is not in the node loop, or has only to notice that it is not.
Resting(w) == pc[w] \notin ComputeLabels \/ LeftLastBarrier(w)

Joined(t) == t = 0 \/ last_graph[t] = n_graph

\* The nodes this graph runs, and the barriers before its last one.
Cut == IF abort = -1 THEN NNodes ELSE abort
Final == IF Cut < NNodes THEN Cut ELSE NNodes - 1

Held(t) == pc[t] = "spin" /\ seen[t] = n_barrier_passed
LetOut(t) == pc[t] = "spin" /\ seen[t] < n_barrier_passed

\* Where an active thread can be when r barriers of the graph have opened:
\* not there yet, in the node loop before barrier r, or through with the graph.
Coming(t, r) ==
    /\ r = 0
    /\ \/ t = 0 /\ pc[0] = "kickwake"
       \/ /\ t # 0 /\ last_graph[t] # n_graph /\ Resting(t)
          /\ pc[t] = "readactive" => new_graph[t] = n_graph
       \/ Joined(t) /\ pc[t] = "begin"
InLoop(t, r) ==
    /\ Joined(t) /\ nth[t] = n_threads_cur
    /\ \/ pc[t] = "head" /\ node[t] = NNodes /\ Cut = NNodes /\ r = NNodes - 1
       \/ pc[t] = "head" /\ node[t] = r /\ r < NNodes /\ r <= Cut
       \/ pc[t] = "compute" /\ node[t] = r /\ r < Cut
       \/ LetOut(t) /\ node[t] = r /\ r < NNodes /\ r <= Cut
AtBarrier(t, r) ==
    /\ Joined(t) /\ nth[t] = n_threads_cur
    /\ pc[t] \in {"load", "enter", "reset", "release"} \/ Held(t)
    /\ \/ node[t] = NNodes /\ r = Final
       \/ node[t] = r + 1 /\ node[t] < NNodes /\ node[t] <= Cut
Through(t, r) ==
    /\ Joined(t) /\ r = Final + 1
    /\ \/ t = 0 /\ pc[0] = "return"
       \/ t # 0 /\ pc[t] \notin ComputeLabels /\ pc[t] # "readactive"
       \/ LetOut(t) /\ node[t] = NNodes
At(t, r) == Coming(t, r) \/ InLoop(t, r) \/ AtBarrier(t, r) \/ Through(t, r)

\* The barriers of a graph open one by one, for all of its threads at once.
SameRound == Running => \E r \in Nat : \A t \in Active : At(t, r)

\* Nobody else is in the node loop, and the workers a new graph may use have
\* done the last one.
OthersRest == \A w \in Workers : w \notin Active \/ ~ Running => Resting(w)
CaughtUp == ~ Running => \A w \in Workers : w \in Active =>
                            last_graph[w] = n_graph /\ pc[w] # "readactive"

\* The barrier: its counter counts the threads it holds; the last thread is
\* alone while it resets and releases.
Opening(t) == pc[t] \in {"reset", "release"}
HeldThreads == {t \in Active : Held(t)}
BarrierRight ==
    /\ \A t \in Threads : seen[t] <= n_barrier_passed
    /\ \A t \in Active : pc[t] = "enter" =>
          n_threads[t] = n_threads_cur /\ seen[t] = n_barrier_passed
    /\ \A t \in Active : Opening(t) => \A u \in Active : u # t => Held(u)
    /\ \A t \in Active : pc[t] = "release" => n_barrier = 0
    /\ (\A t \in Active : ~ Opening(t)) => n_barrier = Cardinality(HeldThreads)

\* The callback is not asked again after it has said yes.
AbortRight ==
    /\ ec = "success" <=> abort = -1
    /\ pc[0] \in {"kick", "kickgraph", "kickwake", "begin", "compute"} => abort = -1
    /\ pc[0] \in ComputeLabels \ {"begin"} /\ abort # -1 /\ node[0] < NNodes =>
          abort = node[0]

CallRight ==
    /\ pc[0] = "kick" => plan <= n_threads_cur
    /\ pc[0] \in {"kick", "kickgraph"} => n_graph < MaxGraphs

\* The nodes thread t has computed its share of.
Computed(t) ==
    IF \/ t = 0 /\ pc[0] = "kickwake"
       \/ t # 0 /\ last_graph[t] # n_graph
       \/ pc[t] = "begin"
    THEN 0
    ELSE IF pc[t] \in ComputeLabels /\ (node[t] < NNodes \/ pc[t] = "head") THEN node[t]
    ELSE Cut
WorkRight ==
    /\ pc[0] = "kickgraph" => \A k \in Nodes : work[k] = {}
    /\ Running => \A k \in Nodes : work[k] = {t \in Active : k < Computed(t)}

Labels == CallerLabels \cup WorkerLabels
Typed == TypeOK /\ pc \in [Threads -> Labels]

IInv == /\ Typed /\ SameRound /\ OthersRest /\ CaughtUp /\ BarrierRight
        /\ AbortRight /\ CallRight /\ WorkRight

-----------------------------------------------------------------------------

LEMMA Facts ==
    /\ N \in Nat \ {0} /\ NNodes \in Nat \ {0} /\ MaxGraphs \in Nat /\ MaxPauses \in Nat
    /\ 0 \in Threads /\ 0 \notin Workers /\ Threads = Workers \cup {0}
    /\ Threads \subseteq Nat
  BY PoolAssumption DEF Threads, Workers

LEMMA ActiveFacts ==
    ASSUME Typed
    PROVE  /\ n_threads_cur \in 1 .. N /\ Active \subseteq Threads /\ 0 \in Active
           /\ Active \subseteq Nat
           /\ \A t \in Threads : t \in Active <=> t < n_threads_cur
           /\ IsFiniteSet(Active) /\ Cardinality(Active) = n_threads_cur
<1>1. n_threads_cur \in 1 .. N /\ N \in Nat
  BY Facts DEF Typed, TypeOK
<1>2. IsFiniteSet(Active) /\ Cardinality(Active) = n_threads_cur
  BY <1>1, FS_Interval DEF Active
<1> QED  BY <1>1, <1>2 DEF Active, Threads

\* A thread that does not move stays where it is in the round.
LEMMA AtStays ==
    ASSUME NEW u \in Threads, NEW r, At(u, r),
           pc'[u] = pc[u], node'[u] = node[u], seen'[u] = seen[u], nth'[u] = nth[u],
           u # 0 => last_graph'[u] = last_graph[u] /\ new_graph'[u] = new_graph[u],
           n_graph' = n_graph, n_threads_cur' = n_threads_cur,
           n_barrier_passed' = n_barrier_passed, abort' = abort
    PROVE  At(u, r)'
<1>1. Cut' = Cut /\ Final' = Final
  BY DEF Cut, Final
<1>2. (Joined(u)' <=> Joined(u)) /\ (Held(u)' <=> Held(u)) /\ (LetOut(u)' <=> LetOut(u))
  BY DEF Joined, Held, LetOut
<1>3. Resting(u)' <=> Resting(u)
  BY DEF Resting, LeftLastBarrier
<1>4. CASE Coming(u, r)
  <2>1. Coming(u, r)'
    BY <1>2, <1>3, <1>4 DEF Coming
  <2> QED  BY <2>1 DEF At
<1>5. CASE InLoop(u, r)
  <2>1. InLoop(u, r)'
    BY <1>1, <1>2, <1>5 DEF InLoop
  <2> QED  BY <2>1 DEF At
<1>6. CASE AtBarrier(u, r)
  <2>1. AtBarrier(u, r)'
    BY <1>1, <1>2, <1>6 DEF AtBarrier
  <2> QED  BY <2>1 DEF At
<1>7. CASE Through(u, r)
  <2>1. Through(u, r)'
    BY <1>1, <1>2, <1>7 DEF Through
  <2> QED  BY <2>1 DEF At
<1> QED  BY <1>4, <1>5, <1>6, <1>7 DEF At

LEMMA ComputedStays ==
    ASSUME NEW u \in Threads,
           pc'[u] = pc[u], node'[u] = node[u],
           u # 0 => last_graph'[u] = last_graph[u],
           n_graph' = n_graph, abort' = abort
    PROVE  Computed(u)' = Computed(u)
<1>1. Cut' = Cut
  BY DEF Cut
<1>2. CASE u = 0
  BY <1>1, <1>2 DEF Computed
<1>3. CASE u # 0
  BY <1>1, <1>3 DEF Computed
<1> QED  BY <1>2, <1>3

LEMMA CutFacts ==
    ASSUME Typed
    PROVE  /\ NNodes \in Nat /\ NNodes >= 1
           /\ Cut \in 0 .. NNodes /\ Final \in 0 .. NNodes - 1
           /\ Cut < NNodes => Final = Cut
           /\ Cut = NNodes => Final = NNodes - 1
  BY Facts DEF Typed, TypeOK, Cut, Final

\* A thread in the node loop, unless it has left it, is a thread of a running graph.
LEMMA LoopRuns ==
    ASSUME Typed, OthersRest, NEW t \in Threads,
           pc[t] \in ComputeLabels, ~ LeftLastBarrier(t)
    PROVE  Running /\ t \in Active
<1>1. CASE t = 0
  BY <1>1, ActiveFacts DEF Running
<1>2. CASE t # 0
  <2>1. t \in Workers
    BY <1>2, Facts
  <2> QED  BY <2>1, <1>2 DEF OthersRest, Resting
<1> QED  BY <1>1, <1>2

-----------------------------------------------------------------------------
(* Steps that move one thread. *)

\* A step of thread t leaves the locals of the others alone.
Moves(t) ==
    /\ n_graph' = n_graph /\ n_threads_cur' = n_threads_cur
    /\ \A u \in Threads : u # t =>
          /\ pc'[u] = pc[u] /\ node'[u] = node[u] /\ seen'[u] = seen[u]
          /\ n_threads'[u] = n_threads[u] /\ nth'[u] = nth[u]
          /\ u # 0 => last_graph'[u] = last_graph[u] /\ new_graph'[u] = new_graph[u]

LEMMA RoundKept ==
    ASSUME IInv, NEW t \in Threads, Moves(t),
           n_barrier_passed' = n_barrier_passed, abort' = abort,
           Running' => Running,
           Running /\ t \in Active => \A r \in Nat : At(t, r) => At(t, r)'
    PROVE  SameRound'
<1> SUFFICES ASSUME Running'
             PROVE  \E r \in Nat : \A u \in Active' : At(u, r)'
  BY DEF SameRound
<1>1. PICK r \in Nat : \A u \in Active : At(u, r)
  BY DEF IInv, SameRound
<1>2. Active' = Active /\ Active \subseteq Threads
  BY ActiveFacts DEF Moves, Active, IInv
<1>3. ASSUME NEW u \in Active  PROVE At(u, r)'
  <2>1. CASE u = t
    BY <1>1, <2>1
  <2>2. CASE u # t
    BY <1>1, <1>2, <2>2, AtStays DEF Moves
  <2> QED  BY <2>1, <2>2
<1> QED  BY <1>2, <1>3

LEMMA OthersKept ==
    ASSUME IInv, NEW t \in Threads, Moves(t),
           n_barrier_passed' = n_barrier_passed \/ \A u \in Threads : seen[u] <= n_barrier_passed,
           n_barrier_passed' >= n_barrier_passed, n_barrier_passed' \in Nat,
           Running' <=> Running,
           t # 0 /\ (t \notin Active \/ ~ Running) =>
              /\ Resting(t)'
              /\ t \in Active => last_graph'[t] = n_graph /\ pc'[t] # "readactive"
    PROVE  OthersRest' /\ CaughtUp'
<1>1. Active' = Active
  BY DEF Moves, Active
<1>2. ASSUME NEW w \in Workers, w \notin Active \/ ~ Running
      PROVE  Resting(w)'
  <2>1. CASE w = t
    BY <1>2, <2>1, Facts
  <2>2. CASE w # t
    <3>1. pc'[w] = pc[w] /\ node'[w] = node[w] /\ seen'[w] = seen[w] /\ w \in Threads
      BY <2>2, Facts DEF Moves
    <3>2. Resting(w)
      BY <1>2 DEF IInv, OthersRest
    <3>3. seen[w] \in Nat /\ n_barrier_passed \in Nat /\ seen[w] <= n_barrier_passed
      BY <3>1 DEF IInv, Typed, TypeOK, BarrierRight
    <3> QED  BY <3>1, <3>2, <3>3 DEF Resting, LeftLastBarrier
  <2> QED  BY <2>1, <2>2
<1>3. ASSUME NEW w \in Workers, w \in Active, ~ Running
      PROVE  last_graph'[w] = n_graph' /\ pc'[w] # "readactive"
  <2>1. CASE w = t
    BY <1>3, <2>1, Facts DEF Moves
  <2>2. CASE w # t
    BY <1>3, <2>2, Facts DEF Moves, IInv, CaughtUp
  <2> QED  BY <2>1, <2>2
<1> QED  BY <1>1, <1>2, <1>3 DEF OthersRest, CaughtUp

LEMMA WorkKept ==
    ASSUME IInv, NEW t \in Threads, Moves(t),
           abort' = abort, work' = work,
           Running' => Running, pc'[0] # "kickgraph",
           Running /\ t \in Active => Computed(t)' = Computed(t)
    PROVE  WorkRight'
<1>1. Active' = Active /\ Active \subseteq Threads
  BY ActiveFacts DEF Moves, Active, IInv
<1>2. ASSUME NEW u \in Active, Running  PROVE Computed(u)' = Computed(u)
  <2>1. CASE u = t
    BY <1>2, <2>1
  <2>2. CASE u # t
    BY <1>1, <2>2, ComputedStays DEF Moves
  <2> QED  BY <2>1, <2>2
<1>3. ASSUME Running', NEW k \in Nodes
      PROVE  work'[k] = {u \in Active' : k < Computed(u)'}
  BY <1>1, <1>2, <1>3 DEF IInv, WorkRight
<1> QED  BY <1>3 DEF WorkRight

\* The barrier does not notice a thread that neither enters nor leaves it.
LEMMA BarrierKept ==
    ASSUME IInv, NEW t \in Threads, Moves(t),
           n_barrier_passed' = n_barrier_passed, n_barrier' = n_barrier,
           seen'[t] <= n_barrier_passed,
           Held(t)' <=> Held(t), ~ Opening(t), ~ Opening(t)', pc'[t] # "enter"
    PROVE  BarrierRight'
<1>1. Active' = Active /\ Active \subseteq Threads
  BY ActiveFacts DEF Moves, Active, IInv
<1>2. \A u \in Threads : (Held(u)' <=> Held(u)) /\ (Opening(u)' <=> Opening(u))
  BY DEF Moves, Held, Opening
<1>3. HeldThreads' = HeldThreads
  BY <1>1, <1>2 DEF HeldThreads
<1>4. \A u \in Threads : seen'[u] <= n_barrier_passed'
  BY DEF Moves, IInv, BarrierRight
<1>5. \A u \in Active : pc'[u] = "enter" =>
         n_threads'[u] = n_threads_cur' /\ seen'[u] = n_barrier_passed'
  BY <1>1 DEF Moves, IInv, BarrierRight
<1>6. \A u \in Active : Opening(u)' => \A v \in Active : v # u => Held(v)'
  BY <1>1, <1>2 DEF IInv, BarrierRight
<1>7. \A u \in Active : pc'[u] = "release" => n_barrier' = 0
  BY <1>1 DEF Moves, IInv, BarrierRight, Opening
<1>8. (\A u \in Active : ~ Opening(u)') => n_barrier' = Cardinality(HeldThreads')
  BY <1>1, <1>2, <1>3 DEF IInv, BarrierRight
<1> QED  BY <1>1, <1>4, <1>5, <1>6, <1>7, <1>8 DEF BarrierRight

-----------------------------------------------------------------------------
(* What the labels say of the round. *)

\* Where the running threads are, and that a label says it alone.
LEMMA RoundOf ==
    ASSUME IInv, NEW t \in Threads, pc[t] \in ComputeLabels, ~ LeftLastBarrier(t)
    PROVE  \E r \in Nat : /\ \A u \in Active : At(u, r)
                          /\ At(t, r)
BY LoopRuns DEF IInv, SameRound

LEMMA BeginAt ==
    ASSUME NEW t, NEW r, pc[t] = "begin", At(t, r)
    PROVE  r = 0 /\ Joined(t)
BY DEF At, Coming, InLoop, AtBarrier, Through, Resting, LeftLastBarrier, ComputeLabels,
       Held, LetOut, Joined

LEMMA HeadAt ==
    ASSUME NEW t, NEW r, pc[t] = "head", At(t, r)
    PROVE  /\ Joined(t) /\ nth[t] = n_threads_cur
           /\ \/ node[t] = NNodes /\ Cut = NNodes /\ r = NNodes - 1
              \/ node[t] = r /\ r < NNodes /\ r <= Cut
BY DEF At, Coming, InLoop, AtBarrier, Through, Resting, LeftLastBarrier, ComputeLabels,
       Held, LetOut

LEMMA ComputeAt ==
    ASSUME NEW t, NEW r, pc[t] = "compute", At(t, r)
    PROVE  Joined(t) /\ nth[t] = n_threads_cur /\ node[t] = r /\ r < Cut
BY DEF At, Coming, InLoop, AtBarrier, Through, Resting, LeftLastBarrier, ComputeLabels,
       Held, LetOut

LEMMA BarrierAt ==
    ASSUME Typed, NEW t \in Threads, NEW r, At(t, r),
           pc[t] \in {"load", "enter", "reset", "release"} \/ Held(t)
    PROVE  AtBarrier(t, r)
<1>1. Held(t) => ~ LetOut(t) /\ ~ LeftLastBarrier(t)
  BY DEF Held, LetOut, LeftLastBarrier, Typed, TypeOK
<1>2. pc[t] \in {"load", "enter", "reset", "release", "spin"}
  BY DEF Held
<1> QED  BY <1>1, <1>2 DEF At, Coming, InLoop, Through, Resting, LeftLastBarrier,
            ComputeLabels, LetOut

LEMMA EnterRoom ==
    ASSUME IInv, NEW t \in Threads, pc[t] \in {"load", "enter"}
    PROVE  /\ t \in Active /\ \A u \in Active : ~ Opening(u)
           /\ n_barrier = Cardinality(HeldThreads)
           /\ t \notin HeldThreads /\ HeldThreads \subseteq Active
           /\ IsFiniteSet(HeldThreads)
           /\ n_barrier \in Nat /\ n_barrier <= n_threads_cur - 1
           /\ n_barrier = n_threads_cur - 1 => HeldThreads = Active \ {t}
<1> USE DEF IInv
<1>1. t \in Active
  BY LoopRuns DEF LeftLastBarrier, ComputeLabels
<1>2. ~ Held(t) /\ ~ Opening(t)
  BY DEF Held, Opening
<1>3. \A u \in Active : ~ Opening(u)
  BY <1>1, <1>2 DEF BarrierRight
<1>4. n_barrier = Cardinality(HeldThreads)
  BY <1>3 DEF BarrierRight
<1>5. HeldThreads \subseteq Active \ {t} /\ t \notin HeldThreads
  BY <1>2 DEF HeldThreads
<1>6. IsFiniteSet(Active) /\ Cardinality(Active) = n_threads_cur /\ n_threads_cur \in Nat
  BY ActiveFacts
<1>7. IsFiniteSet(Active \ {t}) /\ Cardinality(Active \ {t}) = n_threads_cur - 1
  BY <1>1, <1>6, FS_RemoveElement
<1>8. IsFiniteSet(HeldThreads) /\ Cardinality(HeldThreads) <= n_threads_cur - 1
      /\ (Cardinality(HeldThreads) = n_threads_cur - 1 => HeldThreads = Active \ {t})
  BY <1>5, <1>7, FS_Subset
<1>9. Cardinality(HeldThreads) \in Nat
  BY <1>8, FS_CardinalityType
<1> QED  BY <1>1, <1>3, <1>4, <1>5, <1>8, <1>9

-----------------------------------------------------------------------------
(* Types. *)

LEMMA TypedNext ==
    ASSUME IInv, Next, ~ Growing
    PROVE  Typed'
<1> USE Facts DEF Typed, TypeOK, Labels, CallerLabels, WorkerLabels, ComputeLabels,
        Goto, pool, params, counters, local, found, caller
<1>0. Typed
  BY DEF IInv
<1>1. ASSUME NEW t \in Threads, Begin(t)  PROVE Typed'
  BY <1>0, <1>1 DEF Begin
<1>2. ASSUME NEW t \in Threads, Head(t)  PROVE Typed'
  BY <1>0, <1>2 DEF Head
<1>3. ASSUME NEW t \in Threads, Compute(t)  PROVE Typed'
  <2>1. node[t] \in 0 .. NNodes - 1
    <3>1. pc[t] = "compute" /\ ~ LeftLastBarrier(t)
      BY <1>3 DEF Compute, LeftLastBarrier
    <3>2. PICK r \in Nat : At(t, r)
      BY <3>1, RoundOf
    <3> QED  BY <3>1, <3>2, ComputeAt, CutFacts, <1>0
  <2>2. node[t] \in Nodes
    BY <2>1 DEF Nodes
  <2>3. node' \in [Threads -> 0 .. NNodes] /\ work' \in [Nodes -> SUBSET Threads]
    BY <1>0, <1>3, <2>1, <2>2 DEF Compute
  <2>4. abort' \in -1 .. NNodes /\ ec' \in {"success", "aborted"}
    BY <1>0, <1>3, <2>1 DEF Compute
  <2> QED  BY <1>0, <1>3, <2>3, <2>4 DEF Compute
<1>4. ASSUME NEW t \in Threads, Load(t)  PROVE Typed'
  BY <1>0, <1>4 DEF Load, BarrierReturn
<1>5. ASSUME NEW t \in Threads, Enter(t)  PROVE Typed'
  <2>1. n_barrier \in Nat /\ n_barrier <= n_threads_cur - 1
    BY <1>5, EnterRoom DEF Enter
  <2> QED  BY <1>0, <1>5, <2>1 DEF Enter
<1>6. ASSUME NEW t \in Threads, Reset(t)  PROVE Typed'
  BY <1>0, <1>6 DEF Reset
<1>7. ASSUME NEW t \in Threads, Release(t)  PROVE Typed'
  BY <1>0, <1>7 DEF Release, BarrierReturn
<1>8. ASSUME NEW t \in Threads, Spin(t)  PROVE Typed'
  BY <1>0, <1>8 DEF Spin, BarrierReturn
<1>9. ASSUME NEW w \in Workers, WorkerStep(w)  PROVE Typed'
  <2>1. CASE PauseTest(w)
    BY <1>0, <2>1 DEF PauseTest
  <2>2. CASE PauseWait(w)
    BY <1>0, <2>2 DEF PauseWait
  <2>3. CASE PauseWoken(w)
    BY <1>0, <2>3 DEF PauseWoken
  <2>4. CASE StopTest(w)
    BY <1>0, <2>4 DEF StopTest
  <2>5. CASE PollTest(w)
    BY <1>0, <2>5 DEF PollTest
  <2>6. CASE ReadStop(w)
    BY <1>0, <2>6 DEF ReadStop
  <2>7. CASE ReadPause(w)
    BY <1>0, <2>7 DEF ReadPause
  <2>8. CASE ReadGraph(w)
    BY <1>0, <2>8 DEF ReadGraph, PollAgain
  <2>9. CASE ReadActive(w)
    BY <1>0, <2>9 DEF ReadActive, PollAgain
  <2>10. CASE LockWork(w)
    <3>1. last_graph' \in [Workers -> 0 .. MaxGraphs] /\ waiting' \subseteq Workers
      <4>1. \/ last_graph' = last_graph
            \/ last_graph' = [last_graph EXCEPT ![w] = n_graph]
        BY <2>10 DEF LockWork
      <4>2. waiting' = waiting \/ waiting' = waiting \cup {w}
        BY <2>10 DEF LockWork
      <4>3. last_graph \in [Workers -> 0 .. MaxGraphs] /\ n_graph \in 0 .. MaxGraphs
            /\ waiting \subseteq Workers
        BY <1>0
      <4>4. last_graph' \in [Workers -> 0 .. MaxGraphs]
        BY ONLY <4>1, <4>3
      <4> QED  BY ONLY <4>2, <4>3, <4>4
    <3>2. \E l \in {"loop", "begin", "lockwork"} : pc' = [pc EXCEPT ![w] = l]
      <4>1. pc = [pc EXCEPT ![w] = "lockwork"]
        BY <1>0, <2>10 DEF LockWork
      <4> QED  BY <2>10, <4>1 DEF LockWork
    <3>3. pc' \in [Threads -> Labels] /\ pc'[0] = pc[0]
          /\ \A v \in Workers : pc'[v] \in WorkerLabels
      BY <1>0, <3>2
    <3> QED  BY <1>0, <2>10, <3>1, <3>3 DEF LockWork
  <2> QED  BY <1>9, <2>1, <2>2, <2>3, <2>4, <2>5, <2>6, <2>7, <2>8, <2>9, <2>10
              DEF WorkerStep
<1>10. ASSUME NEW w \in Workers, SpuriousWake(w)  PROVE Typed'
  BY <1>0, <1>10 DEF SpuriousWake
<1>11. ASSUME NEW n \in ThreadChoices, ComputeCall(n)  PROVE Typed'
  <2>1. Min2(n, N) \in 1 .. N
    BY PoolAssumption DEF Min2
  <2> QED  BY <1>0, <1>11, <2>1 DEF ComputeCall
<1>12. CASE KickThreads
  BY <1>0, <1>12 DEF KickThreads
<1>13. CASE KickGraph
  BY <1>0, <1>13 DEF KickGraph, IInv, CallRight
<1>14. CASE KickWake \/ ComputeReturn \/ FreeWake \/ Join
  BY <1>0, <1>14 DEF KickWake, ComputeReturn, FreeWake, Join
<1>15. CASE Pause \/ Resume \/ FreeCall
  <2>1. CASE Pause
    BY <1>0, <2>1 DEF Pause
  <2>2. CASE Resume
    BY <1>0, <2>2 DEF Resume
  <2>3. CASE FreeCall
    BY <1>0, <2>3 DEF FreeCall
  <2> QED  BY <1>15, <2>1, <2>2, <2>3
<1>16. CASE Freed
  BY <1>0, <1>16 DEF Freed, vars
<1> QED  BY <1>1, <1>2, <1>3, <1>4, <1>5, <1>6, <1>7, <1>8, <1>9, <1>10, <1>11, <1>12,
            <1>13, <1>14, <1>15, <1>16 DEF Next, ComputeThread, CallerStep, ApiCall

-----------------------------------------------------------------------------
(* Steps of a worker outside the node loop. *)

\* What such a step leaves alone.
Aside(w) ==
    /\ Moves(w)
    /\ n_barrier' = n_barrier /\ n_barrier_passed' = n_barrier_passed
    /\ abort' = abort /\ ec' = ec /\ work' = work /\ plan' = plan
    /\ seen'[w] = seen[w] /\ node'[w] = node[w] /\ nth'[w] = nth[w]

LEMMA CallerUnmoved ==
    ASSUME IInv, NEW w \in Workers, Moves(w), abort' = abort, ec' = ec, plan' = plan
    PROVE  /\ Running' <=> Running
           /\ pc'[0] = pc[0] /\ w # 0 /\ w \in Threads
           /\ AbortRight' /\ CallRight'
<1>1. pc'[0] = pc[0] /\ node'[0] = node[0] /\ w # 0 /\ w \in Threads
  BY Facts DEF Moves
<1>2. AbortRight'
  BY <1>1 DEF IInv, AbortRight
<1>3. CallRight'
  BY <1>1 DEF IInv, CallRight, Moves
<1> QED  BY <1>1, <1>2, <1>3 DEF Running

\* The worker stays out.
LEMMA StaysOut ==
    ASSUME IInv, Typed', NEW w \in Workers, Aside(w),
           pc[w] \notin ComputeLabels, pc'[w] \notin ComputeLabels,
           w \in Active => /\ last_graph'[w] = last_graph[w]
                           /\ pc'[w] = "readactive" =>
                                 last_graph[w] # n_graph /\ new_graph'[w] = n_graph
    PROVE  IInv'
<1> USE DEF Aside
<1>1. (Running' <=> Running) /\ pc'[0] = pc[0] /\ w # 0 /\ w \in Threads
      /\ AbortRight' /\ CallRight'
  BY CallerUnmoved
<1>2. Active' = Active /\ n_graph' = n_graph
  BY DEF Moves, Active
<1>3. ASSUME NEW r \in Nat, w \in Active, At(w, r)  PROVE At(w, r)'
  <2>1. Cut' = Cut /\ Final' = Final
    BY DEF Cut, Final
  <2>2. pc[w] # "spin" /\ pc[w] \notin ComputeLabels /\ pc[w] # "begin"
    BY DEF ComputeLabels
  <2>3. CASE Coming(w, r)
    <3>1. Coming(w, r)'
      BY <1>1, <1>2, <1>3, <2>2, <2>3 DEF Coming, Joined, Resting
    <3> QED  BY <3>1 DEF At
  <2>4. CASE Through(w, r)
    <3>1. last_graph[w] = n_graph /\ r = Final + 1
      BY <1>1, <2>4 DEF Through, Joined
    <3>2. Through(w, r)'
      BY <1>1, <1>2, <1>3, <2>1, <3>1 DEF Through, Joined
    <3> QED  BY <3>2 DEF At
  <2>5. ~ InLoop(w, r) /\ ~ AtBarrier(w, r)
    BY <2>2 DEF InLoop, AtBarrier, LetOut, Held, ComputeLabels
  <2> QED  BY <1>3, <2>3, <2>4, <2>5 DEF At
<1>4. SameRound'
  BY <1>1, <1>3, RoundKept
<1>5. Resting(w)'
  BY DEF Resting
<1>6. w \in Active /\ ~ Running => last_graph'[w] = n_graph /\ pc'[w] # "readactive"
  BY DEF IInv, CaughtUp
<1>7. OthersRest' /\ CaughtUp'
  <2>1. n_barrier_passed' >= n_barrier_passed /\ n_barrier_passed' \in Nat
    BY DEF IInv, Typed, TypeOK
  <2> QED  BY <1>1, <1>5, <1>6, <2>1, OthersKept
<1>8. BarrierRight'
  <2>1. Held(w)' <=> Held(w)
    BY DEF Held, ComputeLabels
  <2>2. ~ Opening(w) /\ ~ Opening(w)' /\ pc'[w] # "enter"
    BY DEF Opening, ComputeLabels
  <2>3. seen'[w] <= n_barrier_passed
    BY <1>1 DEF IInv, BarrierRight
  <2> QED  BY <1>1, <2>1, <2>2, <2>3, BarrierKept
<1>9. WorkRight'
  <2>1. ASSUME w \in Active  PROVE Computed(w)' = Computed(w)
    <3>1. Cut' = Cut
      BY DEF Cut
    <3> QED  BY <1>1, <1>2, <2>1, <3>1 DEF Computed, ComputeLabels
  <2>2. CASE pc[0] = "kickgraph"
    <3>1. ~ Running'
      BY <1>1, <2>2 DEF Running, ComputeLabels
    <3> QED  BY <1>1, <2>2, <3>1 DEF IInv, WorkRight
  <2> QED  BY <1>1, <2>1, <2>2, WorkKept
<1> QED  BY <1>1, <1>4, <1>7, <1>8, <1>9 DEF IInv

\* The worker joins the graph.
LEMMA JoinsIn ==
    ASSUME IInv, Typed', NEW w \in Workers, Aside(w), w \in Active,
           pc[w] \notin ComputeLabels, pc'[w] = "begin",
           pc[w] = "readactive" \/ last_graph[w] # n_graph,
           \/ last_graph'[w] = n_graph
           \/ pc[w] = "readactive" /\ last_graph'[w] = new_graph[w]
    PROVE  IInv'
<1> USE DEF Aside
<1>1. (Running' <=> Running) /\ pc'[0] = pc[0] /\ w # 0 /\ w \in Threads
      /\ AbortRight' /\ CallRight'
  BY CallerUnmoved
<1>2. Active' = Active /\ n_graph' = n_graph
  BY DEF Moves, Active
<1>3. Running
  BY DEF IInv, CaughtUp
<1>4. ASSUME NEW r \in Nat, At(w, r)
      PROVE  r = 0 /\ last_graph'[w] = n_graph /\ last_graph[w] # n_graph /\ At(w, r)'
  <2>1. ~ InLoop(w, r) /\ ~ AtBarrier(w, r) /\ ~ Through(w, r)
    BY <1>1 DEF InLoop, AtBarrier, Through, LetOut, Held, ComputeLabels, Joined
  <2>2. Coming(w, r)
    BY <1>4, <2>1 DEF At
  <2>3. r = 0 /\ last_graph[w] # n_graph /\ (pc[w] = "readactive" => new_graph[w] = n_graph)
    BY <1>1, <2>2 DEF Coming, ComputeLabels
  <2>4. last_graph'[w] = n_graph
    BY <2>3
  <2>5. Coming(w, r)'
    BY <1>1, <1>2, <2>3, <2>4 DEF Coming, Joined
  <2> QED  BY <2>3, <2>4, <2>5 DEF At
<1>5. SameRound'
  BY <1>1, <1>4, RoundKept
<1>6. OthersRest' /\ CaughtUp'
  <2>1. n_barrier_passed' >= n_barrier_passed /\ n_barrier_passed' \in Nat
    BY DEF IInv, Typed, TypeOK
  <2> QED  BY <1>1, <1>3, <2>1, OthersKept
<1>7. BarrierRight'
  <2>1. Held(w)' <=> Held(w)
    BY DEF Held, ComputeLabels
  <2>2. ~ Opening(w) /\ ~ Opening(w)' /\ pc'[w] # "enter"
    BY DEF Opening, ComputeLabels
  <2>3. seen'[w] <= n_barrier_passed
    BY <1>1 DEF IInv, BarrierRight
  <2> QED  BY <1>1, <2>1, <2>2, <2>3, BarrierKept
<1>8. WorkRight'
  <2>1. last_graph[w] # n_graph
    BY <1>3, <1>4 DEF IInv, SameRound
  <2>2. Computed(w)' = Computed(w)
    BY <1>1, <2>1 DEF Computed
  <2>3. pc'[0] # "kickgraph"
    BY <1>1, <1>3 DEF Running, ComputeLabels
  <2> QED  BY <1>1, <2>2, <2>3, WorkKept
<1> QED  BY <1>1, <1>5, <1>6, <1>7, <1>8 DEF IInv

\* A step that changes nothing the invariant speaks of.
LEMMA NothingMoved ==
    ASSUME IInv, Typed',
           UNCHANGED <<n_graph, n_threads_cur, params, counters, local, found, plan, pc, work>>
    PROVE  IInv'
<1> USE DEF params, counters, local, found
<1>1. (Running' <=> Running) /\ Active' = Active /\ Cut' = Cut /\ Final' = Final
  BY DEF Running, Active, Cut, Final
<1>2. \A u : /\ (Resting(u)' <=> Resting(u)) /\ (Held(u)' <=> Held(u))
             /\ (Opening(u)' <=> Opening(u))
  BY DEF Resting, LeftLastBarrier, Held, Opening
<1>3. SameRound'
  <2>1. \A u, r : At(u, r)' <=> At(u, r)
    BY <1>1, <1>2 DEF At, Coming, InLoop, AtBarrier, Through, LetOut, Joined
  <2> QED  BY <1>1, <2>1 DEF SameRound, IInv
<1>4. OthersRest' /\ CaughtUp'
  BY <1>1, <1>2 DEF OthersRest, CaughtUp, IInv
<1>5. BarrierRight'
  <2>1. HeldThreads' = HeldThreads
    BY <1>1, <1>2 DEF HeldThreads
  <2> QED  BY <1>1, <1>2, <2>1 DEF BarrierRight, IInv
<1>6. AbortRight' /\ CallRight'
  BY DEF AbortRight, CallRight, IInv
<1>7. WorkRight'
  <2>1. \A u : Computed(u)' = Computed(u)
    BY <1>1 DEF Computed
  <2> QED  BY <1>1, <2>1 DEF WorkRight, IInv
<1> QED  BY <1>3, <1>4, <1>5, <1>6, <1>7 DEF IInv

LEMMA WorkerNext ==
    ASSUME IInv, Typed', NEW w \in Workers, WorkerStep(w) \/ SpuriousWake(w)
    PROVE  IInv'
<1> USE DEF Goto, pool, params, counters, local, found, caller, ComputeLabels
<1>0. /\ pc \in [Threads -> Labels] /\ w \in Threads /\ w # 0 /\ 0 \in Threads
      /\ last_graph \in [Workers -> 0 .. MaxGraphs]
      /\ new_graph \in [Workers -> 0 .. MaxGraphs]
      /\ \A u \in Threads : u # 0 => u \in Workers
      /\ w \in Active <=> w < n_threads_cur
  BY Facts, ActiveFacts DEF IInv, Typed, TypeOK
<1>1. CASE PauseTest(w)
  <2>1. Aside(w) /\ last_graph' = last_graph
    BY <1>0, <1>1 DEF PauseTest, Aside, Moves
  <2>2. pc[w] \notin ComputeLabels /\ pc'[w] \notin ComputeLabels /\ pc'[w] # "readactive"
    BY <1>0, <1>1 DEF PauseTest
  <2> QED  BY <2>1, <2>2, StaysOut
<1>2. CASE PauseWait(w)
  <2>1. Aside(w) /\ last_graph' = last_graph
    BY <1>0, <1>2 DEF PauseWait, Aside, Moves
  <2>2. pc[w] \notin ComputeLabels /\ pc'[w] \notin ComputeLabels /\ pc'[w] # "readactive"
    BY <1>0, <1>2 DEF PauseWait
  <2> QED  BY <2>1, <2>2, StaysOut
<1>3. CASE PauseWoken(w)
  <2>1. Aside(w) /\ last_graph' = last_graph
    BY <1>0, <1>3 DEF PauseWoken, Aside, Moves
  <2>2. pc[w] \notin ComputeLabels /\ pc'[w] \notin ComputeLabels /\ pc'[w] # "readactive"
    BY <1>0, <1>3 DEF PauseWoken
  <2> QED  BY <2>1, <2>2, StaysOut
<1>4. CASE StopTest(w)
  <2>1. Aside(w) /\ last_graph' = last_graph
    BY <1>0, <1>4 DEF StopTest, Aside, Moves
  <2>2. pc[w] \notin ComputeLabels /\ pc'[w] \notin ComputeLabels /\ pc'[w] # "readactive"
    BY <1>0, <1>4 DEF StopTest
  <2> QED  BY <2>1, <2>2, StaysOut
<1>5. CASE PollTest(w)
  <2>1. Aside(w) /\ last_graph' = last_graph
    BY <1>0, <1>5 DEF PollTest, Aside, Moves
  <2>2. pc[w] \notin ComputeLabels /\ pc'[w] \notin ComputeLabels /\ pc'[w] # "readactive"
    BY <1>0, <1>5 DEF PollTest
  <2> QED  BY <2>1, <2>2, StaysOut
<1>6. CASE ReadStop(w)
  <2>1. Aside(w) /\ last_graph' = last_graph
    BY <1>0, <1>6 DEF ReadStop, Aside, Moves
  <2>2. pc[w] \notin ComputeLabels /\ pc'[w] \notin ComputeLabels /\ pc'[w] # "readactive"
    BY <1>0, <1>6 DEF ReadStop
  <2> QED  BY <2>1, <2>2, StaysOut
<1>7. CASE ReadPause(w)
  <2>1. Aside(w) /\ last_graph' = last_graph
    BY <1>0, <1>7 DEF ReadPause, Aside, Moves
  <2>2. pc[w] \notin ComputeLabels /\ pc'[w] \notin ComputeLabels /\ pc'[w] # "readactive"
    BY <1>0, <1>7 DEF ReadPause
  <2> QED  BY <2>1, <2>2, StaysOut
<1>8. CASE ReadGraph(w)
  <2>1. Aside(w) /\ last_graph' = last_graph
    BY <1>0, <1>8 DEF ReadGraph, Aside, Moves, PollAgain
  <2>2. pc[w] \notin ComputeLabels /\ pc'[w] \notin ComputeLabels
    BY <1>0, <1>8 DEF ReadGraph, PollAgain
  <2>3. pc'[w] = "readactive" => last_graph[w] # n_graph /\ new_graph'[w] = n_graph
    BY <1>0, <1>8 DEF ReadGraph, PollAgain
  <2> QED  BY <2>1, <2>2, <2>3, StaysOut
<1>9. CASE ReadActive(w)
  <2>1. Aside(w) /\ pc[w] = "readactive" /\ last_graph'[w] = new_graph[w]
    BY <1>0, <1>9 DEF ReadActive, Aside, Moves, PollAgain
  <2>2. CASE w \in Active
    <3>1. pc'[w] = "begin"
      BY <1>0, <1>9, <2>2 DEF ReadActive
    <3> QED  BY <2>1, <2>2, <3>1, JoinsIn
  <2>3. CASE w \notin Active
    <3>1. pc'[w] \notin ComputeLabels
      BY <1>0, <1>9, <2>3 DEF ReadActive, PollAgain
    <3> QED  BY <2>1, <2>3, <3>1, StaysOut
  <2> QED  BY <2>2, <2>3
<1>10. CASE LockWork(w)
  <2>1. Aside(w) /\ pc[w] = "lockwork"
    <3>1. \A u \in Threads : u # w =>
             pc'[u] = pc[u] /\ (u # 0 => last_graph'[u] = last_graph[u])
      BY <1>0, <1>10 DEF LockWork
    <3> QED  BY <1>10, <3>1 DEF LockWork, Aside, Moves
  <2>2. CASE pc'[w] = "begin"
    <3>1. w \in Active /\ last_graph[w] # n_graph /\ last_graph'[w] = n_graph
      BY <1>0, <1>10, <2>2 DEF LockWork
    <3> QED  BY <2>1, <2>2, <3>1, JoinsIn
  <2>3. CASE pc'[w] # "begin"
    <3>1. pc'[w] \in {"loop", "lockwork"}
      BY <1>0, <1>10, <2>3 DEF LockWork
    <3>2. w \in Active => last_graph'[w] = last_graph[w]
      BY <1>0, <1>10, <2>3 DEF LockWork
    <3> QED  BY <2>1, <3>1, <3>2, StaysOut
  <2> QED  BY <2>2, <2>3
<1>11. CASE SpuriousWake(w)
  <2>1. UNCHANGED <<pool, params, counters, local, found, caller, pc, work>>
    BY <1>11 DEF SpuriousWake
  <2>2. IInv /\ Typed'
    OBVIOUS
  <2> QED  BY <2>1, <2>2, NothingMoved
<1> QED  BY <1>1, <1>2, <1>3, <1>4, <1>5, <1>6, <1>7, <1>8, <1>9, <1>10, <1>11 DEF WorkerStep

-----------------------------------------------------------------------------
(* Steps in the node loop. *)

\* A step that opens no barrier and does no work.
LEMMA LoopMove ==
    ASSUME IInv, Typed', NEW t \in Threads, Moves(t), t \in Active, Running, Running',
           n_barrier_passed' = n_barrier_passed,
           abort' = abort, ec' = ec, work' = work, plan' = plan,
           \A r \in Nat : At(t, r) => At(t, r)',
           Computed(t)' = Computed(t),
           pc'[0] \notin {"kick", "kickgraph"}, BarrierRight', AbortRight'
    PROVE  IInv'
<1>1. SameRound'
  BY RoundKept
<1>2. OthersRest' /\ CaughtUp'
  <2>1. n_barrier_passed' >= n_barrier_passed /\ n_barrier_passed' \in Nat
    BY DEF IInv, Typed, TypeOK
  <2> QED  BY <2>1, OthersKept
<1>3. WorkRight'
  BY WorkKept
<1>4. CallRight'
  BY DEF CallRight
<1> QED  BY <1>1, <1>2, <1>3, <1>4 DEF IInv

\* Running, seen from the label of the thread that moves.
LEMMA StillRunning ==
    ASSUME Running, NEW t \in Threads, Moves(t), pc[0] # "freed",
           t = 0 => pc'[0] \in ComputeLabels \cup {"return"}
    PROVE  Running' /\ pc'[0] \notin {"kick", "kickgraph"}
<1>1. CASE t = 0
  BY <1>1 DEF Running, ComputeLabels
<1>2. CASE t # 0
  <2>1. pc'[0] = pc[0]
    BY <1>2, Facts DEF Moves
  <2> QED  BY <2>1 DEF Running, ComputeLabels
<1> QED  BY <1>1, <1>2

LEMMA BeginNext ==
    ASSUME IInv, Typed', NEW t \in Threads, Begin(t)
    PROVE  IInv'
<1> USE DEF pool, params, counters, found, caller
<1>0. /\ pc \in [Threads -> Labels] /\ node \in [Threads -> 0 .. NNodes]
      /\ nth \in [Threads -> 0 .. N] /\ pc[t] = "begin"
  BY DEF IInv, Typed, TypeOK, Begin
<1>1. Running /\ t \in Active
  BY <1>0, LoopRuns DEF IInv, LeftLastBarrier, ComputeLabels
<1>2. Moves(t) /\ pc'[t] = "head" /\ node'[t] = 0 /\ nth'[t] = n_threads_cur
      /\ seen'[t] = seen[t]
  BY <1>0 DEF Begin, Goto, Moves
<1>3. Running' /\ pc'[0] \notin {"kick", "kickgraph"}
  BY <1>1, <1>2, StillRunning DEF Running, ComputeLabels
<1>4. ASSUME NEW r \in Nat, At(t, r)  PROVE Joined(t) /\ At(t, r)'
  <2>1. r = 0 /\ Joined(t)
    BY <1>0, <1>4, BeginAt
  <2>2. 0 <= Cut' /\ 0 < NNodes
    BY CutFacts DEF IInv, Begin, Cut
  <2>3. Joined(t)' /\ n_threads_cur' = n_threads_cur
    BY <2>1 DEF Begin, Joined
  <2>4. InLoop(t, r)'
    BY <1>2, <2>1, <2>2, <2>3 DEF InLoop
  <2> QED  BY <2>1, <2>4 DEF At
<1>5. Computed(t)' = Computed(t)
  <2>1. Joined(t)
    BY <1>1, <1>4 DEF IInv, SameRound
  <2> QED  BY <1>0, <1>2, <2>1 DEF Computed, Joined, ComputeLabels, Begin
<1>6. BarrierRight'
  <2>1. seen'[t] <= n_barrier_passed
    BY <1>2 DEF IInv, BarrierRight
  <2> QED  BY <1>0, <1>2, <2>1, BarrierKept DEF Begin, Held, Opening
<1>7. AbortRight'
  <2>1. CASE t = 0
    BY <1>0, <1>2, <2>1 DEF Begin, AbortRight, IInv
  <2>2. CASE t # 0
    BY <1>2, <2>2, Facts DEF Begin, AbortRight, IInv, Moves
  <2> QED  BY <2>1, <2>2
<1> QED  BY <1>1, <1>2, <1>3, <1>4, <1>5, <1>6, <1>7, LoopMove DEF Begin

LEMMA HeadNext ==
    ASSUME IInv, Typed', NEW t \in Threads, Head(t)
    PROVE  IInv'
<1> USE DEF pool, params, counters, found, caller
<1>0. /\ pc \in [Threads -> Labels] /\ node \in [Threads -> 0 .. NNodes]
      /\ pc[t] = "head" /\ abort \in -1 .. NNodes
  BY DEF IInv, Typed, TypeOK, Head
<1>1. Running /\ t \in Active
  BY <1>0, LoopRuns DEF IInv, LeftLastBarrier, ComputeLabels
<1>2. Moves(t) /\ seen'[t] = seen[t] /\ nth'[t] = nth[t]
      /\ \/ /\ node[t] < NNodes /\ abort # node[t]
            /\ pc'[t] = "compute" /\ node'[t] = node[t]
         \/ /\ ~ (node[t] < NNodes /\ abort # node[t])
            /\ pc'[t] = "load" /\ node'[t] = NNodes
  BY <1>0 DEF Head, Goto, Moves
<1>3. Running' /\ pc'[0] \notin {"kick", "kickgraph"}
  BY <1>1, <1>2, StillRunning DEF Running, ComputeLabels
<1>4. Cut' = Cut /\ Final' = Final /\ (Joined(t)' <=> Joined(t))
      /\ n_threads_cur' = n_threads_cur
  BY DEF Head, Cut, Final, Joined
<1>5. ASSUME NEW r \in Nat, At(t, r)
      PROVE  /\ At(t, r)' /\ Computed(t)' = Computed(t)
  <2>1. /\ Joined(t) /\ nth[t] = n_threads_cur
        /\ \/ node[t] = NNodes /\ Cut = NNodes /\ r = NNodes - 1
           \/ node[t] = r /\ r < NNodes /\ r <= Cut
    BY <1>0, <1>5, HeadAt
  <2>2. Cut \in 0 .. NNodes /\ (Cut < NNodes => Final = Cut)
        /\ (Cut = NNodes => Final = NNodes - 1) /\ NNodes \in Nat
    BY CutFacts DEF IInv
  <2>3. Computed(t) = node[t]
    BY <1>0, <2>1 DEF Computed, Joined, ComputeLabels
  <2>4. CASE pc'[t] = "compute"
    <3>1. node'[t] = r /\ r < Cut /\ node[t] = r /\ r < NNodes
      BY <1>0, <1>2, <2>1, <2>2, <2>4 DEF Cut
    <3>2. InLoop(t, r)'
      BY <1>2, <1>4, <2>1, <2>4, <3>1 DEF InLoop
    <3>3. Computed(t)' = node'[t]
      <4>1. t # 0 => last_graph'[t] = n_graph'
        BY <2>1 DEF Joined, Head
      <4>2. node'[t] < NNodes /\ (t = 0 => pc'[0] # "kickwake")
        BY <2>4, <3>1
      <4> QED  BY <2>4, <4>1, <4>2 DEF Computed, ComputeLabels
    <3> QED  BY <2>3, <3>1, <3>2, <3>3 DEF At
  <2>5. CASE pc'[t] = "load"
    <3>1. /\ node'[t] = NNodes
          /\ node[t] # NNodes => node[t] < NNodes /\ abort = node[t]
      BY <1>0, <1>2, <2>1, <2>5
    <3>2. r = Final /\ node[t] = Cut
      BY <1>0, <2>1, <2>2, <3>1 DEF Cut
    <3>3. AtBarrier(t, r)'
      BY <1>2, <1>4, <2>1, <2>5, <3>1, <3>2 DEF AtBarrier
    <3>4. Computed(t)' = Cut
      <4>1. t # 0 => last_graph'[t] = n_graph'
        BY <2>1 DEF Joined, Head
      <4>2. ~ (node'[t] < NNodes) /\ (t = 0 => pc'[0] # "kickwake")
        BY <2>2, <2>5, <3>1
      <4> QED  BY <1>4, <2>5, <4>1, <4>2 DEF Computed, ComputeLabels
    <3> QED  BY <2>3, <3>2, <3>3, <3>4 DEF At
  <2> QED  BY <1>2, <2>4, <2>5
<1>6. Computed(t)' = Computed(t)
  BY <1>1, <1>5 DEF IInv, SameRound
<1>7. BarrierRight'
  <2>1. seen'[t] <= n_barrier_passed
    BY <1>2 DEF IInv, BarrierRight
  <2> QED  BY <1>0, <1>2, <2>1, BarrierKept DEF Head, Held, Opening
<1>8. AbortRight'
  <2>1. CASE t = 0
    <3>1. node[0] < NNodes /\ abort # node[0] => abort = -1
      BY <1>0, <2>1 DEF AbortRight, IInv, ComputeLabels
    <3>2. abort' = abort /\ ec' = ec /\ (ec = "success" <=> abort = -1)
      BY DEF Head, AbortRight, IInv
    <3>3. \/ pc'[0] = "compute" /\ abort = -1
          \/ pc'[0] = "load" /\ node'[0] = NNodes
      BY <1>0, <1>2, <2>1, <3>1
    <3>4. ~ (NNodes < NNodes)
      BY Facts
    <3> QED  BY <3>2, <3>3, <3>4 DEF AbortRight
  <2>2. CASE t # 0
    BY <1>2, <2>2, Facts DEF Head, AbortRight, IInv, Moves
  <2> QED  BY <2>1, <2>2
<1> QED  BY <1>1, <1>2, <1>3, <1>5, <1>6, <1>7, <1>8, LoopMove DEF Head

LEMMA EnterNext ==
    ASSUME IInv, Typed', NEW t \in Threads, Enter(t)
    PROVE  IInv'
<1> USE DEF pool, params, local, found, caller
<1>0. /\ pc \in [Threads -> Labels] /\ pc[t] = "enter"
      /\ n_barrier \in Nat /\ n_threads_cur \in Nat /\ n_barrier_passed \in Nat
  BY Facts DEF IInv, Typed, TypeOK, Enter
<1>1. Running /\ t \in Active
  BY <1>0, LoopRuns DEF IInv, LeftLastBarrier, ComputeLabels
<1>2. Moves(t) /\ n_barrier' = n_barrier + 1
      /\ pc'[t] = IF n_barrier = n_threads_cur - 1 THEN "reset" ELSE "spin"
  <2>1. n_threads[t] = n_threads_cur
    BY <1>0, <1>1 DEF IInv, BarrierRight
  <2> QED  BY <1>0, <2>1 DEF Enter, Goto, Moves
<1>3. Running' /\ pc'[0] \notin {"kick", "kickgraph"}
  BY <1>1, <1>2, StillRunning DEF Running, ComputeLabels
<1>4. Active' = Active /\ Active \subseteq Threads
  BY ActiveFacts DEF Moves, Active, IInv, Enter
<1>5. seen[t] = n_barrier_passed
  BY <1>0, <1>1 DEF IInv, BarrierRight
<1>6. ASSUME NEW r \in Nat, At(t, r)  PROVE At(t, r)' /\ Computed(t)' = Computed(t)
  <2>1. AtBarrier(t, r)
    BY <1>0, <1>6, BarrierAt DEF IInv
  <2>2. Cut' = Cut /\ Final' = Final
    BY DEF Enter, Cut, Final
  <2>3. AtBarrier(t, r)'
    BY <1>2, <1>5, <2>1, <2>2 DEF Enter, AtBarrier, Held, Joined
  <2>4. Computed(t)' = Computed(t)
    BY <1>0, <1>2, <2>1, <2>2 DEF Enter, Computed, ComputeLabels, AtBarrier, Joined
  <2> QED  BY <2>3, <2>4 DEF At
<1>7. Computed(t)' = Computed(t)
  BY <1>1, <1>6 DEF IInv, SameRound
<1>8. BarrierRight'
  <2>1. /\ \A u \in Active : ~ Opening(u)
        /\ n_barrier = Cardinality(HeldThreads)
        /\ t \notin HeldThreads /\ IsFiniteSet(HeldThreads)
        /\ n_barrier = n_threads_cur - 1 => HeldThreads = Active \ {t}
    BY <1>0, EnterRoom
  <2>2. \A u \in Threads : u # t => /\ Held(u)' <=> Held(u)
                                    /\ Opening(u)' <=> Opening(u)
                                    /\ pc'[u] = pc[u]
    BY <1>2 DEF Moves, Held, Opening, Enter
  <2>3. \A u \in Threads : seen'[u] <= n_barrier_passed'
    BY DEF Enter, IInv, BarrierRight
  <2>4. \A u \in Active : pc'[u] = "enter" =>
           n_threads'[u] = n_threads_cur' /\ seen'[u] = n_barrier_passed'
    BY <1>2, <1>4, <2>2 DEF Enter, IInv, BarrierRight
  <2>5. CASE n_barrier = n_threads_cur - 1
    <3>1. pc'[t] = "reset" /\ Opening(t)'
      BY <1>2, <2>5 DEF Opening
    <3>2. \A u \in Active : u # t => Held(u)' /\ pc'[u] # "release"
      BY <1>4, <2>1, <2>2, <2>5 DEF HeldThreads, Held
    <3>3. \A u \in Active : u # t => ~ Opening(u)'
      BY <1>4, <2>1, <2>2
    <3> QED  BY <1>1, <1>4, <2>3, <2>4, <3>1, <3>2, <3>3 DEF BarrierRight
  <2>6. CASE n_barrier # n_threads_cur - 1
    <3>1. pc'[t] = "spin" /\ Held(t)' /\ ~ Opening(t)'
      BY <1>2, <1>5, <2>6 DEF Opening, Held, Enter
    <3>2. HeldThreads' = HeldThreads \cup {t}
      BY <1>1, <1>4, <2>2, <3>1 DEF HeldThreads
    <3>3. n_barrier' = Cardinality(HeldThreads')
      BY <1>2, <2>1, <3>2, FS_AddElement
    <3>4. \A u \in Active : ~ Opening(u)' /\ pc'[u] # "release"
      BY <1>4, <2>1, <2>2, <3>1 DEF Opening
    <3> QED  BY <1>4, <2>3, <2>4, <3>3, <3>4 DEF BarrierRight
  <2> QED  BY <2>5, <2>6
<1>9. AbortRight'
  <2>1. CASE t = 0
    BY <1>0, <1>2, <2>1 DEF Enter, AbortRight, IInv, ComputeLabels
  <2>2. CASE t # 0
    BY <1>2, <2>2, Facts DEF Enter, AbortRight, IInv, Moves
  <2> QED  BY <2>1, <2>2
<1> QED  BY <1>1, <1>2, <1>3, <1>6, <1>7, <1>8, <1>9, LoopMove DEF Enter

LEMMA ResetNext ==
    ASSUME IInv, Typed', NEW t \in Threads, Reset(t)
    PROVE  IInv'
<1> USE DEF pool, params, local, found, caller
<1>0. pc \in [Threads -> Labels] /\ pc[t] = "reset"
  BY Facts DEF IInv, Typed, TypeOK, Reset
<1>1. Running /\ t \in Active
  BY <1>0, LoopRuns DEF IInv, LeftLastBarrier, ComputeLabels
<1>2. Moves(t) /\ n_barrier' = 0 /\ pc'[t] = "release"
  BY <1>0 DEF Reset, Goto, Moves
<1>3. Running' /\ pc'[0] \notin {"kick", "kickgraph"}
  BY <1>1, <1>2, StillRunning DEF Running, ComputeLabels
<1>4. Active' = Active /\ Active \subseteq Threads
  BY ActiveFacts DEF Moves, Active, IInv, Reset
<1>5. ASSUME NEW r \in Nat, At(t, r)  PROVE At(t, r)' /\ Computed(t)' = Computed(t)
  <2>1. AtBarrier(t, r)
    BY <1>0, <1>5, BarrierAt DEF IInv
  <2>2. Cut' = Cut /\ Final' = Final
    BY DEF Reset, Cut, Final
  <2>3. AtBarrier(t, r)'
    BY <1>2, <2>1, <2>2 DEF Reset, AtBarrier, Joined
  <2>4. Computed(t)' = Computed(t)
    BY <1>0, <1>2, <2>1, <2>2 DEF Reset, Computed, ComputeLabels, AtBarrier, Joined
  <2> QED  BY <2>3, <2>4 DEF At
<1>6. Computed(t)' = Computed(t)
  BY <1>1, <1>5 DEF IInv, SameRound
<1>7. BarrierRight'
  <2>1. \A u \in Active : u # t => Held(u)
    BY <1>0, <1>1 DEF IInv, BarrierRight, Opening
  <2>2. \A u \in Active : u # t => Held(u)' /\ pc'[u] = "spin"
    BY <1>2, <1>4, <2>1 DEF Moves, Held, Reset
  <2>3. \A u \in Threads : seen'[u] <= n_barrier_passed'
    BY DEF Reset, IInv, BarrierRight
  <2>4. Opening(t)'
    BY <1>2 DEF Opening
  <2> QED  BY <1>1, <1>2, <1>4, <2>2, <2>3, <2>4 DEF BarrierRight, Opening
<1>8. AbortRight'
  <2>1. CASE t = 0
    BY <1>0, <1>2, <2>1 DEF Reset, AbortRight, IInv, ComputeLabels
  <2>2. CASE t # 0
    BY <1>2, <2>2, Facts DEF Reset, AbortRight, IInv, Moves
  <2> QED  BY <2>1, <2>2
<1> QED  BY <1>1, <1>2, <1>3, <1>5, <1>6, <1>7, <1>8, LoopMove DEF Reset

\* Where a thread goes when the barrier it is at opens.
LEMMA Leaves ==
    ASSUME IInv, NEW t \in Threads, NEW r \in Nat, AtBarrier(t, r), BarrierReturn(t),
           UNCHANGED <<node, nth, last_graph, n_graph, n_threads_cur, abort>>
    PROVE  At(t, r + 1)' /\ Computed(t)' = Computed(t)
<1>0. pc \in [Threads -> Labels] /\ node[t] \in 0 .. NNodes
  BY DEF IInv, Typed, TypeOK
<1>1. Cut' = Cut /\ Final' = Final /\ (Joined(t)' <=> Joined(t))
  BY DEF Cut, Final, Joined
<1>2. pc[t] \in {"load", "enter", "reset", "release", "spin"} /\ Joined(t)
      /\ nth[t] = n_threads_cur
  BY DEF AtBarrier, Held
<1>3. CASE node[t] = NNodes /\ r = Final
  <2>1. pc'[t] = IF t = 0 THEN "return" ELSE "loop"
    BY <1>0, <1>3, Facts DEF BarrierReturn, Goto
  <2>2. Through(t, r + 1)'
    BY <1>1, <1>2, <1>3, <2>1 DEF Through, ComputeLabels
  <2>3. Computed(t)' = Cut /\ Computed(t) = Cut
    BY <1>1, <1>2, <1>3, <2>1, Facts DEF Computed, ComputeLabels, Joined
  <2> QED  BY <2>2, <2>3 DEF At
<1>4. CASE node[t] = r + 1 /\ node[t] < NNodes /\ node[t] <= Cut
  <2>1. pc'[t] = "head"
    BY <1>0, <1>4 DEF BarrierReturn, Goto
  <2>2. InLoop(t, r + 1)'
    BY <1>1, <1>2, <1>4, <2>1 DEF InLoop
  <2>3. Computed(t)' = node[t] /\ Computed(t) = node[t]
    BY <1>1, <1>2, <1>4, <2>1 DEF Computed, ComputeLabels, Joined
  <2> QED  BY <2>2, <2>3 DEF At
<1> QED  BY <1>3, <1>4 DEF AtBarrier

\* A spinning thread sees that its barrier has opened.
LEMMA SpinNext ==
    ASSUME IInv, Typed', NEW t \in Threads, Spin(t)
    PROVE  IInv'
<1> USE DEF pool, params, counters, local, found, caller
<1>0. /\ pc \in [Threads -> Labels] /\ pc[t] = "spin" /\ node[t] \in 0 .. NNodes
      /\ seen[t] \in Nat /\ n_barrier_passed \in Nat /\ NNodes \in Nat
      /\ seen[t] <= n_barrier_passed /\ seen[t] # n_barrier_passed
  BY Facts DEF IInv, Typed, TypeOK, Spin, BarrierRight
<1>1. LetOut(t) /\ ~ Held(t) /\ ~ Opening(t) /\ ~ Held(t)'
  BY <1>0 DEF LetOut, Held, Opening, Spin, BarrierReturn, Goto
<1>2. Moves(t)
      /\ pc'[t] = (IF node[t] < NNodes THEN "head" ELSE IF t = 0 THEN "return" ELSE "loop")
  BY <1>0 DEF Spin, BarrierReturn, Goto, Moves
<1>3. BarrierRight'
  <2>1. seen'[t] <= n_barrier_passed
    BY <1>0 DEF Spin
  <2>2. ~ Opening(t)' /\ pc'[t] # "enter"
    BY <1>2 DEF Opening
  <2> QED  BY <1>1, <1>2, <2>1, <2>2, BarrierKept DEF Spin
<1>4. AbortRight'
  <2>1. CASE t = 0
    BY <1>0, <1>2, <2>1 DEF Spin, AbortRight, IInv, ComputeLabels
  <2>2. CASE t # 0
    BY <1>2, <2>2, Facts DEF Spin, AbortRight, IInv, Moves
  <2> QED  BY <2>1, <2>2
<1>5. CASE Running /\ t \in Active
  <2>1. Running' /\ pc'[0] \notin {"kick", "kickgraph"}
    BY <1>2, <1>5, StillRunning DEF Running, ComputeLabels
  <2>2. ASSUME NEW r \in Nat, At(t, r)  PROVE At(t, r)' /\ Computed(t)' = Computed(t)
    <3>0. Cut' = Cut /\ Final' = Final /\ (Joined(t)' <=> Joined(t))
      BY DEF Spin, Cut, Final, Joined
    <3>1. CASE Coming(t, r)
      <4>1. r = 0 /\ t # 0 /\ last_graph[t] # n_graph /\ node[t] = NNodes
        BY <1>0, <3>1 DEF Coming, Resting, LeftLastBarrier, ComputeLabels
      <4>2. pc'[t] = "loop"
        BY <1>0, <1>2, <4>1
      <4>3. Coming(t, r)' /\ Computed(t)' = 0 /\ Computed(t) = 0
        BY <4>1, <4>2 DEF Coming, Resting, ComputeLabels, Computed, Spin
      <4> QED  BY <4>3 DEF At
    <3>2. CASE InLoop(t, r)
      <4>1. Joined(t) /\ nth[t] = n_threads_cur /\ node[t] = r /\ r < NNodes /\ r <= Cut
        BY <1>0, <3>2 DEF InLoop
      <4>2. pc'[t] = "head"
        BY <1>2, <4>1
      <4>3. InLoop(t, r)'
        BY <3>0, <4>1, <4>2 DEF InLoop, Spin
      <4>4. Computed(t)' = r /\ Computed(t) = r
        BY <1>0, <3>0, <4>1, <4>2 DEF Computed, ComputeLabels, Joined, Spin
      <4> QED  BY <4>3, <4>4 DEF At
    <3>3. CASE Through(t, r)
      <4>1. Joined(t) /\ r = Final + 1 /\ node[t] = NNodes
        BY <1>0, <3>3 DEF Through, ComputeLabels
      <4>2. pc'[t] = IF t = 0 THEN "return" ELSE "loop"
        BY <1>0, <1>2, <4>1
      <4>3. Through(t, r)'
        BY <3>0, <4>1, <4>2 DEF Through, ComputeLabels
      <4>4. Computed(t)' = Cut /\ Computed(t) = Cut
        BY <1>0, <3>0, <4>1, <4>2 DEF Computed, ComputeLabels, Joined, Spin
      <4> QED  BY <4>3, <4>4 DEF At
    <3>4. ~ AtBarrier(t, r)
      BY <1>0, <1>1 DEF AtBarrier
    <3> QED  BY <2>2, <3>1, <3>2, <3>3, <3>4 DEF At
  <2>3. Computed(t)' = Computed(t)
    BY <1>5, <2>2 DEF IInv, SameRound
  <2> QED  BY <1>2, <1>3, <1>4, <1>5, <2>1, <2>2, <2>3, LoopMove DEF Spin
<1>6. CASE ~ (Running /\ t \in Active)
  <2>1. t \in Workers /\ t # 0 /\ 0 \in Threads
    <3>1. LeftLastBarrier(t)
      BY <1>0, <1>6, LoopRuns DEF IInv, ComputeLabels
    <3>2. t # 0
      BY <1>0, <1>6, ActiveFacts DEF Running, ComputeLabels, IInv
    <3> QED  BY <3>2, Facts
  <2>2. LeftLastBarrier(t)
    BY <1>0, <1>6, LoopRuns DEF IInv, ComputeLabels
  <2>3. pc'[t] = "loop"
    BY <1>0, <1>2, <2>1, <2>2 DEF LeftLastBarrier
  <2>4. (Running' <=> Running) /\ pc'[0] = pc[0] /\ CallRight'
    BY <1>2, <2>1, CallerUnmoved DEF Spin
  <2>5. SameRound'
    BY <1>2, <1>6, <2>4, RoundKept DEF Spin
  <2>6. OthersRest' /\ CaughtUp'
    <3>1. Resting(t)'
      BY <2>3 DEF Resting, ComputeLabels
    <3>2. t \in Active /\ ~ Running => last_graph'[t] = n_graph /\ pc'[t] # "readactive"
      BY <2>1, <2>3 DEF Spin, IInv, CaughtUp
    <3>3. n_barrier_passed' >= n_barrier_passed /\ n_barrier_passed' \in Nat
      BY <1>0 DEF Spin
    <3> QED  BY <1>0, <1>2, <2>4, <3>1, <3>2, <3>3, OthersKept DEF Spin
  <2>7. WorkRight'
    <3>1. CASE pc[0] = "kickgraph"
      <4>1. ~ Running'
        BY <2>4, <3>1 DEF Running, ComputeLabels
      <4> QED  BY <2>4, <3>1, <4>1 DEF IInv, WorkRight, Spin
    <3>2. CASE pc[0] # "kickgraph"
      BY <1>2, <1>6, <2>4, <3>2, WorkKept DEF Spin
    <3> QED  BY <3>1, <3>2
  <2> QED  BY <1>3, <1>4, <2>4, <2>5, <2>6, <2>7 DEF IInv
<1> QED  BY <1>5, <1>6

LEMMA ReleaseNext ==
    ASSUME IInv, Typed', NEW t \in Threads, Release(t)
    PROVE  IInv'
<1> USE DEF pool, params, local, found, caller
<1>0. /\ pc \in [Threads -> Labels] /\ pc[t] = "release" /\ node[t] \in 0 .. NNodes
      /\ n_barrier_passed \in Nat /\ \A u \in Threads : seen[u] \in Nat
      /\ \A u \in Threads : seen[u] <= n_barrier_passed
  BY Facts DEF IInv, Typed, TypeOK, Release, BarrierRight
<1>1. Running /\ t \in Active
  BY <1>0, LoopRuns DEF IInv, LeftLastBarrier, ComputeLabels
<1>2. Moves(t) /\ n_barrier_passed' = n_barrier_passed + 1 /\ n_barrier' = 0
      /\ pc'[t] = (IF node[t] < NNodes THEN "head" ELSE IF t = 0 THEN "return" ELSE "loop")
  <2>1. n_barrier = 0
    BY <1>0, <1>1 DEF IInv, BarrierRight
  <2> QED  BY <1>0, <2>1 DEF Release, BarrierReturn, Goto, Moves
<1>3. Running' /\ pc'[0] \notin {"kick", "kickgraph"}
  BY <1>1, <1>2, StillRunning DEF Running, ComputeLabels
<1>4. Active' = Active /\ Active \subseteq Threads
  BY ActiveFacts DEF Moves, Active, IInv, Release
<1>5. \A u \in Active : u # t => Held(u)
  BY <1>0, <1>1 DEF IInv, BarrierRight, Opening
<1>6. Cut' = Cut /\ Final' = Final /\ \A u \in Threads : Joined(u)' <=> Joined(u)
  BY DEF Release, Cut, Final, Joined
<1>7. PICK r \in Nat : \A u \in Active : At(u, r)
  BY <1>1 DEF IInv, SameRound
<1>8. \A u \in Active : AtBarrier(u, r)
  <2>1. ASSUME NEW u \in Active  PROVE AtBarrier(u, r)
    <3>1. pc[u] = "release" \/ Held(u)
      BY <1>0, <1>5
    <3> QED  BY <1>4, <1>7, <3>1, BarrierAt DEF IInv
  <2> QED  BY <2>1
<1>9. At(t, r + 1)' /\ Computed(t)' = Computed(t)
  BY <1>1, <1>8, Leaves DEF Release
<1>10. SameRound'
  <2>1. ASSUME NEW u \in Active, u # t  PROVE At(u, r + 1)'
    <3>1. pc'[u] = "spin" /\ LetOut(u)' /\ node'[u] = node[u] /\ nth'[u] = nth[u]
      BY <1>0, <1>2, <1>4, <1>5, <2>1 DEF Held, LetOut, Moves
    <3>2. Joined(u) /\ nth[u] = n_threads_cur
          /\ \/ node[u] = NNodes /\ r = Final
             \/ node[u] = r + 1 /\ node[u] < NNodes /\ node[u] <= Cut
      BY <1>8, <2>1 DEF AtBarrier
    <3>3. CASE node[u] = NNodes /\ r = Final
      <4>1. Through(u, r + 1)'
        BY <1>4, <1>6, <3>1, <3>2, <3>3 DEF Through
      <4> QED  BY <4>1 DEF At
    <3>4. CASE node[u] = r + 1 /\ node[u] < NNodes /\ node[u] <= Cut
      <4>1. InLoop(u, r + 1)'
        BY <1>4, <1>6, <3>1, <3>2, <3>4 DEF InLoop, Release
      <4> QED  BY <4>1 DEF At
    <3> QED  BY <3>2, <3>3, <3>4
  <2> QED  BY <1>4, <1>9, <2>1 DEF SameRound
<1>11. OthersRest' /\ CaughtUp'
  <2>1. n_barrier_passed' >= n_barrier_passed /\ n_barrier_passed' \in Nat
    BY <1>0, <1>2
  <2> QED  BY <1>0, <1>1, <1>2, <1>3, <2>1, OthersKept
<1>12. BarrierRight'
  <2>1. \A u \in Active : ~ Held(u)' /\ ~ Opening(u)' /\ pc'[u] \notin {"enter", "release"}
    BY <1>0, <1>2, <1>4, <1>5 DEF Held, Opening, Moves, Release
  <2>2. HeldThreads' = {}
    BY <1>4, <2>1 DEF HeldThreads
  <2>3. \A u \in Threads : seen'[u] <= n_barrier_passed'
    BY <1>0, <1>2 DEF Release
  <2> QED  BY <1>2, <1>4, <2>1, <2>2, <2>3, FS_EmptySet DEF BarrierRight
<1>13. AbortRight'
  <2>1. CASE t = 0
    BY <1>0, <1>2, <2>1 DEF Release, AbortRight, IInv, ComputeLabels
  <2>2. CASE t # 0
    BY <1>2, <2>2, Facts DEF Release, AbortRight, IInv, Moves
  <2> QED  BY <2>1, <2>2
<1>14. WorkRight'
  BY <1>1, <1>2, <1>3, <1>9, WorkKept DEF Release
<1>15. CallRight'
  BY <1>3 DEF CallRight
<1> QED  BY <1>10, <1>11, <1>12, <1>13, <1>14, <1>15 DEF IInv

LEMMA LoadNext ==
    ASSUME IInv, Typed', NEW t \in Threads, Load(t)
    PROVE  IInv'
<1> USE DEF pool, params, counters, found, caller
<1>0. /\ pc \in [Threads -> Labels] /\ pc[t] = "load" /\ node[t] \in 0 .. NNodes
      /\ seen \in [Threads -> Nat] /\ n_threads \in [Threads -> 0 .. N]
      /\ n_barrier_passed \in Nat /\ \A u \in Threads : seen[u] <= n_barrier_passed
  BY Facts DEF IInv, Typed, TypeOK, Load, BarrierRight
<1>1. Running /\ t \in Active
  BY <1>0, LoopRuns DEF IInv, LeftLastBarrier, ComputeLabels
<1>2. Moves(t) /\ n_threads'[t] = n_threads_cur
      /\ \/ n_threads_cur = 1 /\ BarrierReturn(t) /\ seen' = seen
         \/ n_threads_cur # 1 /\ pc'[t] = "enter" /\ seen'[t] = n_barrier_passed
  BY <1>0 DEF Load, BarrierReturn, Goto, Moves
<1>3. pc'[t] \in {"head", "return", "loop", "enter"} /\ (t = 0 => pc'[t] # "loop")
  BY <1>0, <1>2 DEF BarrierReturn, Goto
<1>4. Running' /\ pc'[0] \notin {"kick", "kickgraph"}
  BY <1>1, <1>2, <1>3, StillRunning DEF Running, ComputeLabels
<1>5. Active' = Active /\ Active \subseteq Threads
  BY ActiveFacts DEF Moves, Active, IInv, Load
<1>6. ~ Held(t) /\ ~ Held(t)' /\ ~ Opening(t) /\ ~ Opening(t)'
  BY <1>0, <1>3 DEF Held, Opening
<1>7. BarrierRight'
  <2>1. \A u \in Active : ~ Opening(u)
    BY <1>0, EnterRoom
  <2>2. \A u \in Threads : u # t => /\ Held(u)' <=> Held(u)
                                    /\ Opening(u)' <=> Opening(u)
                                    /\ pc'[u] = pc[u] /\ seen'[u] = seen[u]
                                    /\ n_threads'[u] = n_threads[u]
    BY <1>2 DEF Moves, Held, Opening, Load
  <2>3. HeldThreads' = HeldThreads
    BY <1>5, <1>6, <2>2 DEF HeldThreads
  <2>4. \A u \in Threads : seen'[u] <= n_barrier_passed'
    BY <1>0, <1>2, <2>2 DEF Load
  <2>5. \A u \in Active : pc'[u] = "enter" =>
           n_threads'[u] = n_threads_cur' /\ seen'[u] = n_barrier_passed'
    <3>1. pc'[t] = "enter" => n_threads'[t] = n_threads_cur' /\ seen'[t] = n_barrier_passed'
      BY <1>0, <1>2 DEF Load, BarrierReturn, Goto
    <3> QED  BY <1>5, <2>2, <3>1 DEF Load, IInv, BarrierRight
  <2>6. \A u \in Active : ~ Opening(u)' /\ pc'[u] # "release"
    BY <1>5, <1>6, <2>1, <2>2 DEF Opening
  <2>7. n_barrier' = Cardinality(HeldThreads')
    BY <2>1, <2>3 DEF IInv, BarrierRight, Load
  <2> QED  BY <1>5, <2>4, <2>5, <2>6, <2>7 DEF BarrierRight
<1>8. AbortRight'
  <2>1. CASE t = 0
    BY <1>0, <1>3, <2>1 DEF Load, AbortRight, IInv, ComputeLabels
  <2>2. CASE t # 0
    BY <1>2, <2>2, Facts DEF Load, AbortRight, IInv, Moves
  <2> QED  BY <2>1, <2>2
<1>9. CASE n_threads_cur # 1
  <2>1. pc'[t] = "enter" /\ seen'[t] = n_barrier_passed
    BY <1>2, <1>9
  <2>2. ASSUME NEW r \in Nat, At(t, r)  PROVE At(t, r)' /\ Computed(t)' = Computed(t)
    <3>1. AtBarrier(t, r)
      BY <1>0, <2>2, BarrierAt DEF IInv
    <3>2. Cut' = Cut /\ Final' = Final
      BY DEF Load, Cut, Final
    <3>3. AtBarrier(t, r)'
      BY <2>1, <3>1, <3>2 DEF Load, AtBarrier, Joined
    <3>4. Computed(t)' = Computed(t)
      BY <1>0, <2>1, <3>1, <3>2 DEF Load, Computed, ComputeLabels, AtBarrier, Joined
    <3> QED  BY <3>3, <3>4 DEF At
  <2>3. Computed(t)' = Computed(t)
    BY <1>1, <2>2 DEF IInv, SameRound
  <2> QED  BY <1>1, <1>2, <1>4, <1>7, <1>8, <2>2, <2>3, LoopMove DEF Load
<1>10. CASE n_threads_cur = 1
  <2>1. Active = {0} /\ t = 0
    BY <1>1, <1>10 DEF Active
  <2>2. PICK r \in Nat : At(t, r)
    BY <1>1 DEF IInv, SameRound
  <2>3. AtBarrier(t, r)
    BY <1>0, <2>2, BarrierAt DEF IInv
  <2>4. At(t, r + 1)' /\ Computed(t)' = Computed(t)
    BY <1>2, <1>10, <2>3, Leaves DEF Load
  <2>5. SameRound'
    BY <1>5, <2>1, <2>4 DEF SameRound
  <2>6. OthersRest' /\ CaughtUp'
    <3>1. n_barrier_passed' = n_barrier_passed /\ n_barrier_passed' >= n_barrier_passed
          /\ n_barrier_passed' \in Nat
      BY <1>0 DEF Load
    <3> QED  BY <1>1, <1>2, <1>4, <2>1, <3>1, OthersKept
  <2>7. WorkRight'
    BY <1>1, <1>2, <1>4, <2>4, WorkKept DEF Load
  <2>8. CallRight'
    BY <1>4 DEF CallRight
  <2> QED  BY <1>7, <1>8, <2>5, <2>6, <2>7, <2>8 DEF IInv
<1> QED  BY <1>9, <1>10

\* A thread computes its share; the caller may then abort the graph.
LEMMA ComputeNext ==
    ASSUME IInv, Typed', NEW t \in Threads, Compute(t)
    PROVE  IInv'
<1> USE DEF pool, counters, found, caller
<1>0. /\ pc \in [Threads -> Labels] /\ pc[t] = "compute"
      /\ node \in [Threads -> 0 .. NNodes] /\ NNodes \in Nat
      /\ work \in [Nodes -> SUBSET Threads] /\ abort \in -1 .. NNodes
  BY Facts DEF IInv, Typed, TypeOK, Compute
<1>1. Running /\ t \in Active
  BY <1>0, LoopRuns DEF IInv, LeftLastBarrier, ComputeLabels
<1>2. Moves(t) /\ node'[t] = node[t] + 1 /\ seen' = seen /\ nth' = nth
      /\ pc'[t] = (IF node[t] + 1 < NNodes THEN "load" ELSE "head")
  BY <1>0 DEF Compute, Goto, Moves
<1>3. Running' /\ pc'[0] \notin {"kick", "kickgraph"}
  BY <1>1, <1>2, StillRunning DEF Running, ComputeLabels
<1>4. Active' = Active /\ Active \subseteq Threads
  BY ActiveFacts DEF Moves, Active, IInv, Compute
<1>5. PICK r \in Nat : \A u \in Active : At(u, r)
  BY <1>1 DEF IInv, SameRound
<1>6. Joined(t) /\ nth[t] = n_threads_cur /\ node[t] = r /\ r < Cut
  BY <1>0, <1>1, <1>5, ComputeAt
<1>7. /\ Cut \in 0 .. NNodes /\ Final \in 0 .. NNodes - 1 /\ NNodes >= 1
      /\ (Cut < NNodes => Final = Cut) /\ (Cut = NNodes => Final = NNodes - 1)
  BY CutFacts DEF IInv
<1>8. \/ abort' = abort /\ ec' = ec
      \/ t = 0 /\ abort' = r + 1 /\ ec' = "aborted" /\ abort = -1 /\ Cut = NNodes
  <2>1. t = 0 => abort = -1
    BY <1>0 DEF IInv, AbortRight
  <2>2. abort = -1 => Cut = NNodes
    BY DEF Cut
  <2> QED  BY <1>6, <2>1, <2>2 DEF Compute, params
<1>9. /\ r + 1 <= Cut' /\ Cut' <= NNodes /\ Cut' \in Nat
      /\ (Cut' < NNodes => Final' = Cut') /\ (Cut' = NNodes => Final' = NNodes - 1)
  <2>1. CASE abort' = abort
    BY <1>6, <1>7, <2>1 DEF Cut, Final
  <2>2. CASE abort' = r + 1
    BY <1>0, <1>6, <1>7, <2>2 DEF Cut, Final
  <2> QED  BY <1>8, <2>1, <2>2
<1>10. At(t, r)'
  <2>1. Joined(t)' /\ nth'[t] = n_threads_cur'
    BY <1>2, <1>6 DEF Compute, Joined
  <2>2. CASE r + 1 < NNodes
    <3>1. AtBarrier(t, r)'
      BY <1>2, <1>6, <1>9, <2>1, <2>2 DEF AtBarrier
    <3> QED  BY <3>1 DEF At
  <2>3. CASE ~ (r + 1 < NNodes)
    <3>1. r + 1 = NNodes /\ Cut' = NNodes
      BY <1>0, <1>6, <1>7, <1>9, <2>3
    <3>2. InLoop(t, r)'
      BY <1>2, <1>6, <2>1, <2>3, <3>1 DEF InLoop
    <3> QED  BY <3>2 DEF At
  <2> QED  BY <2>2, <2>3
<1>11. Computed(t) = r /\ Computed(t)' = r + 1
  <2>1. Computed(t) = r
    BY <1>0, <1>6, <1>7 DEF Computed, ComputeLabels, Joined
  <2>2. Computed(t)' = r + 1
    BY <1>2, <1>6 DEF Computed, ComputeLabels, Joined, Compute
  <2> QED  BY <2>1, <2>2
<1>12. ASSUME NEW u \in Active, u # t
       PROVE  At(u, r)' /\ Computed(u)' = Computed(u)
  <2>0. /\ pc'[u] = pc[u] /\ node'[u] = node[u] /\ seen'[u] = seen[u] /\ nth'[u] = nth[u]
        /\ u # 0 => last_graph'[u] = last_graph[u] /\ new_graph'[u] = new_graph[u]
        /\ n_graph' = n_graph /\ n_threads_cur' = n_threads_cur
        /\ n_barrier_passed' = n_barrier_passed
    BY <1>2, <1>4, <1>12 DEF Moves, Compute
  <2>1. CASE abort' = abort
    BY <1>4, <1>5, <1>12, <2>0, <2>1, AtStays, ComputedStays
  <2>2. CASE t = 0 /\ abort' = r + 1 /\ Cut = NNodes
    <3>1. (Joined(u)' <=> Joined(u)) /\ (Held(u)' <=> Held(u)) /\ (LetOut(u)' <=> LetOut(u))
          /\ (Resting(u)' <=> Resting(u)) /\ u # 0
      BY <1>12, <2>0, <2>2 DEF Joined, Held, LetOut, Resting, LeftLastBarrier
    <3>2. Cut' = r + 1
      BY <1>0, <2>2 DEF Cut
    <3>3. CASE Coming(u, r)
      <4>1. Coming(u, r)'
        BY <2>0, <3>1, <3>3 DEF Coming
      <4>2. Computed(u)' = Computed(u)
        BY <2>0, <3>1, <3>3 DEF Coming, Computed
      <4> QED  BY <4>1, <4>2 DEF At
    <3>4. CASE InLoop(u, r)
      <4>1. InLoop(u, r)'
        BY <1>0, <1>9, <2>0, <2>2, <3>1, <3>2, <3>4 DEF InLoop
      <4>2. Computed(u)' = Computed(u)
        BY <2>0, <2>2, <3>1, <3>4 DEF InLoop, Computed, Joined, LetOut, ComputeLabels
      <4> QED  BY <4>1, <4>2 DEF At
    <3>5. CASE AtBarrier(u, r)
      <4>1. AtBarrier(u, r)'
        BY <1>0, <1>7, <1>9, <2>0, <2>2, <3>1, <3>2, <3>5 DEF AtBarrier
      <4>2. pc[u] \in ComputeLabels /\ (node[u] < NNodes \/ r + 1 = NNodes)
        BY <1>0, <1>7, <2>2, <3>5 DEF AtBarrier, Held, ComputeLabels
      <4>3. Computed(u)' = Computed(u)
        BY <1>0, <2>0, <2>2, <3>1, <3>2, <4>2 DEF Computed
      <4> QED  BY <4>1, <4>3 DEF At
    <3>6. ~ Through(u, r)
      BY <1>6, <1>7, <2>2 DEF Through
    <3> QED  BY <1>5, <3>3, <3>4, <3>5, <3>6 DEF At
  <2> QED  BY <1>8, <2>1, <2>2
<1>13. SameRound'
  BY <1>4, <1>10, <1>12 DEF SameRound
<1>14. OthersRest' /\ CaughtUp'
  <2>1. n_barrier_passed' = n_barrier_passed /\ n_barrier_passed' >= n_barrier_passed
        /\ n_barrier_passed' \in Nat
    BY DEF Compute, IInv, Typed, TypeOK
  <2> QED  BY <1>1, <1>2, <1>3, <2>1, OthersKept
<1>15. BarrierRight'
  <2>1. ~ Held(t) /\ ~ Held(t)' /\ ~ Opening(t) /\ ~ Opening(t)' /\ pc'[t] # "enter"
    BY <1>0, <1>2 DEF Held, Opening
  <2>2. seen'[t] <= n_barrier_passed
    BY <1>2 DEF IInv, BarrierRight
  <2> QED  BY <1>2, <2>1, <2>2, BarrierKept DEF Compute
<1>16. AbortRight'
  <2>1. CASE t = 0
    <3>1. abort = -1 /\ ec = "success"
      BY <1>0, <2>1 DEF IInv, AbortRight
    <3>2. pc'[0] \in {"load", "head"} /\ node'[0] = r + 1
      BY <1>2, <1>6, <2>1
    <3> QED  BY <1>8, <3>1, <3>2 DEF AbortRight
  <2>2. CASE t # 0
    <3>1. abort' = abort /\ ec' = ec /\ pc'[0] = pc[0] /\ node'[0] = node[0]
      BY <1>2, <1>8, <2>2, Facts DEF Moves
    <3> QED  BY <3>1 DEF AbortRight, IInv
  <2> QED  BY <2>1, <2>2
<1>17. WorkRight'
  <2>1. ASSUME NEW k \in Nodes  PROVE work'[k] = {u \in Active' : k < Computed(u)'}
    <3>1. work[k] = {u \in Active : k < Computed(u)}
      BY <1>1 DEF IInv, WorkRight
    <3>2. k \in Nat /\ r \in Nodes
      BY <1>0, <1>6, <1>7 DEF Nodes
    <3>3. CASE k = r
      <4>1. work'[k] = work[k] \cup {t}
        BY <1>0, <1>6, <3>2, <3>3 DEF Compute
      <4>2. \A u \in Active : k < Computed(u)' <=> k < Computed(u) \/ u = t
        BY <1>11, <1>12, <3>2, <3>3
      <4> QED  BY <1>1, <1>4, <3>1, <4>1, <4>2
    <3>4. CASE k # r
      <4>1. work'[k] = work[k]
        BY <1>0, <1>6, <3>2, <3>4 DEF Compute
      <4>2. \A u \in Active : k < Computed(u)' <=> k < Computed(u)
        BY <1>11, <1>12, <3>2, <3>4
      <4> QED  BY <1>4, <3>1, <4>1, <4>2
    <3> QED  BY <3>3, <3>4
  <2> QED  BY <1>3, <2>1 DEF WorkRight
<1>18. CallRight'
  BY <1>3 DEF CallRight
<1> QED  BY <1>13, <1>14, <1>15, <1>16, <1>17, <1>18 DEF IInv

-----------------------------------------------------------------------------
(* Steps of the caller between graphs. *)

\* With no graph running, no thread is in the barrier.
LEMMA QuietBarrier ==
    ASSUME IInv, ~ Running
    PROVE  /\ \A u \in Active : /\ ~ Held(u) /\ ~ Opening(u)
                                /\ pc[u] \notin {"enter", "release"}
           /\ HeldThreads = {} /\ n_barrier = 0
<1>1. ASSUME NEW u \in Active
      PROVE  ~ Held(u) /\ ~ Opening(u) /\ pc[u] \notin {"enter", "release"}
  <2>1. CASE u = 0
    BY <2>1 DEF Running, Held, Opening, ComputeLabels
  <2>2. CASE u # 0
    <3>1. u \in Workers
      BY <2>2, Facts, ActiveFacts DEF IInv
    <3>2. Resting(u)
      BY <3>1 DEF IInv, OthersRest
    <3> QED  BY <3>2 DEF Resting, LeftLastBarrier, Held, Opening, ComputeLabels
  <2> QED  BY <2>1, <2>2
<1>2. HeldThreads = {}
  BY <1>1 DEF HeldThreads
<1>3. n_barrier = 0
  BY <1>1, <1>2, FS_EmptySet DEF IInv, BarrierRight
<1> QED  BY <1>1, <1>2, <1>3

\* The caller moves between two graphs.
LEMMA BetweenGraphs ==
    ASSUME IInv, Moves(0), ~ Running, ~ Running', seen' = seen,
           n_barrier' = n_barrier, n_barrier_passed' = n_barrier_passed
    PROVE  SameRound' /\ OthersRest' /\ CaughtUp' /\ BarrierRight'
<1>1. SameRound'
  BY DEF SameRound
<1>2. n_barrier_passed' >= n_barrier_passed /\ n_barrier_passed' \in Nat /\ 0 \in Threads
  BY Facts DEF IInv, Typed, TypeOK
<1>3. OthersRest' /\ CaughtUp'
  BY <1>2, OthersKept
<1>4. BarrierRight'
  <2>1. ~ Held(0) /\ ~ Held(0)' /\ ~ Opening(0) /\ ~ Opening(0)' /\ pc'[0] # "enter"
    BY DEF Running, Held, Opening, ComputeLabels
  <2>2. seen'[0] <= n_barrier_passed
    BY <1>2 DEF IInv, BarrierRight
  <2> QED  BY <1>2, <2>1, <2>2, BarrierKept
<1> QED  BY <1>1, <1>3, <1>4

LEMMA FreeNext ==
    ASSUME IInv, Typed', FreeCall \/ FreeWake \/ Join
    PROVE  IInv'
<1> USE DEF params, counters, local, found, caller, pool
<1>0. pc \in [Threads -> Labels] /\ 0 \in Threads
  BY Facts DEF IInv, Typed
<1>1. pc[0] \in {"idle", "freewake", "join"} /\ pc'[0] \in {"freewake", "join", "freed"}
      /\ pc' = [pc EXCEPT ![0] = pc'[0]]
  BY <1>0 DEF FreeCall, FreeWake, Join, Goto
<1>2. Moves(0)
  BY <1>0, <1>1 DEF FreeCall, FreeWake, Join, Moves
<1>3. ~ Running /\ ~ Running'
  BY <1>1 DEF Running, ComputeLabels
<1>4. UNCHANGED <<seen, n_barrier, n_barrier_passed, ec, abort>>
  BY DEF FreeCall, FreeWake, Join
<1>5. AbortRight' /\ CallRight' /\ WorkRight'
  BY <1>1, <1>3, <1>4 DEF AbortRight, CallRight, WorkRight, IInv, ComputeLabels
<1> QED  BY <1>2, <1>3, <1>4, <1>5, BetweenGraphs DEF IInv

LEMMA ComputeCallNext ==
    ASSUME IInv, Typed', ~ Growing, NEW n \in ThreadChoices, ComputeCall(n)
    PROVE  IInv'
<1> USE DEF counters, local, found, pool
<1>0. pc \in [Threads -> Labels] /\ 0 \in Threads
  BY Facts DEF IInv, Typed
<1>1. Moves(0) /\ pc[0] = "idle" /\ pc'[0] = "kick"
  BY <1>0 DEF ComputeCall, Goto, Moves
<1>2. ~ Running /\ ~ Running'
  BY <1>1 DEF Running, ComputeLabels
<1>3. AbortRight'
  BY <1>1 DEF ComputeCall, AbortRight, ComputeLabels
<1>4. CallRight'
  BY <1>1 DEF ComputeCall, CallRight
<1>5. WorkRight'
  BY <1>1, <1>2 DEF WorkRight
<1> QED  BY <1>1, <1>2, <1>3, <1>4, <1>5, BetweenGraphs DEF IInv, ComputeCall

LEMMA FewerThreads ==
    ASSUME NEW a \in Nat, NEW b \in Nat, a <= b
    PROVE  0 .. a - 1 \subseteq 0 .. b - 1
OBVIOUS

LEMMA KickThreadsNext ==
    ASSUME IInv, Typed', KickThreads
    PROVE  IInv'
<1> USE DEF params, counters, local, found, caller
<1>0. pc \in [Threads -> Labels] /\ 0 \in Threads
  BY Facts DEF IInv, Typed
<1>1. /\ pc[0] = "kick" /\ pc'[0] = "kickgraph"
      /\ \A w \in Workers : pc'[w] = pc[w]
  BY <1>0, Facts DEF KickThreads, Goto
<1>2. ~ Running /\ ~ Running'
  BY <1>1 DEF Running, ComputeLabels
<1>3. Active' \subseteq Active /\ Active' \subseteq Threads
  <2>1. /\ n_threads_cur' \in Nat /\ n_threads_cur \in Nat /\ N \in Nat
        /\ n_threads_cur' <= n_threads_cur /\ n_threads_cur <= N
    BY <1>1, Facts DEF IInv, CallRight, Typed, TypeOK, KickThreads
  <2>2. 0 .. n_threads_cur' - 1 \subseteq 0 .. n_threads_cur - 1
        /\ 0 .. n_threads_cur' - 1 \subseteq 0 .. N - 1
    BY ONLY <2>1, FewerThreads
  <2> QED  BY <2>2 DEF Active, Threads
<1>4. SameRound'
  BY <1>2 DEF SameRound
<1>5. OthersRest'
  BY <1>1, <1>2 DEF OthersRest, IInv, Resting, LeftLastBarrier, KickThreads
<1>6. CaughtUp'
  BY <1>1, <1>2, <1>3 DEF CaughtUp, IInv, KickThreads
<1>7. BarrierRight'
  <2>1. \A u \in Active' : pc'[u] = pc[u] \/ u = 0
    BY <1>0, <1>3 DEF KickThreads, Goto
  <2>2. \A u \in Active' : ~ Held(u)' /\ ~ Opening(u)' /\ pc'[u] \notin {"enter", "release"}
    BY <1>1, <1>2, <1>3, <2>1, QuietBarrier DEF Held, Opening, KickThreads
  <2>3. HeldThreads' = {} /\ n_barrier' = 0
    BY <1>2, <2>2, QuietBarrier DEF HeldThreads, KickThreads
  <2>4. \A u \in Threads : seen'[u] <= n_barrier_passed'
    BY DEF IInv, BarrierRight, KickThreads
  <2> QED  BY <2>2, <2>3, <2>4, FS_EmptySet DEF BarrierRight
<1>8. AbortRight' /\ CallRight'
  BY <1>1 DEF AbortRight, CallRight, IInv, ComputeLabels, KickThreads
<1>9. WorkRight'
  BY <1>2 DEF WorkRight, KickThreads
<1> QED  BY <1>4, <1>5, <1>6, <1>7, <1>8, <1>9 DEF IInv

\* The announcement: every thread of the new graph is still to come.
LEMMA KickGraphNext ==
    ASSUME IInv, Typed', KickGraph
    PROVE  IInv'
<1> USE DEF params, counters, local, found, caller
<1>0. pc \in [Threads -> Labels] /\ 0 \in Threads /\ n_graph \in Nat
  BY Facts DEF IInv, Typed, TypeOK
<1>1. /\ pc[0] = "kickgraph" /\ pc'[0] = "kickwake" /\ n_graph' = n_graph + 1
      /\ \A w \in Workers : pc'[w] = pc[w]
  BY <1>0, Facts DEF KickGraph, Goto
<1>2. ~ Running /\ Running'
  BY <1>1 DEF Running, ComputeLabels
<1>3. Active' = Active /\ Active \subseteq Threads
  BY ActiveFacts DEF Active, IInv, KickGraph
<1>4. ASSUME NEW w \in Workers, w \in Active
      PROVE  Resting(w)' /\ last_graph'[w] # n_graph' /\ pc'[w] # "readactive"
  <2>1. Resting(w) /\ last_graph[w] = n_graph /\ pc[w] # "readactive"
    BY <1>2, <1>4 DEF IInv, OthersRest, CaughtUp
  <2> QED  BY <1>0, <1>1, <2>1 DEF Resting, LeftLastBarrier, KickGraph
<1>5. ASSUME NEW u \in Active'  PROVE At(u, 0)' /\ Computed(u)' = 0
  <2>1. CASE u = 0
    BY <1>1, <2>1 DEF At, Coming, Computed
  <2>2. CASE u # 0
    <3>1. u \in Workers
      BY <1>3, <1>5, <2>2, Facts
    <3> QED  BY <1>3, <1>4, <1>5, <2>2, <3>1 DEF At, Coming, Computed
  <2> QED  BY <2>1, <2>2
<1>6. SameRound'
  BY <1>5 DEF SameRound
<1>7. OthersRest' /\ CaughtUp'
  BY <1>1, <1>2, <1>3 DEF OthersRest, CaughtUp, IInv, Resting, LeftLastBarrier, KickGraph
<1>8. BarrierRight'
  <2>1. \A u \in Active : pc'[u] = pc[u] \/ u = 0
    BY <1>0, <1>3 DEF KickGraph, Goto
  <2>2. \A u \in Active : ~ Held(u)' /\ ~ Opening(u)' /\ pc'[u] \notin {"enter", "release"}
    BY <1>1, <1>2, <2>1, QuietBarrier DEF Held, Opening, KickGraph
  <2>3. HeldThreads' = {} /\ n_barrier' = 0
    BY <1>2, <1>3, <2>2, QuietBarrier DEF HeldThreads, KickGraph
  <2>4. \A u \in Threads : seen'[u] <= n_barrier_passed'
    BY DEF IInv, BarrierRight, KickGraph
  <2> QED  BY <1>3, <2>2, <2>3, <2>4, FS_EmptySet DEF BarrierRight
<1>9. AbortRight' /\ CallRight'
  BY <1>1 DEF AbortRight, CallRight, IInv, ComputeLabels, KickGraph
<1>10. WorkRight'
  <2>1. ASSUME NEW k \in Nodes  PROVE work'[k] = {u \in Active' : k < Computed(u)'}
    <3>1. work'[k] = {}
      BY <1>1 DEF IInv, WorkRight, KickGraph
    <3>2. ~ (k < 0)
      BY Facts DEF Nodes
    <3> QED  BY <1>5, <3>1, <3>2
  <2> QED  BY <1>1, <2>1 DEF WorkRight
<1> QED  BY <1>6, <1>7, <1>8, <1>9, <1>10 DEF IInv

LEMMA KickWakeNext ==
    ASSUME IInv, Typed', KickWake
    PROVE  IInv'
<1> USE DEF params, counters, local, found, caller
<1>0. pc \in [Threads -> Labels] /\ 0 \in Threads /\ n_barrier_passed \in Nat
  BY Facts DEF IInv, Typed, TypeOK
<1>1. Moves(0) /\ pc[0] = "kickwake" /\ pc'[0] = "begin"
  BY <1>0 DEF KickWake, Goto, Moves
<1>2. Running /\ Running'
  BY <1>1 DEF Running, ComputeLabels
<1>3. ASSUME NEW r \in Nat, At(0, r)  PROVE At(0, r)'
  <2>1. r = 0
    BY <1>1, <1>3 DEF At, Coming, InLoop, AtBarrier, Through, LetOut, Held, ComputeLabels
  <2> QED  BY <1>1, <2>1 DEF At, Coming, Joined
<1>4. Computed(0)' = Computed(0)
  BY <1>1 DEF Computed
<1>5. SameRound'
  BY <1>0, <1>1, <1>2, <1>3, RoundKept DEF KickWake
<1>6. OthersRest' /\ CaughtUp'
  <2>1. n_barrier_passed' = n_barrier_passed /\ n_barrier_passed' >= n_barrier_passed
        /\ n_barrier_passed' \in Nat
    BY <1>0 DEF KickWake
  <2> QED  BY <1>0, <1>1, <1>2, <2>1, OthersKept
<1>7. BarrierRight'
  <2>1. ~ Held(0) /\ ~ Held(0)' /\ ~ Opening(0) /\ ~ Opening(0)' /\ pc'[0] # "enter"
    BY <1>1 DEF Held, Opening
  <2>2. seen'[0] <= n_barrier_passed
    BY <1>0 DEF IInv, BarrierRight, KickWake
  <2> QED  BY <1>0, <1>1, <2>1, <2>2, BarrierKept DEF KickWake
<1>8. AbortRight' /\ CallRight'
  BY <1>1 DEF AbortRight, CallRight, IInv, KickWake
<1>9. WorkRight'
  BY <1>0, <1>1, <1>2, <1>4, WorkKept DEF KickWake
<1> QED  BY <1>5, <1>6, <1>7, <1>8, <1>9 DEF IInv

\* When the caller has left the last barrier every thread of the graph has.
LEMMA AllThrough ==
    ASSUME IInv, pc[0] = "return", NEW u \in Active
    PROVE  \E r \in Nat : r = Final + 1 /\ Through(u, r)
<1>1. PICK r \in Nat : \A v \in Active : At(v, r)
  BY DEF IInv, SameRound, Running
<1>2. r = Final + 1
  <2>1. At(0, r)
    BY <1>1, ActiveFacts DEF IInv
  <2> QED  BY <2>1 DEF At, Coming, InLoop, AtBarrier, Through, LetOut, Held, Joined
<1>3. /\ Cut \in 0 .. NNodes /\ Final \in 0 .. NNodes - 1 /\ NNodes \in Nat
      /\ (Cut < NNodes => Final = Cut) /\ (Cut = NNodes => Final = NNodes - 1)
  BY CutFacts DEF IInv
<1>4. ~ Coming(u, r)
  BY <1>2, <1>3 DEF Coming
<1>5. ~ InLoop(u, r)
  BY <1>2, <1>3 DEF InLoop
<1>6. ~ AtBarrier(u, r)
  BY <1>2, <1>3 DEF AtBarrier
<1> QED  BY <1>1, <1>2, <1>4, <1>5, <1>6 DEF At

LEMMA ComputeReturnNext ==
    ASSUME IInv, Typed', ComputeReturn
    PROVE  IInv'
<1> USE DEF params, counters, local, found, caller, pool
<1>0. pc \in [Threads -> Labels] /\ 0 \in Threads /\ n_barrier_passed \in Nat
  BY Facts DEF IInv, Typed, TypeOK
<1>1. Moves(0) /\ pc[0] = "return" /\ pc'[0] = "idle"
  BY <1>0 DEF ComputeReturn, Goto, Moves
<1>2. Running /\ ~ Running' /\ Active' = Active
  BY <1>1 DEF Running, ComputeLabels, ComputeReturn, Active
<1>3. SameRound'
  BY <1>2 DEF SameRound
<1>4. ASSUME NEW w \in Workers, w \in Active
      PROVE  Resting(w) /\ last_graph[w] = n_graph /\ pc[w] # "readactive"
  <2>1. PICK r \in Nat : r = Final + 1 /\ Through(w, r)
    BY <1>1, <1>4, AllThrough
  <2>2. seen[w] \in Nat
    BY <1>4, Facts DEF IInv, Typed, TypeOK
  <2> QED  BY <1>0, <1>4, <2>1, <2>2, Facts
              DEF Through, Joined, LetOut, Resting, LeftLastBarrier
<1>5. \A w \in Workers : pc'[w] = pc[w]
  BY <1>1, Facts DEF Moves
<1>6. OthersRest'
  BY <1>2, <1>4, <1>5 DEF OthersRest, IInv, Resting, LeftLastBarrier, ComputeReturn
<1>7. CaughtUp'
  BY <1>2, <1>4, <1>5 DEF CaughtUp, ComputeReturn
<1>8. BarrierRight'
  <2>1. ~ Held(0) /\ ~ Held(0)' /\ ~ Opening(0) /\ ~ Opening(0)' /\ pc'[0] # "enter"
    BY <1>1 DEF Held, Opening
  <2>2. seen'[0] <= n_barrier_passed
    BY <1>0 DEF IInv, BarrierRight, ComputeReturn
  <2> QED  BY <1>0, <1>1, <2>1, <2>2, BarrierKept DEF ComputeReturn
<1>9. AbortRight' /\ CallRight' /\ WorkRight'
  BY <1>1, <1>2 DEF AbortRight, CallRight, WorkRight, IInv, ComputeReturn, ComputeLabels
<1> QED  BY <1>3, <1>6, <1>7, <1>8, <1>9 DEF IInv

-----------------------------------------------------------------------------
(* The theorems. *)

LEMMA Starts == ASSUME Init PROVE IInv
<1> USE DEF Init
<1>0. Active = Threads
  BY DEF Active, Threads
<1>1. Typed
  <2>1. n_threads_cur \in 1 .. N /\ plan \in 1 .. N /\ abort \in -1 .. NNodes
        /\ n_graph \in 0 .. MaxGraphs /\ pauses \in 0 .. MaxPauses /\ n_barrier \in 0 .. N
    BY Facts
  <2>2. /\ pc \in [Threads -> Labels]
        /\ pc[0] \in CallerLabels /\ \A w \in Workers : pc[w] \in WorkerLabels
    BY Facts DEF Labels, CallerLabels, WorkerLabels
  <2>3. last_graph \in [Workers -> 0 .. MaxGraphs] /\ new_graph \in [Workers -> 0 .. MaxGraphs]
    BY Facts
  <2>4. /\ node \in [Threads -> 0 .. NNodes] /\ seen \in [Threads -> Nat]
        /\ n_threads \in [Threads -> 0 .. N] /\ nth \in [Threads -> 0 .. N]
    BY Facts
  <2>5. work \in [Nodes -> SUBSET Threads]
    OBVIOUS
  <2> QED  BY <2>1, <2>2, <2>3, <2>4, <2>5 DEF Typed, TypeOK
<1>2. ~ Running /\ pc[0] = "idle" /\ \A w \in Workers : pc[w] = "loop"
  BY Facts DEF Running, ComputeLabels
<1>3. SameRound /\ CallRight /\ WorkRight /\ AbortRight
  BY <1>2 DEF SameRound, CallRight, WorkRight, AbortRight, ComputeLabels
<1>4. OthersRest /\ CaughtUp
  BY <1>2 DEF OthersRest, CaughtUp, Resting, ComputeLabels
<1>5. BarrierRight
  <2>1. \A u \in Threads : seen[u] = 0 /\ pc[u] \in {"idle", "loop"}
    BY Facts
  <2>2. HeldThreads = {}
    BY <1>0, <2>1 DEF HeldThreads, Held
  <2> QED  BY <1>0, <2>1, <2>2, FS_EmptySet DEF BarrierRight, Opening
<1> QED  BY <1>1, <1>3, <1>4, <1>5 DEF IInv

LEMMA Steps == ASSUME ~ Growing, IInv, [Next]_vars PROVE IInv'
<1>1. CASE UNCHANGED vars
  <2>1. UNCHANGED <<n_graph, n_threads_cur, params, counters, local, found, plan, pc, work>>
    BY <1>1 DEF vars, pool, caller
  <2>2. Typed'
    BY <1>1 DEF vars, pool, params, counters, local, found, caller, Typed, TypeOK, IInv
  <2> QED  BY <2>1, <2>2, NothingMoved
<1>2. CASE Next
  <2>0. Typed'
    BY <1>2, TypedNext
  <2>1. ASSUME NEW t \in Threads, ComputeThread(t)  PROVE IInv'
    BY <2>0, <2>1, BeginNext, HeadNext, ComputeNext, LoadNext, EnterNext, ResetNext,
       ReleaseNext, SpinNext DEF ComputeThread
  <2>2. ASSUME NEW w \in Workers, WorkerStep(w) \/ SpuriousWake(w)  PROVE IInv'
    BY <2>0, <2>2, WorkerNext
  <2>3. CASE CallerStep
    BY <2>0, <2>3, KickThreadsNext, KickGraphNext, KickWakeNext, ComputeReturnNext, FreeNext
       DEF CallerStep
  <2>4. CASE Pause \/ Resume
    BY <2>0, <2>4, NothingMoved DEF Pause, Resume, caller
  <2>5. CASE ApiCall
    BY <2>0, <2>4, <2>5, FreeNext, ComputeCallNext DEF ApiCall
  <2>6. CASE Freed
    BY <1>1, <2>6 DEF Freed
  <2> QED  BY <1>2, <2>1, <2>2, <2>3, <2>5, <2>6 DEF Next
<1> QED  BY <1>1, <1>2

LEMMA Invariance == ASSUME ~ Growing PROVE Spec => []IInv
<1>1. Init => IInv
  BY Starts
<1>2. IInv /\ [Next]_vars => IInv'
  BY Steps
<1> QED  BY <1>1, <1>2, PTL DEF Spec

\* Every variable of the pool keeps its type; n_barrier never passes the pool's size.
THEOREM TypeCorrect == ASSUME ~ Growing PROVE Spec => []TypeOK
<1>1. IInv => TypeOK
  BY DEF IInv, Typed
<1> QED  BY <1>1, Invariance, PTL

\* ggml_graph_compute may write cgraph, cplan, abort and ec without the mutex: no
\* worker is in the node loop between two graphs.
THEOREM NoWorkerAccessHolds == ASSUME ~ Growing PROVE Spec => []NoWorkerAccess
<1>1. IInv => NoWorkerAccess
  BY DEF IInv, OthersRest, Resting, NoWorkerAccess, Running, ComputeLabels
<1> QED  BY <1>1, Invariance, PTL

\* The counter of the barrier is clear whenever a graph starts.
THEOREM BarrierClearHolds == ASSUME ~ Growing PROVE Spec => []BarrierClear
<1>1. IInv => BarrierClear
  BY QuietBarrier DEF BarrierClear, Running, ComputeLabels
<1> QED  BY <1>1, Invariance, PTL

\* All threads of a graph divide its nodes by the same number of threads.
THEOREM SameNthHolds == ASSUME ~ Growing PROVE Spec => []SameNth
<1>1. ASSUME IInv, NEW t \in Threads, pc[t] \in {"head", "compute", "load", "enter"}
      PROVE  t \in Active /\ nth[t] = n_threads_cur
  <2>1. pc[t] \in ComputeLabels /\ ~ LeftLastBarrier(t)
    BY <1>1 DEF ComputeLabels, LeftLastBarrier
  <2>2. PICK r \in Nat : At(t, r)
    BY <1>1, <2>1, RoundOf
  <2>3. t \in Active
    BY <1>1, <2>1, LoopRuns DEF IInv
  <2>4. CASE pc[t] \in {"load", "enter"}
    BY <1>1, <2>2, <2>3, <2>4, BarrierAt DEF IInv, AtBarrier
  <2> QED  BY <1>1, <2>2, <2>3, <2>4, HeadAt, ComputeAt
<1>2. IInv => SameNth
  BY <1>1 DEF SameNth
<1> QED  BY <1>2, Invariance, PTL

\* What is computed when the caller returns.
LEMMA AllComputed ==
    ASSUME IInv, pc[0] = "return"
    PROVE  \A k \in Nodes : k < Cut => work[k] = Active
<1>1. ASSUME NEW u \in Active  PROVE Computed(u) = Cut
  <2>1. PICK r \in Nat : r = Final + 1 /\ Through(u, r)
    BY AllThrough
  <2>2. NNodes \in Nat /\ ~ (NNodes < NNodes)
    BY Facts
  <2> QED  BY <2>1, <2>2 DEF Through, Computed, Joined, LetOut, ComputeLabels
<1> QED  BY <1>1 DEF IInv, WorkRight, Running

\* The status ggml_graph_compute returns speaks of this call.
THEOREM StatusToldHolds == ASSUME ~ Growing PROVE Spec => []StatusTold
<1>1. ASSUME IInv, pc[0] = "return"
      PROVE  CASE ec = "success" -> \A k \in Nodes : work[k] = Active
               [] ec = "aborted" -> abort # -1
  <2>1. ec \in {"success", "aborted"} /\ (ec = "success" <=> abort = -1)
    BY <1>1 DEF IInv, Typed, TypeOK, AbortRight
  <2>2. ec = "success" => \A k \in Nodes : k < Cut
    BY <2>1, Facts DEF Cut, Nodes
  <2> QED  BY <1>1, <2>1, <2>2, AllComputed
<1>2. IInv => StatusTold
  BY <1>1 DEF StatusTold
<1> QED  BY <1>2, Invariance, PTL

-----------------------------------------------------------------------------
(* The pool implements the fork and join. *)

CutNow == IF Busy /\ abort # -1 THEN abort ELSE NNodes

LEMMA Stutters ==
    ASSUME work' = work, n_threads_cur' = n_threads_cur, Busy' <=> Busy,
           Busy => abort' = abort
    PROVE  UNCHANGED Abstract!vars
<1>1. Busy' = Busy
  BY DEF Busy
<1>2. Active' = Active
  BY DEF Active
<1>3. (IF Busy /\ abort # -1 THEN abort ELSE NNodes)'
         = IF Busy /\ abort # -1 THEN abort ELSE NNodes
  BY <1>1
<1> QED  BY <1>1, <1>2, <1>3 DEF Abstract!vars

\* The barriers that have opened stand for nodes that everybody has computed.
LEMMA RoundDone ==
    ASSUME IInv, NEW u \in Threads, NEW r \in Nat, At(u, r), r < Cut
    PROVE  r <= Computed(u)
<1>0. /\ Cut \in 0 .. NNodes /\ Final \in 0 .. NNodes - 1 /\ NNodes \in Nat
      /\ (Cut < NNodes => Final = Cut) /\ (Cut = NNodes => Final = NNodes - 1)
      /\ node[u] \in 0 .. NNodes
  BY CutFacts DEF IInv, Typed, TypeOK
<1>1. CASE Coming(u, r)
  BY <1>0, <1>1 DEF Coming, Computed
<1>2. CASE InLoop(u, r)
  BY <1>0, <1>2 DEF InLoop, LetOut, Computed, Joined, ComputeLabels
<1>3. CASE AtBarrier(u, r)
  BY <1>0, <1>3 DEF AtBarrier, Held, Computed, Joined, ComputeLabels
<1>4. CASE Through(u, r)
  BY <1>0, <1>4 DEF Through, LetOut, Computed, Joined, ComputeLabels
<1> QED  BY <1>1, <1>2, <1>3, <1>4 DEF At

LEMMA ComputeWorks ==
    ASSUME IInv, NEW t \in Threads, Compute(t)
    PROVE  Abstract!Next
<1>0. /\ pc[t] = "compute" /\ NNodes \in Nat /\ pc \in [Threads -> Labels]
      /\ work \in [Nodes -> SUBSET Threads] /\ Cut \in 0 .. NNodes
  BY Facts, CutFacts DEF IInv, Typed, TypeOK, Compute
<1>1. Running /\ t \in Active
  BY <1>0, LoopRuns DEF IInv, LeftLastBarrier, ComputeLabels
<1>2. PICK r \in Nat : \A u \in Active : At(u, r)
  BY <1>1 DEF IInv, SameRound
<1>3. Joined(t) /\ node[t] = r /\ r < Cut
  BY <1>0, <1>1, <1>2, ComputeAt
<1>4. Busy /\ Busy'
  <2>1. CASE t = 0
    BY <1>0, <2>1 DEF Compute, Goto, Busy, ComputeLabels
  <2>2. CASE t # 0
    <3>1. pc'[0] = pc[0]
      BY <1>0, <2>2, Facts DEF Compute, Goto
    <3> QED  BY <1>1, <3>1 DEF Running, Busy
  <2> QED  BY <2>1, <2>2
<1>5. CutNow = Cut /\ Active' = Active /\ Active \subseteq Threads
  BY <1>4, ActiveFacts DEF CutNow, Cut, Active, Compute, pool, IInv
<1>6. t \notin work[r]
  <2>1. Computed(t) = r
    BY <1>0, <1>3 DEF Computed, Joined, ComputeLabels
  <2>2. r \in Nodes /\ ~ (r < r)
    BY <1>0, <1>3 DEF Nodes
  <2> QED  BY <1>1, <2>1, <2>2 DEF IInv, WorkRight
<1>7. ASSUME NEW j \in 0 .. r - 1  PROVE work[j] = Active
  <2>1. \A u \in Active : r <= Computed(u) /\ Computed(u) \in Int
    <3>1. ASSUME NEW u \in Active  PROVE Computed(u) \in Int
      BY <1>0, <1>5 DEF Computed, IInv, Typed, TypeOK
    <3> QED  BY <1>2, <1>3, <1>5, <3>1, RoundDone
  <2>2. j \in Nodes /\ \A u \in Active : j < Computed(u)
    BY <1>0, <1>3, <2>1 DEF Nodes
  <2> QED  BY <1>1, <2>2 DEF IInv, WorkRight
<1>8. work' = [work EXCEPT ![r] = @ \cup {t}]
  BY <1>3 DEF Compute
<1>9. \/ CutNow' = CutNow
      \/ t = 0 /\ CutNow' = r + 1
  <2>1. CASE abort' = abort
    BY <1>4, <2>1 DEF CutNow
  <2>2. CASE t = 0 /\ abort' = r + 1
    <3>1. r + 1 # -1
      OBVIOUS
    <3>2. abort' # -1 /\ Busy'
      BY <1>4, <2>2, <3>1
    <3>3. CutNow' = abort'
      BY <3>2 DEF CutNow
    <3> QED  BY <2>2, <3>3
  <2> QED  BY <1>3, <2>1, <2>2 DEF Compute, params
<1>10. Abstract!Work(t, r)
  <2>1. Busy' = Busy
    BY <1>4 DEF Busy
  <2>2. r < CutNow
    BY <1>3, <1>5
  <2> QED  BY <1>1, <1>4, <1>5, <1>6, <1>7, <1>8, <1>9, <2>1, <2>2
              DEF Abstract!Work, CutNow
<1>11. r \in 0 .. NNodes - 1
  BY <1>0, <1>3
<1> QED  BY <1>1, <1>10, <1>11 DEF Abstract!Next, Abstract!Nodes

LEMMA KickStarts ==
    ASSUME IInv, KickThreads
    PROVE  Abstract!Next
<1>1. /\ pc[0] = "kick" /\ pc'[0] = "kickgraph" /\ abort = -1 /\ abort' = -1
      /\ n_threads_cur' = plan /\ plan \in 1 .. N
      /\ work' = [k \in 0 .. NNodes - 1 |-> {}]
  BY Facts DEF KickThreads, Goto, IInv, Typed, TypeOK, AbortRight, params, Nodes
<1>2. Busy = FALSE /\ Busy' = TRUE
  BY <1>1 DEF Busy, ComputeLabels
<1>3. Active' = 0 .. plan - 1
  BY <1>1 DEF Active
<1>4. Abstract!Start(plan)
  BY <1>1, <1>2, <1>3 DEF Abstract!Start, Abstract!NoWork, Abstract!Nodes
<1> QED  BY <1>1, <1>4 DEF Abstract!Next

LEMMA ReturnReturns ==
    ASSUME IInv, ComputeReturn
    PROVE  Abstract!Next
<1>1. /\ pc[0] = "return" /\ pc'[0] = "idle" /\ work' = work /\ Active' = Active
  BY Facts DEF ComputeReturn, Goto, IInv, Typed, Active, pool
<1>2. Busy = TRUE /\ Busy' = FALSE
  BY <1>1 DEF Busy, ComputeLabels
<1>3. CutNow = Cut /\ Cut \in 0 .. NNodes /\ NNodes \in Nat
  BY <1>2, CutFacts DEF CutNow, Cut, IInv
<1>4. \A k \in 0 .. CutNow - 1 : work[k] = Active
  <2>1. \A k \in 0 .. CutNow - 1 : k \in Nodes /\ k < Cut
    BY <1>3 DEF Nodes
  <2> QED  BY <1>1, <2>1, AllComputed
<1>5. Abstract!Return
  BY <1>1, <1>2, <1>4 DEF Abstract!Return, CutNow
<1> QED  BY <1>5 DEF Abstract!Next

\* ggml_graph_compute is the abstract fork and join: the nodes in order, each
\* computed once by each thread that the plan asks for, up to the abort.
THEOREM Refinement == ASSUME ~ Growing PROVE Spec => Implements
<1>1. Init => Abstract!Init
  <2> SUFFICES ASSUME Init  PROVE Abstract!Init
    OBVIOUS
  <2>1. Busy = FALSE
    BY Facts DEF Init, Busy, ComputeLabels
  <2> QED  BY <2>1 DEF Init, Active, Nodes, Abstract!Init, Abstract!NoWork, Abstract!Nodes
<1>2. IInv /\ [Next]_vars => [Abstract!Next]_(Abstract!vars)
  <2> SUFFICES ASSUME IInv, [Next]_vars
               PROVE  [Abstract!Next]_(Abstract!vars)
    OBVIOUS
  <2> USE DEF pool, params, counters, local, found, caller
  <2>0. pc \in [Threads -> Labels] /\ 0 \in Threads /\ 0 \notin Workers
    BY Facts DEF IInv, Typed
  <2>1. CASE UNCHANGED vars
    BY <2>1, Stutters DEF vars, Busy
  <2>2. ASSUME NEW t \in Threads, Begin(t) \/ Head(t) \/ Load(t) \/ Enter(t) \/ Reset(t)
                                  \/ Release(t) \/ Spin(t)
        PROVE  UNCHANGED Abstract!vars
    <3>1. work' = work /\ n_threads_cur' = n_threads_cur /\ abort' = abort
      BY <2>2 DEF Begin, Head, Load, Enter, Reset, Release, Spin
    <3>2. /\ pc[t] \in ComputeLabels
          /\ \E l \in ComputeLabels \cup {"return", "loop"} :
                pc' = [pc EXCEPT ![t] = l] /\ (t = 0 => l # "loop")
      BY <2>2 DEF Begin, Head, Load, Enter, Reset, Release, Spin, Goto, BarrierReturn,
                  ComputeLabels
    <3>3. Busy' <=> Busy
      <4>1. CASE t = 0
        BY <2>0, <3>2, <4>1 DEF Busy
      <4>2. CASE t # 0
        BY <2>0, <3>2, <4>2 DEF Busy
      <4> QED  BY <4>1, <4>2
    <3> QED  BY <3>1, <3>3, Stutters
  <2>3. ASSUME NEW w \in Workers, WorkerStep(w) \/ SpuriousWake(w)
        PROVE  UNCHANGED Abstract!vars
    <3>1. work' = work /\ n_threads_cur' = n_threads_cur /\ abort' = abort
      BY <2>3 DEF WorkerStep, SpuriousWake, PauseTest, PauseWait, PauseWoken, StopTest,
                  PollTest, ReadStop, ReadPause, ReadGraph, ReadActive, LockWork
    <3>2. pc'[0] = pc[0]
      BY <2>0, <2>3 DEF WorkerStep, SpuriousWake, PauseTest, PauseWait, PauseWoken, StopTest,
                  PollTest, ReadStop, ReadPause, ReadGraph, ReadActive, LockWork,
                  PollAgain, Goto
    <3> QED  BY <3>1, <3>2, Stutters DEF Busy
  <2>4. CASE KickGraph \/ KickWake \/ FreeWake \/ Join \/ FreeCall
    BY <2>0, <2>4, Stutters
       DEF KickGraph, KickWake, FreeWake, Join, FreeCall, Goto, Busy, ComputeLabels
  <2>5. CASE Pause \/ Resume \/ \E n \in ThreadChoices : ComputeCall(n)
    BY <2>0, <2>5, Stutters DEF Pause, Resume, ComputeCall, Goto, Busy, ComputeLabels
  <2>6. CASE Freed
    BY <2>1, <2>6 DEF Freed
  <2>7. CASE CallerStep
    BY <2>4, <2>7, KickStarts, ReturnReturns DEF CallerStep
  <2>8. CASE ApiCall
    BY <2>4, <2>5, <2>8 DEF ApiCall
  <2>9. ASSUME NEW t \in Threads, ComputeThread(t)
        PROVE  [Abstract!Next]_(Abstract!vars)
    BY <2>2, <2>9, ComputeWorks DEF ComputeThread
  <2> QED  BY <2>1, <2>3, <2>6, <2>7, <2>8, <2>9 DEF Next
<1> QED  BY <1>1, <1>2, Invariance, PTL DEF Spec, Implements, Abstract!Spec

=============================================================================
