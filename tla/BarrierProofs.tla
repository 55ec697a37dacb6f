--------------------------- MODULE BarrierProofs ---------------------------
(***************************************************************************)
(* ggml_barrier is a rendezvous for every number of threads and every      *)
(* modulus of n_barrier_passed.                                            *)
(***************************************************************************)
EXTENDS Barrier, FiniteSetTheorems, TLAPS

\* There are NThreads threads, and leaving one of them out leaves one less.
LEMMA ThreadsFinite ==
    /\ IsFiniteSet(Threads)
    /\ Cardinality(Threads) = NThreads
    /\ \A t \in Threads : /\ IsFiniteSet(Threads \ {t})
                          /\ Cardinality(Threads \ {t}) = NThreads - 1
<1>1. IsFiniteSet(Threads) /\ Cardinality(Threads) = NThreads
  <2>1. NThreads \in Nat /\ NThreads > 1 /\ 0 \in Int /\ NThreads - 1 \in Int
    BY BarrierAssumption
  <2>2. /\ IsFiniteSet(0 .. NThreads - 1)
        /\ Cardinality(0 .. NThreads - 1) =
             IF 0 > NThreads - 1 THEN 0 ELSE NThreads - 1 - 0 + 1
    BY <2>1, FS_Interval
  <2> QED  BY <2>1, <2>2 DEF Threads
<1>2. ASSUME NEW t \in Threads
      PROVE  /\ IsFiniteSet(Threads \ {t})
             /\ Cardinality(Threads \ {t}) = NThreads - 1
  BY <1>1, FS_RemoveElement
<1> QED  BY <1>1, <1>2

\* The counter of waiting threads stays below the number of threads, and
\* reaches NThreads - 1 only when all other threads wait.
LEMMA WaitersBound ==
    ASSUME NEW t \in Threads, pc[t] # "spin"
    PROVE  /\ IsFiniteSet(Waiters)
           /\ Cardinality(Waiters) \in Nat
           /\ Cardinality(Waiters) <= NThreads - 1
           /\ Cardinality(Waiters) = NThreads - 1 => Waiters = Threads \ {t}
<1>1. Waiters \in SUBSET (Threads \ {t})
  BY DEF Waiters
<1>2. /\ IsFiniteSet(Waiters)
      /\ Cardinality(Waiters) <= Cardinality(Threads \ {t})
      /\ Cardinality(Threads \ {t}) = Cardinality(Waiters)
            => Threads \ {t} = Waiters
  BY <1>1, ThreadsFinite, FS_Subset
<1>3. Cardinality(Waiters) \in Nat
  BY <1>2, FS_CardinalityType
<1> QED  BY <1>2, <1>3, ThreadsFinite

\* Bumping n_barrier_passed stays in range and never gives the value back.
LEMMA BumpMoves ==
    ASSUME NEW p \in 0 .. Wrap - 1
    PROVE  Bump(p) \in 0 .. Wrap - 1 /\ Bump(p) # p
BY BarrierAssumption DEF Bump

LEMMA InitInv == Init => IndInv
<1> SUFFICES ASSUME Init PROVE IndInv
  OBVIOUS
<1>1. TypeOK
  BY BarrierAssumption DEF Init, TypeOK, Labels
<1>2. Waiters = {}
  BY DEF Init, Waiters
<1>3. CounterCounts
  BY <1>2, FS_EmptySet DEF Init, CounterCounts
<1>4. CallsNest /\ SameDone /\ FreshLoad /\ LastAlone /\ CounterAtLast
  BY DEF Init, CallsNest, SameDone, FreshLoad, LastAlone, CounterAtLast,
         Done, LetGo, Last
<1> QED  BY <1>1, <1>3, <1>4 DEF IndInv

\* A thread that calls the barrier, or loads n_barrier_passed, disturbs no
\* part of the invariant that speaks of the others.
LEMMA CallInv ==
    ASSUME IndInv, NEW t \in Threads, Call(t)
    PROVE  IndInv'
<1> USE DEF IndInv, TypeOK, Labels, Call, Goto
<1>1. TypeOK'
  OBVIOUS
<1>2. Waiters' = Waiters
  BY DEF Waiters
<1>3. \A u \in Threads : Done(u)' = Done(u) /\ Last(u)' = Last(u)
  BY DEF Done, LetGo, Last
<1>4. CallsNest'
  BY DEF CallsNest
<1>5. SameDone'
  BY <1>3 DEF SameDone
<1>6. FreshLoad' /\ CounterAtLast'
  BY DEF FreshLoad, CounterAtLast
<1>7. LastAlone'
  <2> SUFFICES ASSUME NEW u \in Threads, Last(u)
               PROVE  Threads \ {u} = Waiters
    BY <1>2, <1>3 DEF LastAlone
  <2> QED  BY DEF LastAlone
<1>8. CounterCounts'
  BY <1>2, <1>3 DEF CounterCounts
<1> QED  BY <1>1, <1>4, <1>5, <1>6, <1>7, <1>8

LEMMA LoadInv ==
    ASSUME IndInv, NEW t \in Threads, Load(t)
    PROVE  IndInv'
<1> USE DEF IndInv, TypeOK, Labels, Load, Goto
<1>1. TypeOK'
  OBVIOUS
<1>2. Waiters' = Waiters
  BY DEF Waiters
<1>3. \A u \in Threads : Done(u)' = Done(u) /\ Last(u)' = Last(u)
  BY DEF Done, LetGo, Last
<1>4. CallsNest'
  BY DEF CallsNest
<1>5. SameDone'
  BY <1>3 DEF SameDone
<1>6. FreshLoad' /\ CounterAtLast'
  BY DEF FreshLoad, CounterAtLast
<1>7. LastAlone'
  BY <1>2, <1>3 DEF LastAlone
<1>8. CounterCounts'
  BY <1>2, <1>3 DEF CounterCounts
<1> QED  BY <1>1, <1>4, <1>5, <1>6, <1>7, <1>8

\* Nobody is the last thread while another has yet to count itself in.
LEMMA NoLastYet ==
    ASSUME IndInv, NEW t \in Threads, pc[t] \in {"out", "load", "enter"}
    PROVE  \A u \in Threads : ~ Last(u)
BY DEF IndInv, LastAlone, Last, Waiters

LEMMA EnterInv ==
    ASSUME IndInv, NEW t \in Threads, Enter(t)
    PROVE  IndInv'
<1> USE DEF IndInv, TypeOK, Labels, Enter, Goto
<1>1. \A u \in Threads : ~ Last(u)
  BY NoLastYet
<1>2. n_barrier = Cardinality(Waiters)
  BY <1>1 DEF CounterCounts
<1>3. /\ IsFiniteSet(Waiters) /\ Cardinality(Waiters) \in Nat
      /\ Cardinality(Waiters) <= NThreads - 1
      /\ Cardinality(Waiters) = NThreads - 1 => Waiters = Threads \ {t}
  BY WaitersBound
<1>4. seen[t] = n_barrier_passed
  BY DEF FreshLoad
<1>5. TypeOK'
  BY <1>2, <1>3, BarrierAssumption
<1>6. CallsNest' /\ FreshLoad'
  BY DEF CallsNest, FreshLoad
<1>7. SameDone'
  <2>1. \A u \in Threads : Done(u)' = Done(u)
    BY <1>4 DEF Done, LetGo
  <2> QED  BY <2>1 DEF SameDone
<1>8. CASE n_barrier = NThreads - 1
  <2>1. Waiters' = Waiters
    BY <1>8 DEF Waiters
  <2>2. \A u \in Threads : Last(u)' => u = t
    BY <1>1 DEF Last
  <2>3. LastAlone'
    BY <1>2, <1>3, <1>8, <2>1, <2>2 DEF LastAlone
  <2>4. CounterAtLast'
    BY <1>1, <1>8, BarrierAssumption DEF CounterAtLast, Last
  <2>5. CounterCounts'
    BY <1>8 DEF CounterCounts, Last
  <2> QED  BY <1>5, <1>6, <1>7, <2>3, <2>4, <2>5
<1>9. CASE n_barrier # NThreads - 1
  <2>1. Waiters' = Waiters \cup {t}
    BY <1>4, <1>9 DEF Waiters
  <2>2. t \notin Waiters
    BY DEF Waiters
  <2>3. Cardinality(Waiters') = n_barrier + 1
    BY <1>2, <1>3, <2>1, <2>2, FS_AddElement
  <2>4. \A u \in Threads : ~ Last(u)'
    BY <1>1, <1>9 DEF Last
  <2>5. LastAlone' /\ CounterAtLast'
    BY <2>4 DEF LastAlone, CounterAtLast, Last
  <2>6. CounterCounts'
    BY <2>3 DEF CounterCounts
  <2> QED  BY <1>5, <1>6, <1>7, <2>5, <2>6
<1> QED  BY <1>8, <1>9

LEMMA ResetInv ==
    ASSUME IndInv, NEW t \in Threads, Reset(t)
    PROVE  IndInv'
<1> USE DEF IndInv, TypeOK, Labels, Reset, Goto
<1>1. TypeOK'
  BY BarrierAssumption
<1>2. Waiters' = Waiters
  BY DEF Waiters
<1>3. \A u \in Threads : Done(u)' = Done(u) /\ Last(u)' = Last(u)
  BY DEF Done, LetGo, Last
<1>4. CallsNest' /\ FreshLoad'
  BY DEF CallsNest, FreshLoad
<1>5. SameDone'
  BY <1>3 DEF SameDone
<1>6. LastAlone'
  BY <1>2, <1>3 DEF LastAlone
<1>7. CounterAtLast'
  <2>1. \A u \in Threads \ {t} : pc[u] = "spin"
    BY DEF LastAlone, Last, Waiters
  <2> QED  BY <2>1 DEF CounterAtLast
<1>8. CounterCounts'
  BY DEF CounterCounts, Last
<1> QED  BY <1>1, <1>4, <1>5, <1>6, <1>7, <1>8

LEMMA ReleaseInv ==
    ASSUME IndInv, NEW t \in Threads, Release(t)
    PROVE  IndInv'
<1> USE DEF IndInv, TypeOK, Labels, Release, Goto, Return
<1>1. \A u \in Threads \ {t} : pc[u] = "spin" /\ seen[u] = n_barrier_passed
  BY DEF LastAlone, Last, Waiters
<1>2. /\ n_barrier_passed' \in 0 .. Wrap - 1
      /\ n_barrier_passed' # n_barrier_passed
  BY BumpMoves
<1>3. TypeOK'
  BY <1>2
<1>4. CallsNest'
  BY DEF CallsNest
<1>5. SameDone'
  <2>1. \A u \in Threads : Done(u) = crossed[u]
    BY <1>1 DEF Done, LetGo
  <2>2. \A u \in Threads : Done(u)' = crossed[u] + 1
    BY <1>1, <1>2 DEF Done, LetGo
  <2> QED  BY <2>1, <2>2 DEF SameDone
<1>6. FreshLoad'
  BY <1>1 DEF FreshLoad
<1>7. \A u \in Threads : ~ Last(u)'
  BY <1>1 DEF Last
<1>8. LastAlone' /\ CounterAtLast'
  BY <1>7 DEF LastAlone, CounterAtLast, Last
<1>9. CounterCounts'
  <2>1. Waiters' = {}
    BY <1>1, <1>2 DEF Waiters
  <2>2. n_barrier = 0
    BY DEF CounterAtLast
  <2> QED  BY <2>1, <2>2, FS_EmptySet DEF CounterCounts
<1> QED  BY <1>3, <1>4, <1>5, <1>6, <1>8, <1>9

LEMMA SpinInv ==
    ASSUME IndInv, NEW t \in Threads, Spin(t)
    PROVE  IndInv'
<1> USE DEF IndInv, TypeOK, Labels, Spin, Goto, Return
<1>1. TypeOK'
  OBVIOUS
<1>2. Waiters' = Waiters
  BY DEF Waiters
<1>3. \A u \in Threads : Done(u)' = Done(u) /\ Last(u)' = Last(u)
  BY DEF Done, LetGo, Last
<1>4. CallsNest' /\ FreshLoad' /\ CounterAtLast'
  BY DEF CallsNest, FreshLoad, CounterAtLast
<1>5. SameDone'
  BY <1>3 DEF SameDone
<1>6. LastAlone'
  BY <1>2, <1>3 DEF LastAlone
<1>7. CounterCounts'
  BY <1>2, <1>3 DEF CounterCounts
<1> QED  BY <1>1, <1>4, <1>5, <1>6, <1>7

\* IndInv is an invariant: the counters n_barrier and n_barrier_passed always
\* agree with where the threads are, for any number of threads.
THEOREM Invariance == SafeSpec => []IndInv
<1>1. IndInv /\ [Next]_vars => IndInv'
  <2> SUFFICES ASSUME IndInv, [Next]_vars PROVE IndInv'
    OBVIOUS
  <2>1. CASE UNCHANGED vars
    BY <2>1 DEF vars, IndInv, TypeOK, CallsNest, SameDone, FreshLoad, LastAlone,
                CounterAtLast, CounterCounts, Done, LetGo, Last, Waiters
  <2>2. ASSUME NEW t \in Threads, Call(t) \/ Inside(t) PROVE IndInv'
    BY <2>2, CallInv, LoadInv, EnterInv, ResetInv, ReleaseInv, SpinInv
       DEF Inside
  <2> QED  BY <2>1, <2>2 DEF Next, Finished
<1> QED  BY <1>1, InitInv, PTL DEF SafeSpec

\* No thread returns from its r-th barrier before every thread has called its
\* r-th barrier.
LEMMA InvImpliesNobodyLeavesEarly == IndInv => NobodyLeavesEarly
<1> SUFFICES ASSUME IndInv, NEW t \in Threads, NEW u \in Threads
             PROVE  crossed[t] <= arrived[u]
  BY DEF NobodyLeavesEarly
<1>1. crossed[t] <= Done(t) /\ Done(u) <= arrived[u]
  BY DEF IndInv, TypeOK, CallsNest, Done, LetGo
<1>2. Done(t) = Done(u) /\ Done(t) \in Nat
  BY DEF IndInv, TypeOK, SameDone, Done
<1> QED  BY <1>1, <1>2 DEF IndInv, TypeOK

\* No thread returns from a barrier before all have called it as often.
THEOREM NobodyLeavesEarlyHolds == SafeSpec => []NobodyLeavesEarly
BY Invariance, InvImpliesNobodyLeavesEarly, PTL

\* No thread gets two barriers ahead of another, so that one bit of
\* n_barrier_passed would do.
THEOREM NoLappingHolds == SafeSpec => []NoLapping
<1>1. IndInv => NoLapping
  <2> SUFFICES ASSUME IndInv, NEW t \in Threads, NEW u \in Threads
               PROVE  crossed[u] <= crossed[t] + 1
    BY DEF NoLapping
  <2>1. crossed[u] <= Done(u) /\ Done(t) <= crossed[t] + 1
    BY DEF IndInv, TypeOK, Done
  <2>2. Done(t) = Done(u) /\ Done(t) \in Nat
    BY DEF IndInv, TypeOK, SameDone, Done
  <2> QED  BY <2>1, <2>2 DEF IndInv, TypeOK
<1> QED  BY <1>1, Invariance, PTL

\* A return from ggml_barrier finds every thread inside its call or past it.
LEMMA ReturnSafe ==
    ASSUME IndInv, NEW t \in Threads, Release(t) \/ Spin(t)
    PROVE  \A u \in Threads : crossed[t] < arrived[u]
<1> SUFFICES ASSUME NEW u \in Threads PROVE crossed[t] < arrived[u]
  OBVIOUS
<1> USE DEF IndInv, TypeOK
<1>1. CASE Release(t)
  <2>1. pc[u] # "out" /\ Done(u) = crossed[u] /\ Done(t) = crossed[t]
    BY <1>1 DEF LastAlone, Last, Waiters, Release, Done, LetGo
  <2> QED  BY <2>1 DEF CallsNest, SameDone
<1>2. CASE Spin(t)
  <2>1. Done(t) = crossed[t] + 1
    BY <1>2 DEF Spin, Done, LetGo
  <2>2. Done(u) <= arrived[u]
    BY DEF CallsNest, Done, LetGo
  <2> QED  BY <2>1, <2>2 DEF SameDone
<1> QED  BY <1>1, <1>2

\* ggml_barrier implements the abstract rendezvous, step by step.
THEOREM Refinement == SafeSpec => ImplementsSafe
<1>1. Init => Abstract!Init
  BY DEF Init, Abstract!Init
<1>2. IndInv /\ [Next]_vars => [Abstract!Next]_(Abstract!vars)
  <2> SUFFICES ASSUME IndInv, [Next]_vars
               PROVE  [Abstract!Next]_(Abstract!vars)
    OBVIOUS
  <2>1. CASE UNCHANGED vars
    BY <2>1 DEF vars, Abstract!vars
  <2>2. ASSUME NEW t \in Threads, Call(t) PROVE Abstract!Arrive(t)
    BY <2>2 DEF Call, Abstract!Arrive, IndInv, CallsNest
  <2>3. ASSUME NEW t \in Threads, Load(t) \/ Enter(t) \/ Reset(t)
        PROVE  UNCHANGED Abstract!vars
    BY <2>3 DEF Load, Enter, Reset, Abstract!vars
  <2>4. ASSUME NEW t \in Threads, Release(t) \/ Spin(t)
        PROVE  Abstract!Cross(t)
    <3>1. \A u \in Threads : crossed[t] < arrived[u]
      BY <2>4, ReturnSafe
    <3> QED  BY <2>4, <3>1 DEF Release, Spin, Return, Abstract!Cross
  <2> QED
    BY <2>1, <2>2, <2>3, <2>4
       DEF Next, Inside, Finished, Abstract!Next
<1> QED
  BY <1>1, <1>2, Invariance, PTL
     DEF SafeSpec, ImplementsSafe, Abstract!SafeSpec

=============================================================================
