--------------------------- MODULE DistCommProofs ---------------------------
(***************************************************************************)
(* Every message has one owner, for every number of blocks, agents and     *)
(* connections and every length of the queues, as long as tensors are sent *)
(* to connected agents only.                                               *)
(***************************************************************************)
EXTENDS DistComm, FiniteSetTheorems, SequenceTheorems, TLAPS

\* No pointer is in the queues twice.
Distinct(q) == \A i, j \in 1 .. Len(q) : q[i] = q[j] => i = j
QueuedOnce == /\ Distinct(outgoing) /\ Distinct(incoming)
              /\ ToSet(outgoing) \cap ToSet(incoming) = {}

\* The inductive invariant: QueueOwns counts, this tells the places apart.
IInv == /\ TypeOK
        /\ QueuedOnce
        /\ Queued \subseteq heap
        /\ Queued \cap held = {}
        /\ HeldAlive
        /\ NothingLost

-----------------------------------------------------------------------------

\* A sequence without repetitions has as many elements as places.
LEMMA DistinctCardinality ==
    ASSUME NEW S, NEW q \in Seq(S), Distinct(q)
    PROVE  IsFiniteSet(ToSet(q)) /\ Cardinality(ToSet(q)) = Len(q)
<1>1. Len(q) \in Nat /\ q \in [1 .. Len(q) -> S] /\ DOMAIN q = 1 .. Len(q)
  BY LenProperties
<1>2. q \in [1 .. Len(q) -> ToSet(q)]
  BY <1>1 DEF ToSet
<1>3. q \in Bijection(1 .. Len(q), ToSet(q))
  BY <1>1, <1>2 DEF ToSet, Distinct, Bijection, Injection, Surjection, IsInjective
<1>4. ExistsBijection(1 .. Len(q), ToSet(q))
  BY <1>3 DEF ExistsBijection
<1>5. Cardinality(ToSet(q)) = Len(q)
  BY <1>1, <1>4, FS_CountingElements
<1>6. IsFiniteSet(ToSet(q))
  BY <1>1, <1>4, FS_NatBijection
<1> QED  BY <1>5, <1>6

\* What the queue operations do to the elements of a queue.
LEMMA AppendElements ==
    ASSUME NEW S, NEW q \in Seq(S), NEW m \in S
    PROVE  /\ Append(q, m) \in Seq(S) /\ Len(Append(q, m)) = Len(q) + 1
           /\ ToSet(Append(q, m)) = ToSet(q) \cup {m}
           /\ Distinct(q) /\ m \notin ToSet(q) => Distinct(Append(q, m))
<1> DEFINE a == Append(q, m)
<1>1. /\ a \in Seq(S) /\ Len(a) = Len(q) + 1 /\ Len(q) \in Nat
      /\ DOMAIN a = 1 .. Len(q) + 1 /\ DOMAIN q = 1 .. Len(q)
      /\ \A i \in 1 .. Len(q) : a[i] = q[i]
      /\ a[Len(q) + 1] = m
  BY AppendProperties, LenProperties
<1>2. ToSet(a) = ToSet(q) \cup {m}
  BY <1>1 DEF ToSet
<1>3. Distinct(q) /\ m \notin ToSet(q) => Distinct(a)
  BY <1>1 DEF ToSet, Distinct
<1> QED  BY <1>1, <1>2, <1>3

LEMMA TailElements ==
    ASSUME NEW S, NEW q \in Seq(S), q # <<>>, Distinct(q)
    PROVE  /\ Tail(q) \in Seq(S) /\ Len(Tail(q)) = Len(q) - 1
           /\ Distinct(Tail(q))
           /\ Head(q) \in ToSet(q)
           /\ ToSet(Tail(q)) = ToSet(q) \ {Head(q)}
<1> DEFINE t == Tail(q)
<1>1. /\ t \in Seq(S) /\ Len(t) = Len(q) - 1
      /\ Len(q) \in Nat \ {0} /\ DOMAIN q = 1 .. Len(q)
      /\ Head(q) = q[1]
      /\ DOMAIN t = 1 .. Len(q) - 1
      /\ \A i \in 1 .. Len(q) - 1 : t[i] = q[i + 1]
  BY HeadTailProperties, LenProperties, EmptySeq
<1>2. Distinct(t)
  BY <1>1 DEF Distinct
<1>3. Head(q) \in ToSet(q)
  BY <1>1 DEF ToSet
<1>4. ToSet(t) \subseteq ToSet(q) \ {Head(q)}
  BY <1>1 DEF ToSet, Distinct
<1>5. ASSUME NEW x \in ToSet(q) \ {Head(q)} PROVE x \in ToSet(t)
  <2>1. PICK i \in 1 .. Len(q) : x = q[i]
    BY <1>1 DEF ToSet
  <2>2. i # 1 /\ i - 1 \in 1 .. Len(q) - 1 /\ t[i - 1] = x
    BY <1>1, <1>5, <2>1
  <2> QED  BY <1>1, <2>2 DEF ToSet
<1> QED  BY <1>1, <1>2, <1>3, <1>4, <1>5

\* An empty queue has no elements.
LEMMA EmptyElements == ToSet(<<>>) = {} /\ Distinct(<<>>)
BY DEF ToSet, Distinct

-----------------------------------------------------------------------------

\* Each step, by what it does to the queues and the blocks.
LEMMA InitIInv == Init => IInv
<1> SUFFICES ASSUME Init PROVE IInv
  OBVIOUS
<1>1. TypeOK
  <2>1. \A S : <<>> \in Seq(S) /\ Len(<<>>) = 0
    BY EmptySeq
  <2>2. receiver \in [Blocks -> Agents \cup {0}]
    BY DEF Init
  <2>3. Len(connections) <= MaxConns /\ Len(outgoing) <= MaxQueue /\ Len(incoming) <= MaxQueue
    BY DistCommAssumption, <2>1 DEF Init
  <2> QED  BY <2>1, <2>2, <2>3 DEF Init, TypeOK
<1>2. ToSet(outgoing) = {} /\ ToSet(incoming) = {} /\ QueuedOnce
  BY EmptyElements DEF Init, QueuedOnce
<1> QED  BY <1>1, <1>2 DEF Init, IInv, Queued, HeldAlive, NothingLost

\* A step that leaves the queues alone.
LEMMA QueuesKept ==
    ASSUME IInv, UNCHANGED queues
    PROVE  QueuedOnce' /\ Queued' = Queued
BY DEF IInv, queues, QueuedOnce, Queued

\* Transmit, of a message that is allocated and in no queue.
LEMMA TransmitQueues ==
    ASSUME IInv, NEW m \in Blocks, NEW r, Transmit(m, r), UNCHANGED incoming, m \notin Queued
    PROVE  /\ outgoing' \in Seq(Blocks) /\ Len(outgoing') <= MaxQueue
           /\ QueuedOnce'
           /\ \/ outgoing' = outgoing /\ Queued' = Queued /\ Connected(r)
              \/ Queued' = Queued \cup {m}
<1>1. CASE engine = "running" /\ Connected(r) /\ UNCHANGED outgoing
  BY <1>1 DEF IInv, TypeOK, QueuedOnce, Queued
<1>2. CASE Enqueues(r) /\ outgoing' = Append(outgoing, m)
  <2>1. outgoing \in Seq(Blocks) /\ Len(outgoing) < MaxQueue /\ m \notin ToSet(outgoing)
    BY <1>2 DEF IInv, TypeOK, Enqueues, Queued
  <2>2. /\ outgoing' \in Seq(Blocks) /\ Len(outgoing') = Len(outgoing) + 1
        /\ ToSet(outgoing') = ToSet(outgoing) \cup {m}
        /\ Distinct(outgoing')
    BY <1>2, <2>1, AppendElements DEF IInv, QueuedOnce
  <2>3. Len(outgoing') <= MaxQueue
    BY <2>1, <2>2, LenProperties, DistCommAssumption
  <2>4. QueuedOnce' /\ Queued' = Queued \cup {m}
    BY <2>2 DEF IInv, QueuedOnce, Queued
  <2> QED  BY <2>2, <2>3, <2>4
<1> QED  BY <1>1, <1>2 DEF Transmit

LEMMA NextIInv == ASSUME ~ Anywhere, IInv, [Next]_vars PROVE IInv'
<1> USE DistCommAssumption
<1>1. CASE Start
  <2>1. QueuedOnce' /\ Queued' = Queued
    BY <1>1, QueuesKept DEF Start
  <2> QED  BY <1>1, <2>1 DEF Start, IInv, TypeOK, HeldAlive, NothingLost, queues
<1>2. CASE Stop
  <2>1. QueuedOnce' /\ Queued' = Queued
    BY <1>2, QueuesKept DEF Stop
  <2>2. connections \in Seq([remote : Agents, active : BOOLEAN]) /\ Len(connections) <= MaxConns
    BY DEF IInv, TypeOK
  <2>3. DOMAIN connections = 1 .. Len(connections) /\ Len(connections) \in Nat
    BY <2>2, LenProperties
  <2>4. ASSUME NEW i \in 1 .. Len(connections)
        PROVE  [connections[i] EXCEPT !.active = FALSE] \in [remote : Agents, active : BOOLEAN]
    <3>1. connections[i] \in [remote : Agents, active : BOOLEAN]
      BY <2>2, ElementOfSeq
    <3> QED  BY <3>1
  <2>5. connections' \in [1 .. Len(connections) -> [remote : Agents, active : BOOLEAN]]
    BY <1>2, <2>3, <2>4 DEF Stop, CloseAll
  <2>6. /\ connections' \in Seq([remote : Agents, active : BOOLEAN])
        /\ Len(connections') <= MaxConns
    BY <2>2, <2>3, <2>5
  <2> QED  BY <1>2, <2>1, <2>6 DEF Stop, IInv, TypeOK, HeldAlive, NothingLost, queues
<1>3. CASE Receive
  <2>1. incoming \in Seq(Blocks) /\ incoming # <<>> /\ Distinct(incoming)
    BY <1>3 DEF Receive, IInv, TypeOK, QueuedOnce
  <2>2. /\ incoming' \in Seq(Blocks) /\ Len(incoming') = Len(incoming) - 1
        /\ Distinct(incoming')
        /\ Head(incoming) \in ToSet(incoming)
        /\ ToSet(incoming') = ToSet(incoming) \ {Head(incoming)}
    BY <1>3, <2>1, TailElements DEF Receive
  <2>3. Len(incoming') <= MaxQueue
    BY <2>1, <2>2, LenProperties DEF IInv, TypeOK
  <2>4. QueuedOnce' /\ Queued' = Queued \ {Head(incoming)} /\ Head(incoming) \in Queued
    BY <1>3, <2>2 DEF Receive, IInv, QueuedOnce, Queued
  <2>5. held' = held \cup {Head(incoming)} /\ heap' = heap
    BY <1>3 DEF Receive
  <2>6. TypeOK'
    BY <1>3, <2>2, <2>3, <2>4, <2>5 DEF Receive, IInv, TypeOK
  <2> QED  BY <1>3, <2>4, <2>5, <2>6 DEF Receive, IInv, HeldAlive, NothingLost
<1>4. CASE FreeEngine
  <2>1. ToSet(outgoing') = {} /\ ToSet(incoming') = {} /\ QueuedOnce' /\ Queued' = {}
    BY <1>4, EmptyElements DEF FreeEngine, QueuedOnce, Queued
  <2>2. TypeOK'
    BY <1>4, EmptySeq DEF FreeEngine, IInv, TypeOK
  <2> QED  BY <1>4, <2>1, <2>2 DEF FreeEngine, IInv, HeldAlive, NothingLost
<1>5. ASSUME NEW m \in Blocks, FreeMessage(m) PROVE IInv'
  <2>1. QueuedOnce' /\ Queued' = Queued
    BY <1>5, QueuesKept DEF FreeMessage
  <2>2. TypeOK'
    BY <1>5 DEF FreeMessage, IInv, TypeOK, queues
  <2> QED  BY <1>5, <2>1, <2>2 DEF FreeMessage, IInv, HeldAlive, NothingLost
<1>6. ASSUME NEW m \in Blocks, Send(m) PROVE IInv'
  <2>1. m \in held /\ m \notin Queued /\ UNCHANGED incoming /\ Transmit(m, receiver[m])
    BY <1>6 DEF Send, IInv
  <2>2. /\ outgoing' \in Seq(Blocks) /\ Len(outgoing') <= MaxQueue
        /\ QueuedOnce'
        /\ \/ outgoing' = outgoing /\ Queued' = Queued /\ Connected(receiver[m])
           \/ Queued' = Queued \cup {m}
    BY <2>1, TransmitQueues
  <2>3. /\ held' = held \ {m} /\ heap' = heap
        /\ direct' = (direct \/ Connected(receiver[m]))
    BY <1>6 DEF Send
  <2>4. direct' \in BOOLEAN
    BY <2>3 DEF IInv, TypeOK, Connected
  <2>5. TypeOK'
    BY <1>6, <2>2, <2>3, <2>4 DEF Send, IInv, TypeOK
  <2>6. Queued' \subseteq heap' /\ Queued' \cap held' = {} /\ HeldAlive'
    BY <2>1, <2>2, <2>3 DEF IInv, HeldAlive
  <2>7. NothingLost'
    BY <2>1, <2>2, <2>3 DEF IInv, NothingLost
  <2> QED  BY <2>2, <2>5, <2>6, <2>7 DEF IInv
<1>7. ASSUME NEW m \in Blocks, Broadcast(m) PROVE IInv'
  <2>1. QueuedOnce' /\ Queued' = Queued
    BY <1>7, QueuesKept DEF Broadcast
  <2>2. TypeOK'
    BY <1>7 DEF Broadcast, IInv, TypeOK, queues
  <2> QED  BY <1>7, <2>1, <2>2 DEF Broadcast, IInv, HeldAlive, NothingLost
<1>8. ASSUME NEW m \in Blocks, Deliver(m) PROVE IInv'
  <2>1. /\ incoming \in Seq(Blocks) /\ Len(incoming) < MaxQueue /\ Distinct(incoming)
        /\ m \notin Queued /\ m \notin held
    BY <1>8 DEF Deliver, IInv, TypeOK, QueuedOnce, HeldAlive
  <2>2. /\ incoming' \in Seq(Blocks) /\ Len(incoming') = Len(incoming) + 1
        /\ ToSet(incoming') = ToSet(incoming) \cup {m}
        /\ Distinct(incoming')
    BY <1>8, <2>1, AppendElements DEF Deliver, Queued
  <2>3. Len(incoming') <= MaxQueue
    BY <2>1, <2>2, LenProperties
  <2>4. QueuedOnce' /\ Queued' = Queued \cup {m}
    BY <1>8, <2>1, <2>2 DEF Deliver, IInv, QueuedOnce, Queued
  <2>5. heap' = heap \cup {m} /\ held' = held
    BY <1>8 DEF Deliver
  <2>6. TypeOK'
    BY <1>8, <2>2, <2>3, <2>5 DEF Deliver, IInv, TypeOK
  <2> QED  BY <1>8, <2>1, <2>4, <2>5, <2>6 DEF Deliver, IInv, HeldAlive, NothingLost
<1>9. ASSUME NEW r \in Agents, Connect(r) PROVE IInv'
  <2>1. QueuedOnce' /\ Queued' = Queued
    BY <1>9, QueuesKept DEF Connect
  <2>2. [remote |-> r, active |-> TRUE] \in [remote : Agents, active : BOOLEAN]
    OBVIOUS
  <2>3. connections \in Seq([remote : Agents, active : BOOLEAN]) /\ Len(connections) < MaxConns
    BY <1>9 DEF Connect, IInv, TypeOK
  <2>4. /\ connections' \in Seq([remote : Agents, active : BOOLEAN])
        /\ Len(connections') <= MaxConns
    BY <1>9, <2>2, <2>3, AppendProperties, LenProperties DEF Connect
  <2> QED  BY <1>9, <2>1, <2>4 DEF Connect, IInv, TypeOK, HeldAlive, NothingLost, queues
<1>10. ASSUME NEW m \in Blocks, NEW r \in Agents, Create(m, r) PROVE IInv'
  <2>1. QueuedOnce' /\ Queued' = Queued
    BY <1>10, QueuesKept DEF Create
  <2>2. TypeOK'
    BY <1>10 DEF Create, IInv, TypeOK, queues
  <2> QED  BY <1>10, <2>1, <2>2 DEF Create, IInv, HeldAlive, NothingLost
<1>11. ASSUME NEW m \in Blocks, NEW r \in Agents, SendTensor(m, r) PROVE IInv'
  <2>1. UNCHANGED queues
    BY <1>11 DEF SendTensor, Transmit, queues
  <2>2. QueuedOnce' /\ Queued' = Queued
    BY <2>1, QueuesKept
  <2>3. TypeOK'
    BY <1>11, <2>1 DEF SendTensor, IInv, TypeOK, queues
  <2> QED  BY <1>11, <2>2, <2>3 DEF SendTensor, IInv, HeldAlive, NothingLost
<1>12. CASE UNCHANGED vars
  <2>1. QueuedOnce' /\ Queued' = Queued
    BY <1>12, QueuesKept DEF vars
  <2> QED  BY <1>12, <2>1 DEF vars, IInv, TypeOK, HeldAlive, NothingLost, queues
<1> QED  BY <1>1, <1>2, <1>3, <1>4, <1>5, <1>6, <1>7, <1>8, <1>9, <1>10, <1>11, <1>12 DEF Next

\* The invariant is more than the properties that are checked.
LEMMA IInvOwns == IInv => QueueOwns
<1> SUFFICES ASSUME IInv PROVE QueueOwns
  OBVIOUS
<1>1. /\ outgoing \in Seq(Blocks) /\ Distinct(outgoing)
      /\ incoming \in Seq(Blocks) /\ Distinct(incoming)
  BY DEF IInv, TypeOK, QueuedOnce
<1>2. /\ IsFiniteSet(ToSet(outgoing)) /\ Cardinality(ToSet(outgoing)) = Len(outgoing)
      /\ IsFiniteSet(ToSet(incoming)) /\ Cardinality(ToSet(incoming)) = Len(incoming)
  BY <1>1, DistinctCardinality
<1>3. Cardinality(Queued) = Len(outgoing) + Len(incoming) - Cardinality({})
  <2>1. ToSet(outgoing) \cap ToSet(incoming) = {}
    BY DEF IInv, QueuedOnce
  <2>2. Cardinality(Queued) = Cardinality(ToSet(outgoing)) + Cardinality(ToSet(incoming))
                                - Cardinality(ToSet(outgoing) \cap ToSet(incoming))
    BY <1>2, FS_Union DEF Queued
  <2> QED  BY <1>2, <2>1, <2>2
<1>4. Cardinality(Queued) = Len(outgoing) + Len(incoming)
  BY <1>1, <1>3, FS_EmptySet, LenProperties
<1> QED  BY <1>4 DEF IInv, QueueOwns

-----------------------------------------------------------------------------

\* The invariant holds in every reachable state.
LEMMA Invariance == ASSUME ~ Anywhere PROVE Spec => []IInv
<1>1. IInv /\ [Next]_vars => IInv'
  BY NextIInv
<1> QED  BY InitIInv, <1>1, PTL DEF Spec

\* Without tensors for agents that are not connected the engine and the program
\* keep their variables typed, and the queues within max_queue_size.
THEOREM TypeCorrect == ASSUME ~ Anywhere PROVE Spec => []TypeOK
<1>1. IInv => TypeOK
  BY DEF IInv
<1> QED  BY <1>1, Invariance, PTL

\* dist_comm_free frees every queued message, each once, and none that the
\* program also has.
THEOREM QueueOwnsHolds == ASSUME ~ Anywhere PROVE Spec => []QueueOwns
BY IInvOwns, Invariance, PTL

\* No call of the engine frees a message that the program still has.
THEOREM HeldAliveHolds == ASSUME ~ Anywhere PROVE Spec => []HeldAlive
<1>1. IInv => HeldAlive
  BY DEF IInv
<1> QED  BY <1>1, Invariance, PTL

\* As long as nothing goes out by a connection every block has an owner.
THEOREM NothingLostHolds == ASSUME ~ Anywhere PROVE Spec => []NothingLost
<1>1. IInv => NothingLost
  BY DEF IInv
<1> QED  BY <1>1, Invariance, PTL

=============================================================================
