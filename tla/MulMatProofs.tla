---------------------------- MODULE MulMatProofs ----------------------------
(***************************************************************************)
(* Threads that share matrix multiplications compute every cell of every   *)
(* result once, for all numbers of threads and nodes, all shapes and all   *)
(* chunk sizes.                                                            *)
(***************************************************************************)
EXTENDS MulMat, TLAPS

Chunks(k) == 0 .. ChunkCount(k) - 1

-----------------------------------------------------------------------------
(* Arithmetic *)

LEMMA DivBounds ==
    ASSUME NEW a \in Nat, NEW n \in Nat \ {0}
    PROVE  /\ a \div n \in Nat
           /\ n * (a \div n) <= a /\ a < n * (a \div n) + n
  OBVIOUS

LEMMA ModIs ==
    ASSUME NEW a \in Nat, NEW n \in Nat \ {0}
    PROVE  a % n \in 0 .. n - 1 /\ a = (n * (a \div n)) + (a % n)
<1>1. a % n \in 0 .. n - 1
  OBVIOUS
<1>2. a = (n * (a \div n)) + (a % n)
  OBVIOUS
<1> QED  BY <1>1, <1>2

LEMMA DivModOf ==
    ASSUME NEW n \in Nat \ {0}, NEW q \in Nat, NEW r \in 0 .. n - 1
    PROVE  ((n * q) + r) \div n = q /\ ((n * q) + r) % n = r
<1>1. ((n * q) + r) \div n = q
  OBVIOUS
<1>2. ((n * q) + r) % n = r
  OBVIOUS
<1> QED  BY <1>1, <1>2

LEMMA ProductMonotone ==
    ASSUME NEW n \in Nat, NEW i \in Nat, NEW j \in Nat, i <= j
    PROVE  n * i \in Nat /\ n * i <= n * j
  OBVIOUS

LEMMA ProductCancel ==
    ASSUME NEW n \in Nat \ {0}, NEW i \in Nat, NEW j \in Nat, n * i < (n * j) + n
    PROVE  i <= j
  OBVIOUS

LEMMA CeilDivFacts ==
    ASSUME NEW a \in Nat \ {0}, NEW b \in Nat \ {0}
    PROVE  CeilDiv(a, b) \in Nat \ {0} /\ a <= b * CeilDiv(a, b)
<1> DEFINE q == (a + b - 1) \div b
<1>1. a + b - 1 \in Nat
  OBVIOUS
<1>2. q \in Nat /\ a + b - 1 < (b * q) + b
  BY <1>1, DivBounds
<1>3. a <= b * q
  BY <1>2
<1>4. q # 0
  BY <1>3
<1> QED  BY <1>2, <1>3, <1>4 DEF CeilDiv

-----------------------------------------------------------------------------
(* The parts of a range and the chunks of a result *)

\* Parts stay in the range, are disjoint, and cover it.
LEMMA PartFacts ==
    ASSUME NEW nr \in Nat \ {0}, NEW n \in Nat \ {0}
    PROVE  /\ \A i \in 0 .. n - 1 : Part(nr, n, i) \subseteq 0 .. nr - 1
           /\ \A i, j \in 0 .. n - 1, x \in Int :
                 x \in Part(nr, n, i) /\ x \in Part(nr, n, j) => i = j
           /\ \A x \in 0 .. nr - 1 : \E i \in 0 .. n - 1 : x \in Part(nr, n, i)
<1> DEFINE d == CeilDiv(nr, n)
<1>1. d \in Nat \ {0} /\ nr <= n * d
  BY CeilDivFacts
<1> HIDE DEF d
<1>2. \A i \in Nat : d * i \in Nat
  BY <1>1
<1>3. \A i \in Nat, x \in Int : x \in Part(nr, n, i) <=>
          d * i <= x /\ x < (d * i) + d /\ x < nr
  BY <1>1, <1>2 DEF Part, Least, d
<1>4. \A i \in 0 .. n - 1 : Part(nr, n, i) \subseteq 0 .. nr - 1
  <2>1. \A i \in 0 .. n - 1 : Part(nr, n, i) \subseteq Int
    BY DEF Part
  <2> QED  BY <2>1, <1>1, <1>2, <1>3
<1>5. ASSUME NEW i \in 0 .. n - 1, NEW j \in 0 .. n - 1, NEW x \in Int,
             x \in Part(nr, n, i), x \in Part(nr, n, j)
      PROVE  i = j
  <2>1. d * i <= x /\ x < (d * j) + d /\ d * j <= x /\ x < (d * i) + d
    BY <1>3, <1>5
  <2>2. d * i < (d * j) + d /\ d * j < (d * i) + d
    <3>1. i \in Nat /\ j \in Nat /\ d * i \in Nat /\ d * j \in Nat
      BY <1>1, <1>2
    <3> QED  BY <2>1, <3>1, <1>1
  <2>3. i <= j /\ j <= i
    BY <2>2, <1>1, ProductCancel
  <2> QED  BY <2>3
<1>6. ASSUME NEW x \in 0 .. nr - 1 PROVE \E i \in 0 .. n - 1 : x \in Part(nr, n, i)
  <2> DEFINE i == x \div d
  <2>1. i \in Nat /\ d * i <= x /\ x < (d * i) + d
    BY <1>1, DivBounds
  <2>2. x \in Part(nr, n, i)
    BY <2>1, <1>3
  <2>3. i < n
    <3> SUFFICES ASSUME n <= i PROVE FALSE
      BY <2>1
    <3>1. d * n <= d * i
      BY <1>1, <2>1, ProductMonotone
    <3>2. d * n = n * d /\ d * n \in Nat
      BY <1>1
    <3> QED  BY <3>1, <3>2, <2>1, <1>1
  <2> QED  BY <2>1, <2>2, <2>3
<1> QED  BY <1>4, <1>5, <1>6

LEMMA NodeShape ==
    ASSUME shape \in [Nodes -> Shapes], NEW k \in Nodes
    PROVE  Nr0(k) \in Nat \ {0} /\ Nr1(k) \in Nat \ {0}
<1>1. shape[k] \in (Nat \ {0}) \X (Nat \ {0})
  BY MulMatAssumption
<1> QED  BY <1>1 DEF Nr0, Nr1

LEMMA ChunkNumbers ==
    ASSUME shape \in [Nodes -> Shapes], NEW k \in Nodes
    PROVE  /\ NChunks(k)[1] \in Nat \ {0} /\ NChunks(k)[2] \in Nat \ {0}
           /\ ChunkCount(k) \in Nat \ {0}
<1> DEFINE size == IF Nr0(k) = 1 \/ Nr1(k) = 1 THEN ThinChunk ELSE ChunkSize
<1>1. size \in Nat \ {0} /\ NThreads \in Nat \ {0}
  BY MulMatAssumption
<1>2. Nr0(k) \in Nat \ {0} /\ Nr1(k) \in Nat \ {0}
  BY NodeShape
<1> HIDE DEF size
<1>3. CeilDiv(Nr0(k), size) \in Nat \ {0} /\ CeilDiv(Nr1(k), size) \in Nat \ {0}
  BY <1>1, <1>2, CeilDivFacts
<1>4. \/ NChunks(k) = <<CeilDiv(Nr0(k), size), CeilDiv(Nr1(k), size)>>
      \/ NChunks(k) = <<NThreads, 1>>
      \/ NChunks(k) = <<1, NThreads>>
  BY DEF NChunks, size
<1>5. NChunks(k)[1] \in Nat \ {0} /\ NChunks(k)[2] \in Nat \ {0}
  BY <1>1, <1>3, <1>4
<1> QED  BY <1>5 DEF ChunkCount

\* The chunks of a node are a partition of its result.
LEMMA ChunkFacts ==
    ASSUME shape \in [Nodes -> Shapes], NEW k \in Nodes
    PROVE  /\ \A c \in Chunks(k) : Cells(k, c) \subseteq AllCells(k)
           /\ \A c, d \in Chunks(k) : c # d => Cells(k, c) \cap Cells(k, d) = {}
           /\ \A x \in AllCells(k) : \E c \in Chunks(k) : x \in Cells(k, c)
<1> DEFINE n == NChunks(k)[1]  m == NChunks(k)[2]
           row(c) == c % n     col(c) == c \div n
           rows(i) == Part(Nr0(k), n, i)  cols(j) == Part(Nr1(k), m, j)
<1>1. n \in Nat \ {0} /\ m \in Nat \ {0} /\ ChunkCount(k) = n * m
  BY ChunkNumbers DEF ChunkCount
<1>2. Nr0(k) \in Nat \ {0} /\ Nr1(k) \in Nat \ {0}
  BY NodeShape
<1>3. \A c : Cells(k, c) = rows(row(c)) \X cols(col(c))
  BY DEF Cells
<1> HIDE DEF n, m
<1>4. ASSUME NEW c \in Chunks(k)
      PROVE  row(c) \in 0 .. n - 1 /\ col(c) \in 0 .. m - 1 /\ c = (n * col(c)) + row(c)
  <2>1. c \in Nat /\ c < n * m
    BY <1>1 DEF Chunks
  <2>2. col(c) \in Nat /\ n * col(c) <= c
    BY <1>1, <2>1, DivBounds
  <2>3. row(c) \in 0 .. n - 1 /\ c = (n * col(c)) + row(c)
    BY <1>1, <2>1, ModIs
  <2>4. col(c) < m
    <3> SUFFICES ASSUME m <= col(c) PROVE FALSE
      BY <2>2, <1>1
    <3>1. n * m <= n * col(c)
      BY <1>1, <2>2, ProductMonotone
    <3> QED  BY <3>1, <2>1, <2>2, <1>1
  <2> QED  BY <2>2, <2>3, <2>4, <1>1
<1>5. ASSUME NEW i \in 0 .. n - 1, NEW j \in 0 .. m - 1
      PROVE  (n * j) + i \in Chunks(k) /\ row((n * j) + i) = i /\ col((n * j) + i) = j
  <2>1. row((n * j) + i) = i /\ col((n * j) + i) = j
    BY <1>1, DivModOf
  <2>2. n * (j + 1) <= n * m /\ n * (j + 1) = (n * j) + n /\ n * j \in Nat
    BY <1>1, ProductMonotone
  <2> QED  BY <1>1, <2>1, <2>2 DEF Chunks
<1> HIDE DEF row, col
<1>6. /\ \A i \in 0 .. n - 1 : rows(i) \subseteq 0 .. Nr0(k) - 1
      /\ \A i, j \in 0 .. n - 1, x \in Int : x \in rows(i) /\ x \in rows(j) => i = j
      /\ \A x \in 0 .. Nr0(k) - 1 : \E i \in 0 .. n - 1 : x \in rows(i)
  BY <1>1, <1>2, PartFacts
<1>7. /\ \A i \in 0 .. m - 1 : cols(i) \subseteq 0 .. Nr1(k) - 1
      /\ \A i, j \in 0 .. m - 1, x \in Int : x \in cols(i) /\ x \in cols(j) => i = j
      /\ \A x \in 0 .. Nr1(k) - 1 : \E i \in 0 .. m - 1 : x \in cols(i)
  BY <1>1, <1>2, PartFacts
<1> HIDE DEF rows, cols
<1>8. \A c \in Chunks(k) : Cells(k, c) \subseteq AllCells(k)
  BY <1>3, <1>4, <1>6, <1>7 DEF AllCells
<1>9. ASSUME NEW c \in Chunks(k), NEW d \in Chunks(k),
             NEW x \in Cells(k, c), x \in Cells(k, d)
      PROVE  c = d
  <2>1. /\ x[1] \in rows(row(c)) /\ x[2] \in cols(col(c))
        /\ x[1] \in rows(row(d)) /\ x[2] \in cols(col(d))
    BY <1>3, <1>9
  <2>2. x[1] \in Int /\ x[2] \in Int
    BY <2>1, <1>4, <1>6, <1>7, <1>2
  <2>3. row(c) = row(d) /\ col(c) = col(d)
    BY <2>1, <2>2, <1>4, <1>6, <1>7
  <2> QED  BY <2>3, <1>4
<1>10. ASSUME NEW x \in AllCells(k) PROVE \E c \in Chunks(k) : x \in Cells(k, c)
  <2>1. x = <<x[1], x[2]>> /\ x[1] \in 0 .. Nr0(k) - 1 /\ x[2] \in 0 .. Nr1(k) - 1
    BY DEF AllCells
  <2>2. PICK i \in 0 .. n - 1 : x[1] \in rows(i)
    BY <2>1, <1>6
  <2>3. PICK j \in 0 .. m - 1 : x[2] \in cols(j)
    BY <2>1, <1>7
  <2>4. x \in Cells(k, (n * j) + i)
    BY <2>1, <2>2, <2>3, <1>3, <1>5
  <2> QED  BY <2>4, <1>5
<1> QED  BY <1>8, <1>9, <1>10

\* The shares of the threads partition the blocks.
LEMMA ShareFacts ==
    /\ \A t, u \in Threads : t # u => Share(t) \cap Share(u) = {}
    /\ \A b \in Blocks : \E t \in Threads : b \in Share(t)
<1>1. NThreads \in Nat \ {0} /\ NBlocks \in Nat \ {0}
  BY MulMatAssumption
<1>2. \A t \in Nat : t * NBlocks \in Nat /\ (t + 1) * NBlocks = (t * NBlocks) + NBlocks
  BY <1>1
<1>3. \A t \in Nat : (t * NBlocks) \div NThreads \in Nat
  BY <1>1, <1>2, DivBounds
<1>4. ASSUME NEW t \in Threads, NEW u \in Threads, t < u,
             NEW b \in Share(t), b \in Share(u)
      PROVE  FALSE
  <2> DEFINE x == (t + 1) * NBlocks  y == u * NBlocks
             qx == x \div NThreads   qy == y \div NThreads
  <2>1. t + 1 \in Nat /\ u \in Nat /\ t + 1 <= u
    BY <1>1, <1>4 DEF Threads
  <2>2. x \in Nat /\ y \in Nat /\ x <= y
    <3>1. NBlocks * (t + 1) <= NBlocks * u
      BY <2>1, <1>1, ProductMonotone
    <3> QED  BY <3>1, <2>1, <1>1, <1>2
  <2> HIDE DEF x, y
  <2>3. /\ qx \in Nat /\ NThreads * qx <= x
        /\ qy \in Nat /\ y < (NThreads * qy) + NThreads
    BY <2>2, <1>1, DivBounds
  <2> HIDE DEF qx, qy
  <2>4. NThreads * qx < (NThreads * qy) + NThreads
    BY <2>2, <2>3, <1>1
  <2>5. qx <= qy
    BY <2>3, <2>4, <1>1, ProductCancel
  <2>6. b < qx /\ qy <= b /\ b \in Int
    BY <1>3, <1>4, <2>1, <2>3 DEF Share, x, y, qx, qy, Threads
  <2> QED  BY <2>3, <2>5, <2>6
<1>5. ASSUME NEW b \in Blocks PROVE \E t \in Threads : b \in Share(t)
  <2> DEFINE e == (NThreads * (b + 1)) - 1  t == e \div NBlocks
  <2>1. b \in Nat /\ b + 1 <= NBlocks
    BY <1>1 DEF Blocks
  <2>2. NThreads * (b + 1) \in Nat \ {0} /\ NThreads * (b + 1) = (NThreads * b) + NThreads
    BY <1>1, <2>1
  <2>3. e \in Nat /\ e < NThreads * (b + 1)
    BY <2>2
  <2>4. t \in Nat /\ NBlocks * t <= e /\ e < (NBlocks * t) + NBlocks
    BY <2>3, <1>1, DivBounds
  <2>5. NThreads * (b + 1) <= NThreads * NBlocks
    BY <2>1, <1>1, ProductMonotone
  <2> HIDE DEF t, e
  <2>6. t < NThreads
    <3> SUFFICES ASSUME NThreads <= t PROVE FALSE
      BY <2>4, <1>1
    <3>1. NBlocks * NThreads <= NBlocks * t
      BY <2>4, <1>1, ProductMonotone
    <3>2. NBlocks * NThreads = NThreads * NBlocks /\ NBlocks * NThreads \in Nat
      BY <1>1
    <3>3. NBlocks * t \in Nat /\ NThreads * (b + 1) \in Nat /\ e \in Nat
      BY <2>2, <2>3, <2>4, <1>1
    <3>4. NThreads * (b + 1) <= e
      BY <3>1, <3>2, <3>3, <2>4, <2>5
    <3> QED  BY <3>3, <3>4, <2>3
  <2> DEFINE x == t * NBlocks  y == (t + 1) * NBlocks
             qx == x \div NThreads  qy == y \div NThreads
  <2>7. x \in Nat /\ y \in Nat /\ x <= e /\ e < y
    BY <2>4, <1>1, <1>2
  <2> HIDE DEF x, y
  <2>8. /\ qx \in Nat /\ NThreads * qx <= x
        /\ qy \in Nat /\ y < (NThreads * qy) + NThreads
    BY <2>7, <1>1, DivBounds
  <2> HIDE DEF qx, qy
  <2>9. qx <= b
    <3>1. NThreads * qx < (NThreads * b) + NThreads
      BY <2>2, <2>3, <2>7, <2>8, <1>1
    <3> QED  BY <3>1, <2>1, <2>8, <1>1, ProductCancel
  <2>10. b + 1 <= qy
    <3>1. NThreads * (b + 1) < (NThreads * qy) + NThreads
      <4>1. e + 1 = NThreads * (b + 1)
        BY <2>2 DEF e
      <4> QED  BY <4>1, <2>3, <2>7, <2>8, <1>1
    <3> QED  BY <3>1, <2>1, <2>8, <1>1, ProductCancel
  <2>11. b \in Share(t)
    BY <2>1, <2>8, <2>9, <2>10 DEF Share, x, y, qx, qy
  <2> QED  BY <2>4, <2>6, <2>11, <1>1 DEF Threads
<1>6. ASSUME NEW t \in Threads, NEW u \in Threads, t # u
      PROVE  Share(t) \cap Share(u) = {}
  <2>1. t < u \/ u < t
    BY <1>1, <1>6 DEF Threads
  <2> QED  BY <2>1, <1>4
<1> QED  BY <1>5, <1>6

-----------------------------------------------------------------------------
(* The inductive invariant *)

Early == {"convert", "setchunk", "ready"}
Working == {"chunk", "fetch", "computed"}
Steps == Early \cup Working \cup {"meet", "leave", "done"}

\* Where a thread is tells how often it has met the others.
Where == \A t \in Threads :
    /\ pc[t] \in Early => crossed[t] = 2 * node[t] - 2 /\ arrived[t] = crossed[t]
    /\ pc[t] = "meet" => crossed[t] = 2 * node[t] - 2 /\ arrived[t] = 2 * node[t] - 1
    /\ pc[t] \in Working => crossed[t] = 2 * node[t] - 1 /\ arrived[t] = crossed[t]
    /\ pc[t] = "leave" => crossed[t] = 2 * node[t] - 1 /\ arrived[t] = 2 * node[t]
    /\ pc[t] = "done" <=> node[t] = NNodes + 1
    /\ pc[t] = "done" => crossed[t] = 2 * NNodes /\ arrived[t] = crossed[t]
    /\ pc[t] = "setchunk" => t = 0

\* Nobody has left a meeting that somebody has not come to.
Met == \A t, u \in Threads : crossed[t] <= arrived[u]

AlsoTyped == /\ arrived \in [Threads -> Nat] /\ crossed \in [Threads -> Nat]
             /\ written \in [Nodes -> SUBSET (Nat \X Nat)]

Control == TypeOK /\ AlsoTyped /\ Where /\ Met

\* A thread's own share of wdata is of its node from its conversion on.
OwnShare == \A t \in Threads :
    pc[t] \notin {"convert", "done"} /\ quantised[node[t]] =>
        \A b \in Blocks : b \in Share(t) => wdata[b] = node[t]

\* From thread 0's store on the counter belongs to its node; the numbers given
\* away are those below it, each to one thread.
CounterSet == pc[0] \notin {"convert", "setchunk", "done"}
Numbers ==
    /\ CounterSet => current_chunk >= NThreads
    /\ \A t \in Threads : pc[t] = "chunk" =>
          \/ chunk[t] = t
          \/ chunk[t] >= NThreads /\ chunk[t] < current_chunk
    /\ \A t, u \in Threads :
          t # u /\ pc[t] = "chunk" /\ pc[u] = "chunk" => chunk[t] # chunk[u]
    /\ \A t \in Threads :
          CounterSet /\ pc[t] \in {"computed", "leave"} /\ node[t] = node[0] =>
             ChunkCount(node[t]) <= current_chunk

\* Chunk c of node k is still to be computed: its first owner has not begun,
\* somebody is at it, or it is not given away.
Undone(k, c) ==
    \/ \E t \in Threads : t = c /\ crossed[t] < 2 * k - 1
    \/ \E t \in Threads : node[t] = k /\ pc[t] = "chunk" /\ chunk[t] = c
    \/ NThreads <= c /\ current_chunk <= c

NotBegun(k) == \A t \in Threads : crossed[t] < 2 * k - 1
Fresh == \A k \in Nodes : NotBegun(k) => written[k] = {}
ChunkRight(k, c) == /\ Undone(k, c) => Cells(k, c) \cap written[k] = {}
                    /\ ~ Undone(k, c) => Cells(k, c) \subseteq written[k]
Exact == CounterSet => \A c \in Chunks(node[0]) : ChunkRight(node[0], c)

IInv == Control /\ OwnShare /\ Numbers /\ Fresh /\ Exact /\ ResultComplete

-----------------------------------------------------------------------------

LEMMA ThreadFacts == NThreads \in Nat \ {0} /\ 0 \in Threads /\ Threads \subseteq Nat
  BY MulMatAssumption DEF Threads

\* The inputs stay, and with them everything computed from them.
LEMMA InputsKept ==
    ASSUME UNCHANGED inputs
    PROVE  /\ shape' = shape /\ quantised' = quantised /\ numa' = numa
           /\ \A k : ChunkCount(k)' = ChunkCount(k) /\ Chunks(k)' = Chunks(k)
           /\ \A k, c : Cells(k, c)' = Cells(k, c)
           /\ \A k : AllCells(k)' = AllCells(k)
<1>1. shape' = shape /\ quantised' = quantised /\ numa' = numa
  BY DEF inputs
<1>2. \A k : Nr0(k)' = Nr0(k) /\ Nr1(k)' = Nr1(k)
  BY <1>1 DEF Nr0, Nr1
<1>3. \A k : NChunks(k)' = NChunks(k)
  BY <1>1, <1>2 DEF NChunks
<1>4. \A k : ChunkCount(k)' = ChunkCount(k)
  BY <1>3 DEF ChunkCount
<1>5. \A k, c : Cells(k, c)' = Cells(k, c)
  BY <1>2, <1>3 DEF Cells
<1> QED  BY <1>1, <1>2, <1>4, <1>5 DEF Chunks, AllCells

\* While a thread computes, everybody is at the same node.
LEMMA Together ==
    ASSUME Control, NEW t \in Threads, pc[t] \in Working
    PROVE  /\ node[t] \in Nodes
           /\ \A u \in Threads : node[u] = node[t] /\ pc[u] \in Working \cup {"meet", "leave"}
<1>1. node[t] \in Nodes
  <2>1. node[t] \in 1 .. NNodes + 1 /\ NNodes \in Nat
    BY MulMatAssumption DEF Control, TypeOK
  <2>2. node[t] # NNodes + 1
    BY DEF Control, Where, Working
  <2> QED  BY <2>1, <2>2 DEF Nodes
<1>2. ASSUME NEW u \in Threads
      PROVE  node[u] = node[t] /\ pc[u] \in Working \cup {"meet", "leave"}
  <2>1. /\ node[u] \in Nat /\ node[t] \in Nat /\ NNodes \in Nat /\ node[t] <= NNodes
        /\ crossed[t] <= arrived[u] /\ crossed[u] <= arrived[t]
        /\ crossed[t] = 2 * node[t] - 1 /\ arrived[t] = 2 * node[t] - 1
    BY <1>1, MulMatAssumption DEF Control, TypeOK, Where, Met, Nodes
  <2>2. pc[u] \in Early \cup Working \cup {"meet", "leave", "done"}
    BY DEF Control, TypeOK, Early, Working
  <2> QED  BY <2>1, <2>2 DEF Control, Where
<1> QED  BY <1>1, <1>2

\* Everybody meets once before and once after computing a node.
LEMMA ControlKept ==
    ASSUME Control, NEW t \in Threads, Step(t)
    PROVE  Control'
<1>1. /\ NNodes \in Nat \ {0} /\ NThreads \in Nat \ {0} /\ t \in Nat
      /\ node[t] \in 1 .. NNodes + 1 /\ chunk[t] \in Nat
      /\ arrived[t] \in Nat /\ crossed[t] \in Nat
  BY ThreadFacts, MulMatAssumption DEF Control, TypeOK, AlsoTyped
<1>2. \A u \in Threads : /\ node[u] \in 1 .. NNodes + 1
                         /\ arrived[u] \in Nat /\ crossed[u] \in Nat
  BY DEF Control, TypeOK, AlsoTyped
<1>3. UNCHANGED inputs
  BY DEF Step, Convert, SetChunk, Arrive, StartChunks, DoChunk, NextChunk, NoMoreChunks, NextNode
<1>4. /\ shape' = shape /\ quantised' = quantised /\ numa' = numa
      /\ \A k : AllCells(k)' = AllCells(k)
  BY <1>3, InputsKept
<1>5. CASE Convert(t)
  <2>1. TypeOK' /\ AlsoTyped'
    <3>1. node[t] \in 0 .. NNodes
      BY <1>1, <1>5 DEF Convert, Control, Where
    <3>2. wdata' \in [Blocks -> 0 .. NNodes]
      BY <1>5, <3>1 DEF Convert, Control, TypeOK
    <3> QED  BY <1>1, <1>4, <1>5, <3>2 DEF Convert, Goto, Control, TypeOK, AlsoTyped, barrier
  <2>2. Where' /\ Met'
    BY <1>1, <1>2, <1>5 DEF Convert, Goto, Control, TypeOK, Where, Met, Early, Working, barrier
  <2> QED  BY <2>1, <2>2 DEF Control
<1>6. CASE SetChunk(t)
  <2>1. TypeOK' /\ AlsoTyped'
    BY <1>1, <1>4, <1>6 DEF SetChunk, Goto, Control, TypeOK, AlsoTyped, barrier
  <2>2. Where' /\ Met'
    BY <1>1, <1>2, <1>6 DEF SetChunk, Goto, Control, TypeOK, Where, Met, Early, Working, barrier
  <2> QED  BY <2>1, <2>2 DEF Control
<1>7. CASE Arrive(t)
  <2>1. TypeOK' /\ AlsoTyped'
    BY <1>1, <1>4, <1>7
       DEF Arrive, Goto, Meeting!Arrive, Control, TypeOK, AlsoTyped
  <2>2. Where' /\ Met'
    BY <1>1, <1>2, <1>7
       DEF Arrive, Goto, Meeting!Arrive, Control, TypeOK, AlsoTyped, Where, Met, Early, Working
  <2> QED  BY <2>1, <2>2 DEF Control
<1>8. CASE StartChunks(t)
  <2>1. TypeOK' /\ AlsoTyped'
    BY <1>1, <1>4, <1>8
       DEF StartChunks, Goto, Meeting!Cross, Control, TypeOK, AlsoTyped
  <2>2. Where' /\ Met'
    BY <1>1, <1>2, <1>8
       DEF StartChunks, Goto, Meeting!Cross, Control, TypeOK, AlsoTyped, Where, Met, Early, Working
  <2> QED  BY <2>1, <2>2 DEF Control
<1>9. CASE DoChunk(t)
  <2>1. node[t] \in Nodes /\ chunk[t] \in Chunks(node[t])
    <3>1. node[t] \in Nodes
      BY <1>9, Together DEF DoChunk, Working
    <3>2. ChunkCount(node[t]) \in Nat
      BY <3>1, ChunkNumbers DEF Control, TypeOK
    <3> QED  BY <1>1, <1>9, <3>1, <3>2 DEF DoChunk, Chunks
  <2>2. Cells(node[t], chunk[t]) \subseteq AllCells(node[t])
    BY <2>1, ChunkFacts DEF Control, TypeOK
  <2>3. /\ \A k \in Nodes : written'[k] \subseteq AllCells(k)'
        /\ written' \in [Nodes -> SUBSET (Nat \X Nat)]
    <3>1. AllCells(node[t]) \subseteq Nat \X Nat
      BY DEF AllCells
    <3> QED  BY <1>4, <1>9, <2>1, <2>2, <3>1 DEF DoChunk, Control, TypeOK, AlsoTyped
  <2>4. TypeOK' /\ AlsoTyped'
    BY <1>1, <1>4, <1>9, <2>3 DEF DoChunk, Goto, Control, TypeOK, AlsoTyped, barrier
  <2>5. Where' /\ Met'
    BY <1>1, <1>2, <1>9 DEF DoChunk, Goto, Control, TypeOK, Where, Met, Early, Working, barrier
  <2> QED  BY <2>4, <2>5 DEF Control
<1>10. CASE NextChunk(t)
  <2>1. TypeOK' /\ AlsoTyped'
    BY <1>1, <1>4, <1>10 DEF NextChunk, Goto, Control, TypeOK, AlsoTyped, barrier
  <2>2. Where' /\ Met'
    BY <1>1, <1>2, <1>10 DEF NextChunk, Goto, Control, TypeOK, Where, Met, Early, Working, barrier
  <2> QED  BY <2>1, <2>2 DEF Control
<1>11. CASE NoMoreChunks(t)
  <2>1. TypeOK' /\ AlsoTyped'
    BY <1>1, <1>4, <1>11 DEF NoMoreChunks, Goto, Control, TypeOK, AlsoTyped, barrier
  <2>2. Where' /\ Met'
    BY <1>1, <1>2, <1>11 DEF NoMoreChunks, Goto, Control, TypeOK, Where, Met, Early, Working, barrier
  <2> QED  BY <2>1, <2>2 DEF Control
<1>12. CASE NextNode(t)
  <2>1. node[t] <= NNodes
    BY <1>1, <1>12 DEF NextNode, Control, Where
  <2>2. TypeOK' /\ AlsoTyped'
    BY <1>1, <1>4, <1>12, <2>1
       DEF NextNode, Goto, Meeting!Cross, Control, TypeOK, AlsoTyped
  <2>3. Where' /\ Met'
    BY <1>1, <1>2, <1>12, <2>1
       DEF NextNode, Goto, Meeting!Cross, Control, TypeOK, AlsoTyped, Where, Met, Early, Working
  <2> QED  BY <2>2, <2>3 DEF Control
<1> QED  BY <1>5, <1>6, <1>7, <1>8, <1>9, <1>10, <1>11, <1>12 DEF Step

LEMMA StepFrame ==
    ASSUME NEW t \in Threads, Step(t)
    PROVE  UNCHANGED inputs
  BY DEF Step, Convert, SetChunk, Arrive, StartChunks, DoChunk, NextChunk, NoMoreChunks, NextNode

LEMMA OwnShareKept ==
    ASSUME Control, OwnShare, NEW t \in Threads, Step(t)
    PROVE  OwnShare'
<1>1. quantised' = quantised
  BY StepFrame, InputsKept
<1>2. pc \in [Threads -> Steps] /\ node \in [Threads -> 1 .. NNodes + 1]
  BY DEF Control, TypeOK, Steps, Early, Working
<1>3. CASE Convert(t)
  <2> SUFFICES ASSUME NEW u \in Threads, pc'[u] \notin {"convert", "done"},
                      quantised'[node'[u]], NEW b \in Blocks, b \in Share(u)
               PROVE  wdata'[b] = node'[u]
    BY DEF OwnShare
  <2>1. CASE u = t
    BY <1>1, <1>2, <1>3, <2>1 DEF Convert
  <2>2. CASE u # t
    <3>1. b \notin Share(t) /\ pc'[u] = pc[u] /\ node' = node
      BY <1>2, <1>3, <2>2, ShareFacts DEF Convert, Goto
    <3>2. wdata'[b] = wdata[b]
      BY <1>3, <3>1 DEF Convert, Control, TypeOK
    <3> QED  BY <1>1, <3>1, <3>2 DEF OwnShare
  <2> QED  BY <2>1, <2>2
<1>4. CASE NextNode(t)
  <2>1. wdata' = wdata /\ pc'[t] \in {"convert", "done"}
        /\ \A u \in Threads : u # t => pc'[u] = pc[u] /\ node'[u] = node[u]
    BY <1>2, <1>4 DEF NextNode, Goto
  <2> QED  BY <1>1, <2>1 DEF OwnShare
<1>5. CASE SetChunk(t) \/ Arrive(t) \/ StartChunks(t) \/ DoChunk(t) \/ NextChunk(t) \/ NoMoreChunks(t)
  <2>1. /\ wdata' = wdata /\ node' = node /\ pc[t] \notin {"convert", "done"}
        /\ \A u \in Threads : u # t => pc'[u] = pc[u]
    BY <1>2, <1>5
       DEF SetChunk, Arrive, StartChunks, DoChunk, NextChunk, NoMoreChunks, Goto
  <2> QED  BY <1>1, <2>1 DEF OwnShare
<1> QED  BY <1>3, <1>4, <1>5 DEF Step

\* The chunk counter: set before anybody fetches, never given away twice.
LEMMA NumbersKept ==
    ASSUME Control, Numbers, NEW t \in Threads, Step(t)
    PROVE  Numbers'
<1> USE ThreadFacts
<1>1. /\ pc \in [Threads -> Steps] /\ node \in [Threads -> 1 .. NNodes + 1]
      /\ chunk \in [Threads -> Nat] /\ current_chunk \in Nat /\ t \in Nat
      /\ 0 \in Threads /\ t < NThreads /\ NNodes \in Nat
  BY MulMatAssumption DEF Control, TypeOK, Threads, Steps, Early, Working
<1>2. \A k : ChunkCount(k)' = ChunkCount(k)
  BY StepFrame, InputsKept
<1>3. \A u \in Threads : pc[u] \in Working =>
          \A w \in Threads : node[w] = node[u] /\ pc[w] \in Working \cup {"meet", "leave"}
  BY Together
<1>4. \A u \in Threads : pc[u] \in Working => CounterSet /\ ChunkCount(node[u]) \in Nat
  <2>1. \A u \in Threads : pc[u] \in Working => CounterSet /\ node[u] \in Nodes
    BY <1>3, Together DEF CounterSet, Working
  <2> QED  BY <2>1, ChunkNumbers DEF Control, TypeOK
<1>5. CASE Convert(t) \/ Arrive(t)
  <2>1. /\ node' = node /\ chunk' = chunk /\ current_chunk' = current_chunk
        /\ \A u \in Threads : u # t => pc'[u] = pc[u]
        /\ \/ pc[t] = "convert" /\ pc'[t] = IF t = 0 THEN "setchunk" ELSE "ready"
           \/ pc[t] = "ready" /\ pc'[t] = "meet"
           \/ pc[t] = "computed" /\ pc'[t] = "leave"
    BY <1>1, <1>5 DEF Convert, Arrive, Goto
  <2> QED  BY <1>1, <1>2, <2>1 DEF Numbers, CounterSet
<1>6. CASE SetChunk(t)
  <2>1. /\ t = 0 /\ pc[0] = "setchunk" /\ pc'[0] = "ready" /\ node' = node
        /\ current_chunk' = NThreads
        /\ \A u \in Threads : u # 0 => pc'[u] = pc[u]
    BY <1>1, <1>6 DEF SetChunk, Goto, Control, Where
  <2>2. \A u \in Threads : pc[u] # "chunk" /\ pc[u] # "computed"
    BY <1>3, <2>1 DEF Working
  <2>3. \A u \in Threads : pc[u] = "leave" => node[u] # node[0]
    <3> SUFFICES ASSUME NEW u \in Threads, pc[u] = "leave", node[u] = node[0]
                 PROVE  FALSE
      OBVIOUS
    <3>1. crossed[u] = 2 * node[0] - 1 /\ arrived[0] = 2 * node[0] - 2
          /\ crossed[u] <= arrived[0]
      BY <2>1 DEF Control, Where, Met, Early
    <3> QED  BY <3>1, <1>1
  <2> QED  BY <1>1, <2>1, <2>2, <2>3 DEF Numbers
<1>7. CASE StartChunks(t)
  <2>1. /\ node' = node /\ current_chunk' = current_chunk
        /\ pc[t] = "meet" /\ pc'[t] = "chunk" /\ chunk'[t] = t
        /\ \A u \in Threads : u # t => pc'[u] = pc[u] /\ chunk'[u] = chunk[u]
    BY <1>1, <1>7 DEF StartChunks, Goto
  <2> QED  BY <1>1, <1>2, <2>1 DEF Numbers, CounterSet
<1>8. CASE DoChunk(t)
  <2>1. /\ node' = node /\ current_chunk' = current_chunk /\ chunk' = chunk
        /\ pc[t] = "chunk" /\ pc'[t] \in {"computed", "fetch"}
        /\ pc'[t] = "computed" => ChunkCount(node[t]) <= NThreads
        /\ \A u \in Threads : u # t => pc'[u] = pc[u]
    BY <1>1, <1>4, <1>8 DEF DoChunk, Goto, Working
  <2>2. CounterSet /\ current_chunk >= NThreads /\ ChunkCount(node[t]) \in Nat
    BY <1>4, <2>1 DEF Working, Numbers
  <2> QED  BY <1>1, <1>2, <2>1, <2>2 DEF Numbers, CounterSet
<1>9. CASE NextChunk(t)
  <2>1. /\ node' = node /\ current_chunk' = current_chunk + 1
        /\ pc[t] = "fetch" /\ pc'[t] = "chunk" /\ chunk'[t] = current_chunk
        /\ \A u \in Threads : u # t => pc'[u] = pc[u] /\ chunk'[u] = chunk[u]
    BY <1>1, <1>9 DEF NextChunk, Goto
  <2>2. CounterSet /\ current_chunk >= NThreads
    BY <1>4, <2>1 DEF Working, Numbers
  <2>3. \A u \in Threads : u < NThreads
    BY DEF Threads
  <2>4. \A u \in Threads : pc[u] = "chunk" => chunk[u] < current_chunk
    BY <1>1, <2>2, <2>3 DEF Numbers
  <2>5. \A u \in Threads : pc[u] = "computed" => ChunkCount(node[u]) \in Nat
    BY <1>4 DEF Working
  <2>6. \A u \in Threads : pc[u] = "leave" /\ node[u] = node[0] => ChunkCount(node[u]) \in Nat
    <3>1. node[0] \in Nodes
      BY <1>3, <2>1, Together DEF Working
    <3> QED  BY <3>1, ChunkNumbers DEF Control, TypeOK
  <2>7. /\ CounterSet' => current_chunk' >= NThreads
        /\ \A u \in Threads : pc'[u] = "chunk" =>
              chunk'[u] = u \/ (chunk'[u] >= NThreads /\ chunk'[u] < current_chunk')
    BY <1>1, <2>1, <2>2, <2>4 DEF Numbers
  <2>8. \A u, w \in Threads :
           u # w /\ pc'[u] = "chunk" /\ pc'[w] = "chunk" => chunk'[u] # chunk'[w]
    BY <1>1, <2>1, <2>4 DEF Numbers
  <2>9. \A u \in Threads : pc'[u] \in {"computed", "leave"} /\ node'[u] = node'[0] =>
           ChunkCount(node[u]) <= current_chunk'
    BY <1>1, <2>1, <2>2, <2>5, <2>6 DEF Numbers
  <2> QED  BY <1>2, <2>1, <2>7, <2>8, <2>9 DEF Numbers
<1>10. CASE NoMoreChunks(t)
  <2>1. /\ node' = node /\ current_chunk' = current_chunk /\ chunk' = chunk
        /\ pc[t] = "chunk" /\ pc'[t] = "computed" /\ chunk[t] >= ChunkCount(node[t])
        /\ \A u \in Threads : u # t => pc'[u] = pc[u]
    BY <1>1, <1>10 DEF NoMoreChunks, Goto
  <2>2. CounterSet /\ current_chunk >= NThreads /\ ChunkCount(node[t]) \in Nat
    BY <1>4, <2>1 DEF Working, Numbers
  <2>3. ChunkCount(node[t]) <= current_chunk
    BY <1>1, <2>1, <2>2 DEF Numbers
  <2> QED  BY <1>1, <1>2, <2>1, <2>2, <2>3 DEF Numbers, CounterSet
<1>11. CASE NextNode(t)
  <2>1. /\ current_chunk' = current_chunk /\ chunk' = chunk
        /\ pc[t] = "leave" /\ pc'[t] \in {"convert", "done"}
        /\ \A u \in Threads : u # t => pc'[u] = pc[u] /\ node'[u] = node[u]
    BY <1>1, <1>11 DEF NextNode, Goto
  <2> QED  BY <1>1, <1>2, <2>1 DEF Numbers, CounterSet
<1> QED  BY <1>5, <1>6, <1>7, <1>8, <1>9, <1>10, <1>11 DEF Step

\* Cells are written by threads that have begun with the node.
LEMMA FreshKept ==
    ASSUME Control, Fresh, NEW t \in Threads, Step(t)
    PROVE  Fresh'
<1>1. \A u \in Threads : crossed[u] \in Nat /\ crossed'[u] \in Nat /\ crossed[u] <= crossed'[u]
  <2>1. crossed' = crossed \/ crossed' = [crossed EXCEPT ![t] = @ + 1]
    BY DEF Step, Convert, SetChunk, Arrive, StartChunks, DoChunk, NextChunk, NoMoreChunks,
           NextNode, barrier, Meeting!Arrive, Meeting!Cross
  <2> QED  BY <2>1 DEF Control, AlsoTyped
<1>2. \A k \in Nodes : NotBegun(k)' => NotBegun(k)
  BY <1>1 DEF NotBegun, Nodes
<1>3. CASE DoChunk(t)
  <2>1. node[t] \in Nodes /\ crossed[t] = 2 * node[t] - 1
    BY <1>3, Together DEF DoChunk, Control, Where, Working
  <2>2. ~ NotBegun(node[t])
    BY <1>1, <2>1 DEF NotBegun
  <2>3. \A k \in Nodes : k # node[t] => written'[k] = written[k]
    BY <1>3 DEF DoChunk, Control, AlsoTyped
  <2> QED  BY <1>2, <2>2, <2>3 DEF Fresh
<1>4. CASE ~ DoChunk(t)
  <2>1. written' = written
    BY <1>4 DEF Step, Convert, SetChunk, Arrive, StartChunks, NextChunk, NoMoreChunks, NextNode
  <2> QED  BY <1>2, <2>1 DEF Fresh
<1> QED  BY <1>3, <1>4

\* When everybody has come to the meeting after a node nothing of it is undone.
LEMMA NothingUndone ==
    ASSUME IInv, NEW t \in Threads, NextNode(t)
    PROVE  node[t] \in Nodes /\ written[node[t]] = AllCells(node[t])
<1> DEFINE k == node[t]
<1>1. /\ node \in [Threads -> 1 .. NNodes + 1] /\ NNodes \in Nat
      /\ crossed \in [Threads -> Nat] /\ arrived \in [Threads -> Nat]
      /\ current_chunk \in Nat /\ NThreads \in Nat /\ 0 \in Threads /\ Threads \subseteq Nat
  BY MulMatAssumption, ThreadFacts DEF IInv, Control, TypeOK, AlsoTyped
<1>2. k \in Nodes /\ pc[t] = "leave" /\ crossed[t] = 2 * k - 1
  BY <1>1 DEF NextNode, IInv, Control, Where, Nodes
<1>3. \A u \in Threads : arrived[u] >= 2 * k
  BY <1>1, <1>2 DEF NextNode, Meeting!Cross
<1>4. \A u \in Threads : node[u] >= k /\ crossed[u] >= 2 * k - 1
  <2> SUFFICES ASSUME NEW u \in Threads PROVE node[u] >= k /\ crossed[u] >= 2 * k - 1
    OBVIOUS
  <2>1. pc[u] \in Early \cup Working \cup {"meet", "leave", "done"}
    BY DEF IInv, Control, TypeOK, Early, Working
  <2>2. node[u] \in Nat /\ k \in Nat /\ k <= NNodes /\ arrived[u] >= 2 * k
    BY <1>1, <1>2, <1>3 DEF Nodes
  <2> QED  BY <1>1, <2>1, <2>2 DEF IInv, Control, Where
<1>5. CASE node[0] # k
  <2>1. k < node[0]
    BY <1>1, <1>2, <1>4, <1>5 DEF Nodes
  <2> QED  BY <1>1, <1>2, <2>1 DEF IInv, ResultComplete
<1>6. CASE node[0] = k
  <2>1. pc[0] = "leave"
    <3>1. pc[0] \in Early \cup Working \cup {"meet", "leave", "done"}
      BY <1>1 DEF IInv, Control, TypeOK, Early, Working
    <3>2. arrived[0] >= 2 * k /\ k \in Nat /\ k <= NNodes
      BY <1>1, <1>2, <1>3 DEF Nodes
    <3> QED  BY <1>1, <1>6, <3>1, <3>2 DEF IInv, Control, Where
  <2>2. CounterSet
    BY <2>1 DEF CounterSet
  <2>3. ChunkCount(k) \in Nat /\ ChunkCount(k) <= current_chunk
    <3>1. ChunkCount(k) \in Nat
      BY <1>2, ChunkNumbers DEF IInv, Control, TypeOK
    <3> QED  BY <1>2, <1>6, <2>2, <3>1 DEF IInv, Numbers
  <2>4. \A u \in Threads : node[u] = k => pc[u] # "chunk"
    <3> SUFFICES ASSUME NEW u \in Threads, node[u] = k, pc[u] = "chunk" PROVE FALSE
      OBVIOUS
    <3>1. arrived[u] = 2 * k - 1
      BY DEF IInv, Control, Where, Working
    <3> QED  BY <1>1, <1>2, <1>3, <3>1 DEF Nodes
  <2>5. \A c \in Chunks(k) : ~ Undone(k, c)
    <3> SUFFICES ASSUME NEW c \in Chunks(k) PROVE ~ Undone(k, c)
      OBVIOUS
    <3>1. c \in Nat /\ c < ChunkCount(k)
      BY <2>3 DEF Chunks
    <3>2. \A u \in Threads : ~ (crossed[u] < 2 * k - 1)
      BY <1>1, <1>2, <1>4 DEF Nodes
    <3> QED  BY <1>1, <2>3, <2>4, <3>1, <3>2 DEF Undone
  <2>6. \A c \in Chunks(k) : Cells(k, c) \subseteq written[k]
    BY <1>6, <2>2, <2>5 DEF IInv, Exact, ChunkRight
  <2>7. AllCells(k) \subseteq written[k]
    BY <1>2, <2>6, ChunkFacts DEF IInv, Control, TypeOK
  <2> QED  BY <1>2, <2>7 DEF IInv, Control, TypeOK
<1> QED  BY <1>2, <1>5, <1>6

LEMMA ResultKept ==
    ASSUME IInv, NEW t \in Threads, Step(t)
    PROVE  ResultComplete'
<1>1. /\ node \in [Threads -> 1 .. NNodes + 1] /\ NNodes \in Nat
      /\ written \in [Nodes -> SUBSET (Nat \X Nat)]
  BY MulMatAssumption DEF IInv, Control, TypeOK, AlsoTyped
<1>2. \A k : AllCells(k)' = AllCells(k)
  BY StepFrame, InputsKept
<1>3. CASE NextNode(t)
  <2>1. written' = written /\ node' = [node EXCEPT ![t] = @ + 1]
    BY <1>3 DEF NextNode
  <2>2. node[t] \in Nodes /\ written[node[t]] = AllCells(node[t])
    BY <1>3, NothingUndone
  <2>3. \A u \in Threads, k \in Nodes : k < node'[u] => k < node[u] \/ k = node[t]
    BY <1>1, <2>1, <2>2 DEF Nodes
  <2> QED  BY <1>2, <2>1, <2>2, <2>3 DEF IInv, ResultComplete
<1>4. CASE DoChunk(t)
  <2>1. node' = node /\ \A k \in Nodes : written[k] \subseteq written'[k]
    BY <1>1, <1>4 DEF DoChunk
  <2>2. \A k \in Nodes : written'[k] \subseteq AllCells(k)'
    BY ControlKept DEF IInv, Control, TypeOK
  <2>3. \A u \in Threads, k \in Nodes : k < node[u] => written[k] = AllCells(k)
    BY DEF IInv, ResultComplete
  <2> QED  BY <1>2, <2>1, <2>2, <2>3 DEF ResultComplete
<1>5. CASE ~ DoChunk(t) /\ ~ NextNode(t)
  <2>1. written' = written /\ node' = node
    BY <1>5 DEF Step, Convert, SetChunk, Arrive, StartChunks, NextChunk, NoMoreChunks
  <2> QED  BY <1>2, <2>1 DEF IInv, ResultComplete
<1> QED  BY <1>3, <1>4, <1>5

\* Chunks are right as long as what is undone and what is written change together.
LEMMA StillRight ==
    ASSUME Control, NEW t \in Threads, Step(t), NEW k \in Nodes, NEW c,
           ChunkRight(k, c), Undone(k, c)' <=> Undone(k, c), written'[k] = written[k]
    PROVE  ChunkRight(k, c)'
<1>1. Cells(k, c)' = Cells(k, c)
  BY StepFrame, InputsKept
<1> QED  BY <1>1 DEF ChunkRight

LEMMA ExactKept ==
    ASSUME IInv, NEW t \in Threads, Step(t), CounterSet',
           NEW k \in Nodes, k = node'[0], NEW c \in Chunks(k)
    PROVE  ChunkRight(k, c)'
<1> USE ThreadFacts
<1>1. /\ pc \in [Threads -> Steps] /\ node \in [Threads -> 1 .. NNodes + 1]
      /\ chunk \in [Threads -> Nat] /\ current_chunk \in Nat /\ NNodes \in Nat
      /\ crossed \in [Threads -> Nat] /\ arrived \in [Threads -> Nat]
      /\ written \in [Nodes -> SUBSET (Nat \X Nat)]
      /\ 0 \in Threads /\ t \in Nat
  BY MulMatAssumption DEF IInv, Control, TypeOK, AlsoTyped, Steps, Early, Working
<1>2. k \in Nodes
  OBVIOUS
<1>3. ChunkCount(k) \in Nat /\ c \in Nat /\ c < ChunkCount(k)
  <2>1. ChunkCount(k) \in Nat
    BY <1>2, ChunkNumbers DEF IInv, Control, TypeOK
  <2> QED  BY <2>1 DEF Chunks
<1>4. k \in Nat
  BY <1>2 DEF Nodes
<1>5. CASE Convert(t) \/ Arrive(t)
  <2>1. /\ node' = node /\ chunk' = chunk /\ current_chunk' = current_chunk
        /\ written' = written /\ crossed' = crossed
        /\ \A u \in Threads : pc'[u] = "chunk" <=> pc[u] = "chunk"
        /\ CounterSet
    BY <1>1, <1>5 DEF Convert, Arrive, Goto, Meeting!Arrive, barrier, CounterSet
  <2>2. Undone(k, c)' <=> Undone(k, c)
    BY <2>1 DEF Undone
  <2>3. ChunkRight(k, c)
    BY <2>1 DEF IInv, Exact
  <2> QED  BY <1>2, <2>1, <2>2, <2>3, StillRight DEF IInv
<1>6. CASE SetChunk(t)
  <2>1. /\ t = 0 /\ node' = node /\ current_chunk' = NThreads /\ pc[0] = "setchunk"
        /\ written' = written /\ crossed' = crossed
    BY <1>6 DEF SetChunk, IInv, Control, Where, barrier
  <2>2. \A u \in Threads : crossed[u] < 2 * k - 1
    <3>1. arrived[0] = 2 * k - 2 /\ \A u \in Threads : crossed[u] <= arrived[0]
      BY <1>1, <2>1 DEF IInv, Control, Where, Met, Early
    <3> QED  BY <1>1, <1>4, <3>1
  <2>3. written'[k] = {}
    BY <1>2, <2>1, <2>2 DEF IInv, Fresh, NotBegun
  <2>4. Undone(k, c)'
    <3>1. CASE c < NThreads
      <4>1. c \in Threads
        BY <1>3, <3>1 DEF Threads
      <4> QED  BY <2>1, <2>2, <4>1 DEF Undone
    <3>2. CASE NThreads <= c
      BY <2>1, <3>2 DEF Undone
    <3> QED  BY <1>3, <3>1, <3>2
  <2> QED  BY <2>3, <2>4 DEF ChunkRight
<1>7. CASE StartChunks(t)
  <2>1. /\ node' = node /\ current_chunk' = current_chunk /\ written' = written
        /\ pc[t] = "meet" /\ pc'[t] = "chunk" /\ chunk'[t] = t
        /\ crossed'[t] = crossed[t] + 1
        /\ \A u \in Threads : u # t =>
              pc'[u] = pc[u] /\ chunk'[u] = chunk[u] /\ crossed'[u] = crossed[u]
    BY <1>1, <1>7 DEF StartChunks, Goto, Meeting!Cross
  <2>2. node[t] = k /\ CounterSet /\ crossed[t] = 2 * k - 2
    <3>1. /\ crossed[t] = 2 * node[t] - 2 /\ arrived[t] = 2 * node[t] - 1
          /\ crossed[t] < arrived[0] /\ crossed[0] <= arrived[t]
          /\ node[t] \in Nat /\ node[t] <= NNodes
      BY <1>1, <1>7, <2>1 DEF StartChunks, Meeting!Cross, IInv, Control, Where, Met
    <3>2. node[0] \in Nat /\ crossed[0] \in Nat /\ arrived[0] \in Nat
          /\ pc[0] \in Early \cup Working \cup {"meet", "leave", "done"}
      BY <1>1 DEF Steps
    <3>3. node[0] = node[t]
      BY <1>1, <3>1, <3>2 DEF IInv, Control, Where
    <3>4. CounterSet
      BY <1>1, <2>1 DEF CounterSet
    <3> QED  BY <2>1, <3>1, <3>3, <3>4
  <2>3. crossed'[t] = 2 * k - 1
    BY <1>4, <2>1, <2>2
  <2>4. Undone(k, c)' <=> Undone(k, c)
    <3>1. CASE c = t
      <4>1. Undone(k, c)
        BY <1>1, <1>4, <2>2, <3>1 DEF Undone
      <4>2. Undone(k, c)'
        BY <2>1, <2>2, <3>1 DEF Undone
      <4> QED  BY <4>1, <4>2
    <3>2. CASE c # t
      <4>1. \A u \in Threads : (u = c /\ crossed'[u] < 2 * k - 1) <=> (u = c /\ crossed[u] < 2 * k - 1)
        BY <2>1, <3>2
      <4>2. \A u \in Threads : (node'[u] = k /\ pc'[u] = "chunk" /\ chunk'[u] = c)
                                <=> (node[u] = k /\ pc[u] = "chunk" /\ chunk[u] = c)
        BY <2>1, <3>2
      <4> QED  BY <2>1, <4>1, <4>2 DEF Undone
    <3> QED  BY <3>1, <3>2
  <2>5. ChunkRight(k, c)
    BY <2>1, <2>2 DEF IInv, Exact
  <2> QED  BY <1>2, <2>1, <2>4, <2>5, StillRight DEF IInv
<1>8. CASE DoChunk(t)
  <2>1. /\ node' = node /\ current_chunk' = current_chunk /\ chunk' = chunk /\ crossed' = crossed
        /\ pc[t] = "chunk" /\ pc'[t] # "chunk" /\ chunk[t] < ChunkCount(node[t])
        /\ \A u \in Threads : u # t => pc'[u] = pc[u]
    BY <1>1, <1>8 DEF DoChunk, Goto, barrier
  <2>2. node[t] = k /\ CounterSet /\ crossed[t] = 2 * k - 1
    <3>1. node[0] = node[t] /\ pc[0] \in Working \cup {"meet", "leave"}
      BY <2>1, Together DEF Working, IInv
    <3>2. crossed[t] = 2 * node[t] - 1
      BY <2>1 DEF IInv, Control, Where, Working
    <3> QED  BY <2>1, <3>1, <3>2 DEF CounterSet, Working
  <2>3. written'[k] = written[k] \cup Cells(k, chunk[t])
    BY <1>1, <1>2, <1>8, <2>2 DEF DoChunk
  <2>4. Cells(k, c)' = Cells(k, c)
    BY StepFrame, InputsKept
  <2>5. ChunkRight(k, c)
    BY <2>1, <2>2 DEF IInv, Exact
  <2>6. chunk[t] \in Chunks(k)
    BY <1>1, <1>3, <2>1, <2>2 DEF Chunks
  <2>7. CASE c = chunk[t]
    <3>1. Cells(k, c)' \subseteq written'[k]
      BY <2>3, <2>4, <2>7
    <3>2. ~ Undone(k, c)'
      <4>1. \A u \in Threads : u = c => u = t
        BY <1>1, <2>1, <2>7 DEF IInv, Numbers, Threads
      <4>2. \A u \in Threads : ~ (u = c /\ crossed'[u] < 2 * k - 1)
        BY <1>4, <2>1, <2>2, <4>1
      <4>3. \A u \in Threads : ~ (pc'[u] = "chunk" /\ chunk'[u] = c)
        BY <2>1, <2>7 DEF IInv, Numbers
      <4>4. ~ (NThreads <= c /\ current_chunk' <= c)
        <5>1. chunk[t] = t \/ (chunk[t] >= NThreads /\ chunk[t] < current_chunk)
          BY <2>1 DEF IInv, Numbers
        <5>2. t < NThreads /\ chunk[t] \in Nat /\ NThreads \in Nat
          BY <1>1 DEF Threads
        <5> QED  BY <1>1, <2>1, <2>7, <5>1, <5>2
      <4> QED  BY <4>2, <4>3, <4>4 DEF Undone
    <3> QED  BY <3>1, <3>2 DEF ChunkRight
  <2>8. CASE c # chunk[t]
    <3>1. Cells(k, c) \cap Cells(k, chunk[t]) = {}
      BY <1>2, <2>6, <2>8, ChunkFacts DEF IInv, Control, TypeOK
    <3>2. Undone(k, c)' <=> Undone(k, c)
      BY <2>1, <2>8 DEF Undone
    <3> QED  BY <2>3, <2>4, <2>5, <3>1, <3>2 DEF ChunkRight
  <2> QED  BY <2>7, <2>8
<1>9. CASE NextChunk(t)
  <2>1. /\ node' = node /\ current_chunk' = current_chunk + 1 /\ written' = written
        /\ crossed' = crossed
        /\ pc[t] = "fetch" /\ pc'[t] = "chunk" /\ chunk'[t] = current_chunk
        /\ \A u \in Threads : u # t => pc'[u] = pc[u] /\ chunk'[u] = chunk[u]
    BY <1>1, <1>9 DEF NextChunk, Goto, barrier
  <2>2. node[t] = k /\ CounterSet
    <3>1. node[0] = node[t] /\ pc[0] \in Working \cup {"meet", "leave"}
      BY <2>1, Together DEF Working, IInv
    <3> QED  BY <2>1, <3>1 DEF CounterSet, Working
  <2>3. current_chunk >= NThreads
    BY <2>2 DEF IInv, Numbers
  <2>4. Undone(k, c)' <=> Undone(k, c)
    <3>1. CASE c = current_chunk
      <4>1. Undone(k, c)
        BY <1>1, <2>3, <3>1 DEF Undone
      <4>2. Undone(k, c)'
        BY <2>1, <2>2, <3>1 DEF Undone
      <4> QED  BY <4>1, <4>2
    <3>2. CASE c # current_chunk
      <4>1. \A u \in Threads : (node'[u] = k /\ pc'[u] = "chunk" /\ chunk'[u] = c)
                                <=> (node[u] = k /\ pc[u] = "chunk" /\ chunk[u] = c)
        BY <2>1, <3>2
      <4>2. current_chunk' <= c <=> current_chunk <= c
        BY <1>1, <1>3, <2>1, <3>2
      <4> QED  BY <2>1, <4>1, <4>2 DEF Undone
    <3> QED  BY <3>1, <3>2
  <2>5. ChunkRight(k, c)
    BY <2>1, <2>2 DEF IInv, Exact
  <2> QED  BY <1>2, <2>1, <2>4, <2>5, StillRight DEF IInv
<1>10. CASE NoMoreChunks(t)
  <2>1. /\ node' = node /\ current_chunk' = current_chunk /\ chunk' = chunk /\ crossed' = crossed
        /\ written' = written
        /\ pc[t] = "chunk" /\ pc'[t] = "computed" /\ chunk[t] >= ChunkCount(node[t])
        /\ \A u \in Threads : u # t => pc'[u] = pc[u]
    BY <1>1, <1>10 DEF NoMoreChunks, Goto, barrier
  <2>2. node[t] = k /\ CounterSet
    <3>1. node[0] = node[t] /\ pc[0] \in Working \cup {"meet", "leave"}
      BY <2>1, Together DEF Working, IInv
    <3> QED  BY <2>1, <3>1 DEF CounterSet, Working
  <2>3. c # chunk[t]
    BY <1>1, <1>3, <2>1, <2>2
  <2>4. Undone(k, c)' <=> Undone(k, c)
    BY <2>1, <2>3 DEF Undone
  <2>5. ChunkRight(k, c)
    BY <2>1, <2>2 DEF IInv, Exact
  <2> QED  BY <1>2, <2>1, <2>4, <2>5, StillRight DEF IInv
<1>11. CASE NextNode(t)
  <2>1. /\ current_chunk' = current_chunk /\ chunk' = chunk /\ written' = written
        /\ pc[t] = "leave" /\ pc'[t] \in {"convert", "done"}
        /\ crossed'[t] = crossed[t] + 1 /\ node'[t] = node[t] + 1
        /\ \A u \in Threads : u # t =>
              pc'[u] = pc[u] /\ node'[u] = node[u] /\ crossed'[u] = crossed[u]
    BY <1>1, <1>11 DEF NextNode, Goto, Meeting!Cross
  <2>2. t # 0 /\ node[0] = k /\ CounterSet
    BY <1>1, <2>1 DEF CounterSet
  <2>3. crossed[t] = 2 * node[t] - 1 /\ node[t] \in Nat
    BY <1>1, <2>1 DEF IInv, Control, Where
  <2>4. crossed'[t] < 2 * k - 1 <=> crossed[t] < 2 * k - 1
    BY <1>1, <1>4, <2>1, <2>3
  <2>5. \A u \in Threads : crossed'[u] < 2 * k - 1 <=> crossed[u] < 2 * k - 1
    BY <2>1, <2>4
  <2>6. \A u \in Threads : (node'[u] = k /\ pc'[u] = "chunk") <=> (node[u] = k /\ pc[u] = "chunk")
    BY <2>1
  <2>7. Undone(k, c)' <=> Undone(k, c)
    BY <2>1, <2>5, <2>6 DEF Undone
  <2>8. ChunkRight(k, c)
    BY <2>2 DEF IInv, Exact
  <2> QED  BY <1>2, <2>1, <2>7, <2>8, StillRight DEF IInv
<1> QED  BY <1>5, <1>6, <1>7, <1>8, <1>9, <1>10, <1>11 DEF Step

-----------------------------------------------------------------------------

LEMMA InitIInv == Init => IInv
<1> SUFFICES ASSUME Init PROVE IInv
  OBVIOUS
<1> USE ThreadFacts
<1>1. NNodes \in Nat \ {0} /\ 1 \in Nodes /\ 1 \in 1 .. NNodes + 1
  BY MulMatAssumption DEF Nodes
<1>2. TypeOK /\ AlsoTyped
  BY <1>1 DEF Init, Meeting!Init, TypeOK, AlsoTyped
<1>3. \A t \in Threads : pc[t] = "convert" /\ node[t] = 1 /\ crossed[t] = 0 /\ arrived[t] = 0
  BY DEF Init, Meeting!Init
<1>4. Where /\ Met
  BY <1>1, <1>3 DEF Where, Met, Early, Working
<1>5. OwnShare /\ Numbers /\ Exact
  BY <1>3 DEF OwnShare, Numbers, Exact, CounterSet
<1>6. Fresh
  BY DEF Init, Fresh
<1>7. ResultComplete
  BY <1>1, <1>3 DEF ResultComplete, Nodes
<1> QED  BY <1>2, <1>4, <1>5, <1>6, <1>7 DEF IInv, Control

LEMMA NextIInv == IInv /\ [Next]_vars => IInv'
<1>1. ASSUME IInv, NEW t \in Threads, Step(t) PROVE IInv'
  <2>1. Control' /\ OwnShare' /\ Numbers' /\ Fresh'
    BY <1>1, ControlKept, OwnShareKept, NumbersKept, FreshKept DEF IInv
  <2>2. ResultComplete'
    BY <1>1, ResultKept
  <2>3. Exact'
    <3>1. CounterSet' => node'[0] \in Nodes
      <4>1. node'[0] \in 1 .. NNodes + 1 /\ (pc'[0] # "done" => node'[0] # NNodes + 1)
        BY <2>1, ThreadFacts DEF Control, TypeOK, Where
      <4> QED  BY <4>1, MulMatAssumption DEF CounterSet, Nodes
    <3>2. \A k : Chunks(k)' = Chunks(k)
      BY <1>1, StepFrame, InputsKept
    <3>3. ASSUME CounterSet', NEW k \in Nodes, k = node'[0], NEW c \in Chunks(k)
          PROVE  ChunkRight(k, c)'
      BY <1>1, <3>3, ExactKept
    <3> QED  BY <3>1, <3>2, <3>3 DEF Exact
  <2> QED  BY <2>1, <2>2, <2>3 DEF IInv
<1>2. ASSUME IInv, UNCHANGED vars PROVE IInv'
  <2>1. /\ UNCHANGED inputs /\ current_chunk' = current_chunk /\ wdata' = wdata
        /\ pc' = pc /\ node' = node /\ chunk' = chunk /\ written' = written
        /\ arrived' = arrived /\ crossed' = crossed
    BY <1>2 DEF vars, barrier
  <2>2. /\ shape' = shape /\ quantised' = quantised /\ numa' = numa
        /\ \A k : ChunkCount(k)' = ChunkCount(k) /\ Chunks(k)' = Chunks(k)
        /\ \A k, c : Cells(k, c)' = Cells(k, c)
        /\ \A k : AllCells(k)' = AllCells(k)
    BY <2>1, InputsKept
  <2>3. Control'
    BY <1>2, <2>1, <2>2 DEF IInv, Control, TypeOK, AlsoTyped, Where, Met
  <2>4. OwnShare' /\ Numbers' /\ Fresh'
    BY <1>2, <2>1, <2>2 DEF IInv, OwnShare, Numbers, CounterSet, Fresh, NotBegun
  <2>5. Exact'
    BY <1>2, <2>1, <2>2 DEF IInv, Exact, CounterSet, ChunkRight, Undone
  <2>6. ResultComplete'
    BY <1>2, <2>1, <2>2 DEF IInv, ResultComplete
  <2> QED  BY <2>3, <2>4, <2>5, <2>6 DEF IInv
<1> QED  BY <1>1, <1>2 DEF Next, Finished

LEMMA Invariance == Spec => []IInv
<1>1. Init => IInv
  BY InitIInv
<1>2. IInv /\ [Next]_vars => IInv'
  BY NextIInv
<1> QED  BY <1>1, <1>2, PTL DEF Spec

\* Every step of the threads leaves the variables typed, and writes inside the
\* result only.
THEOREM TypeCorrect == Spec => []TypeOK
<1>1. IInv => TypeOK
  BY DEF IInv, Control
<1> QED  BY <1>1, Invariance, PTL

\* ggml_compute_forward_mul_mat gives no chunk of a result away twice.
THEOREM NoOverlapHolds == Spec => []NoOverlap
<1>1. IInv => NoOverlap
  <2> SUFFICES ASSUME IInv, NEW t \in Threads, pc[t] = "chunk", chunk[t] < ChunkCount(node[t])
               PROVE  Cells(node[t], chunk[t]) \cap written[node[t]] = {}
    BY DEF NoOverlap
  <2>1. node[t] \in Nodes /\ node[0] = node[t] /\ CounterSet
    BY Together, ThreadFacts DEF IInv, Working, CounterSet
  <2>2. chunk[t] \in Chunks(node[t])
    <3>1. ChunkCount(node[t]) \in Nat /\ chunk[t] \in Nat
      BY <2>1, ChunkNumbers DEF IInv, Control, TypeOK
    <3> QED  BY <3>1 DEF Chunks
  <2>3. Undone(node[t], chunk[t])
    BY DEF Undone
  <2> QED  BY <2>1, <2>2, <2>3 DEF IInv, Exact, ChunkRight
<1> QED  BY <1>1, Invariance, PTL

\* Threads that multiply find in wdata the converted src1 of their own node.
THEOREM WdataIsMineHolds == Spec => []WdataIsMine
<1>1. IInv => WdataIsMine
  <2> SUFFICES ASSUME IInv, NEW t \in Threads, pc[t] \in {"chunk", "fetch"},
                      quantised[node[t]], NEW b \in Blocks
               PROVE  wdata[b] = node[t]
    BY DEF WdataIsMine
  <2>1. PICK u \in Threads : b \in Share(u)
    BY ShareFacts
  <2>2. node[u] = node[t] /\ pc[u] \notin {"convert", "done"}
    BY Together DEF IInv, Working
  <2> QED  BY <2>1, <2>2 DEF IInv, OwnShare
<1> QED  BY <1>1, Invariance, PTL

\* A thread that has left a node finds its result complete.
THEOREM ResultCompleteHolds == Spec => []ResultComplete
<1>1. IInv => ResultComplete
  BY DEF IInv
<1> QED  BY <1>1, Invariance, PTL

=============================================================================
