------------------------------- MODULE MulMat -------------------------------
(***************************************************************************)
(* How the threads of a graph share consecutive matrix multiplications:    *)
(* ggml_compute_forward_mul_mat of ggml-cpu.c, with the barrier that       *)
(* ggml_graph_compute_thread puts after every node.  The barriers are the  *)
(* abstract rendezvous that Barrier.tla shows ggml_barrier to implement.   *)
(* A chunk of the result is a set of <<row, column>> cells; the llamafile  *)
(* kernels are not modelled.                                               *)
(***************************************************************************)
EXTENDS Integers, FiniteSets

CONSTANTS NThreads,   \* nth
          NNodes,     \* matrix multiplications in a row
          Shapes,     \* the <<nr0, nr1>> of their results
          NBlocks,    \* quantisation blocks in a row of src1
          ChunkSize,  \* 16 in C
          ThinChunk,  \* 64 in C: the chunk size of a one-row result
          PerThread   \* 4 in C: chunks a thread should have to choose from

ASSUME MulMatAssumption ==
    /\ NThreads \in Nat \ {0} /\ NNodes \in Nat \ {0}
    /\ Shapes \subseteq (Nat \ {0}) \X (Nat \ {0})
    /\ NBlocks \in Nat \ {0} /\ PerThread \in Nat
    /\ ChunkSize \in Nat \ {0} /\ ThinChunk \in Nat \ {0}

Threads == 0 .. NThreads - 1
Nodes == 1 .. NNodes
Blocks == 0 .. NBlocks - 1

VARIABLES shape,          \* shape[k]: <<nr0, nr1>> of node k
          quantised,      \* quantised[k]: src1 of node k is converted to wdata
          numa,           \* ggml_is_numa()
          current_chunk,  \* of the thread pool: the next chunk to give away
          wdata,          \* wdata[b]: the node whose src1 block b holds, or 0
          pc, node, chunk,  \* per thread: step, node and local current_chunk
          written,        \* written[k]: cells of the result of node k
          arrived, crossed  \* the barriers

inputs == <<shape, quantised, numa>>
barrier == <<arrived, crossed>>
vars == <<inputs, current_chunk, wdata, pc, node, chunk, written, barrier>>

Meeting == INSTANCE Rendezvous WITH MaxRounds <- 2 * NNodes

CeilDiv(a, b) == (a + b - 1) \div b
Least(a, b) == IF a < b THEN a ELSE b

Nr0(k) == shape[k][1]
Nr1(k) == shape[k][2]

\* nchunk0 and nchunk1 of node k: by size, unless that leaves too few chunks.
NChunks(k) ==
    LET size == IF Nr0(k) = 1 \/ Nr1(k) = 1 THEN ThinChunk ELSE ChunkSize
        by_size == <<CeilDiv(Nr0(k), size), CeilDiv(Nr1(k), size)>>
        by_thread == IF Nr0(k) > Nr1(k) THEN <<NThreads, 1>> ELSE <<1, NThreads>>
    IN  IF by_size[1] * by_size[2] < NThreads * PerThread \/ numa
        THEN by_thread ELSE by_size

ChunkCount(k) == NChunks(k)[1] * NChunks(k)[2]

\* Mutant: the part size is rounded down.
PartFloor(nr, n, i) ==
    LET d == nr \div n IN d * i .. Least(d * i + d, nr) - 1

\* Mutant: the last part is not cut off at the end.
PartUnclipped(nr, n, i) ==
    LET d == CeilDiv(nr, n) IN d * i .. d * i + d - 1

\* Rows i .. of part i of n equal parts of 0 .. nr - 1; the last parts are
\* short or empty.
Part(nr, n, i) ==
    LET d == CeilDiv(nr, n) IN d * i .. Least(d * i + d, nr) - 1

Cells(k, c) == LET n == NChunks(k) IN
    Part(Nr0(k), n[1], c % n[1]) \X Part(Nr1(k), n[2], c \div n[1])

AllCells(k) == (0 .. Nr0(k) - 1) \X (0 .. Nr1(k) - 1)

\* ne10_block_start .. ne10_block_end of thread t.
Share(t) == (t * NBlocks) \div NThreads .. ((t + 1) * NBlocks) \div NThreads - 1

Init == /\ shape \in [Nodes -> Shapes]
        /\ quantised \in [Nodes -> BOOLEAN]
        /\ numa \in BOOLEAN
        /\ current_chunk = 0
        /\ wdata = [b \in Blocks |-> 0]
        /\ pc = [t \in Threads |-> "convert"]
        /\ node = [t \in Threads |-> 1]
        /\ chunk = [t \in Threads |-> 0]
        /\ written = [k \in Nodes |-> {}]
        /\ Meeting!Init

Goto(t, l) == pc' = [pc EXCEPT ![t] = l]

Convert(t) ==
    /\ pc[t] = "convert"
    /\ wdata' = IF quantised[node[t]]
                THEN [b \in Blocks |-> IF b \in Share(t) THEN node[t] ELSE wdata[b]]
                ELSE wdata
    /\ Goto(t, IF t = 0 THEN "setchunk" ELSE "ready")
    /\ UNCHANGED <<inputs, current_chunk, node, chunk, written, barrier>>

\* Mutant: the counter is set to the first chunk.
SetChunkZero(t) ==
    /\ pc[t] = "setchunk"
    /\ current_chunk' = 0
    /\ Goto(t, "ready")
    /\ UNCHANGED <<inputs, wdata, node, chunk, written, barrier>>

\* Every thread starts at its own number; thread 0 sets the counter past them.
SetChunk(t) ==
    /\ pc[t] = "setchunk"
    /\ current_chunk' = NThreads
    /\ Goto(t, "ready")
    /\ UNCHANGED <<inputs, wdata, node, chunk, written, barrier>>

Arrive(t) ==
    /\ \/ pc[t] = "ready" /\ Goto(t, "meet")
       \/ pc[t] = "computed" /\ Goto(t, "leave")
    /\ Meeting!Arrive(t)
    /\ UNCHANGED <<inputs, current_chunk, wdata, node, chunk, written>>

StartChunks(t) ==
    /\ pc[t] = "meet"
    /\ Meeting!Cross(t)
    /\ chunk' = [chunk EXCEPT ![t] = t]
    /\ Goto(t, "chunk")
    /\ UNCHANGED <<inputs, current_chunk, wdata, node, written>>

\* One chunk; with no more chunks than threads, each thread does one.
DoChunk(t) ==
    /\ pc[t] = "chunk"
    /\ chunk[t] < ChunkCount(node[t])
    /\ written' = [written EXCEPT ![node[t]] = @ \cup Cells(node[t], chunk[t])]
    /\ Goto(t, IF NThreads >= ChunkCount(node[t]) THEN "computed" ELSE "fetch")
    /\ UNCHANGED <<inputs, current_chunk, wdata, node, chunk, barrier>>

\* The fetch_add.
NextChunk(t) ==
    /\ pc[t] = "fetch"
    /\ chunk' = [chunk EXCEPT ![t] = current_chunk]
    /\ current_chunk' = current_chunk + 1
    /\ Goto(t, "chunk")
    /\ UNCHANGED <<inputs, wdata, node, written, barrier>>

NoMoreChunks(t) ==
    /\ pc[t] = "chunk"
    /\ chunk[t] >= ChunkCount(node[t])
    /\ Goto(t, "computed")
    /\ UNCHANGED <<inputs, current_chunk, wdata, node, chunk, written, barrier>>

\* Mutant: the node loop goes on without the barrier that follows a node.
NextNodeUnmet(t) ==
    /\ pc[t] = "leave"
    /\ crossed' = [crossed EXCEPT ![t] = @ + 1] /\ UNCHANGED arrived
    /\ node' = [node EXCEPT ![t] = @ + 1]
    /\ Goto(t, IF node[t] < NNodes THEN "convert" ELSE "done")
    /\ UNCHANGED <<inputs, current_chunk, wdata, chunk, written>>

\* Past the barrier of ggml_graph_compute_thread.
NextNode(t) ==
    /\ pc[t] = "leave"
    /\ Meeting!Cross(t)
    /\ node' = [node EXCEPT ![t] = @ + 1]
    /\ Goto(t, IF node[t] < NNodes THEN "convert" ELSE "done")
    /\ UNCHANGED <<inputs, current_chunk, wdata, chunk, written>>

Step(t) == \/ Convert(t)   \/ SetChunk(t) \/ Arrive(t)
           \/ StartChunks(t) \/ DoChunk(t) \/ NextChunk(t) \/ NoMoreChunks(t)
           \/ NextNode(t)

Finished == (\A t \in Threads : pc[t] = "done") /\ UNCHANGED vars

Next == (\E t \in Threads : Step(t)) \/ Finished

Spec == Init /\ [][Next]_vars

-----------------------------------------------------------------------------

TypeOK == /\ shape \in [Nodes -> Shapes] /\ quantised \in [Nodes -> BOOLEAN]
          /\ numa \in BOOLEAN /\ current_chunk \in Nat
          /\ wdata \in [Blocks -> 0 .. NNodes]
          /\ pc \in [Threads -> {"convert", "setchunk", "ready", "meet", "chunk",
                                 "fetch", "computed", "leave", "done"}]
          /\ node \in [Threads -> 1 .. NNodes + 1] /\ chunk \in [Threads -> Nat]
          /\ \A k \in Nodes : written[k] \subseteq AllCells(k)

\* current_chunk is one counter for all nodes, reset by thread 0 while others
\* may be anywhere before their barrier: no cell of a result is computed twice.
NoOverlap == \A t \in Threads :
    pc[t] = "chunk" /\ chunk[t] < ChunkCount(node[t]) =>
        Cells(node[t], chunk[t]) \cap written[node[t]] = {}

\* wdata is shared and reused by the next node: a thread that multiplies finds
\* in it every block of its own node's src1, none missing, stale or too new.
WdataIsMine == \A t \in Threads :
    pc[t] \in {"chunk", "fetch"} /\ quantised[node[t]] =>
        \A b \in Blocks : wdata[b] = node[t]

\* Whatever the shape, chunk size and interleaving, a thread that has gone on
\* to the next node finds the result of the node before complete.
ResultComplete == \A t \in Threads, k \in Nodes :
    k < node[t] => written[k] = AllCells(k)

=============================================================================
