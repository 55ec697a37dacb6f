------------------------------ MODULE DistComm ------------------------------
(***************************************************************************)
(* The message engine of ggml-distributed-communication.c, with the        *)
(* program that uses it.  A message is a heap block, and malloc may give a *)
(* freed block out again; what matters is who may free it.  The only hint  *)
(* of who owns a sent message is the result of dist_comm_send_message, so  *)
(* the program of this model lets go of a message for which it got true.   *)
(* Nothing in the repository makes a connection or fills the incoming      *)
(* queue (dist_comm_connect_agent is declared only): an environment does.  *)
(* Payloads, sockets, the registry and statistics are left out.            *)
(***************************************************************************)
EXTENDS Naturals, FiniteSets, SequencesExt

CONSTANTS Blocks,    \* heap blocks for messages
          Agents,    \* ids of remote agents
          MaxQueue,  \* max_queue_size, 1000 in C
          MaxConns,  \* bound: connections the environment makes
          Anywhere   \* may it send a tensor to an agent it is not connected to?

ASSUME DistCommAssumption == /\ MaxQueue \in Nat /\ MaxConns \in Nat
                             /\ Agents \subseteq Nat \ {0} /\ Anywhere \in BOOLEAN

VARIABLES engine,       \* "idle", "running", "stopped" or "freed"
          connections,  \* sequence of [remote, active]
          outgoing, incoming,  \* the queues of message pointers
          heap,         \* blocks that are allocated
          receiver,     \* receiver[m]: header.receiver_id of block m; 0 is all
          held,         \* messages the program has a pointer to
          direct        \* history: has Send put a message on a connection?

queues == <<outgoing, incoming>>
vars == <<engine, connections, queues, heap, receiver, held, direct>>

Init == /\ engine = "idle"
        /\ connections = <<>> /\ outgoing = <<>> /\ incoming = <<>>
        /\ heap = {} /\ held = {} /\ direct = FALSE
        /\ receiver = [m \in Blocks |-> 0]

Connected(r) == \E i \in DOMAIN connections :
    connections[i].active /\ connections[i].remote = r

Queued == ToSet(outgoing) \cup ToSet(incoming)

-----------------------------------------------------------------------------

\* dist_comm_start, when the sockets can be had; otherwise nothing changes.
Start == /\ engine \in {"idle", "stopped"}
         /\ engine' = "running"
         /\ UNCHANGED <<connections, queues, heap, receiver, held, direct>>

CloseAll == connections' = [i \in DOMAIN connections |->
                               [connections[i] EXCEPT !.active = FALSE]]

\* Mutant: the queue is forgotten with the connections.
StopDropsQueue ==
    /\ engine = "running"
    /\ engine' = "stopped"
    /\ CloseAll
    /\ outgoing' = <<>>
    /\ UNCHANGED <<incoming, heap, receiver, held, direct>>

\* dist_comm_stop closes the connections and keeps the queues.
Stop == /\ engine = "running"
        /\ engine' = "stopped"
        /\ CloseAll
        /\ UNCHANGED <<queues, heap, receiver, held, direct>>

\* dist_comm_create_message.
Create(m, r) == /\ m \notin heap
                /\ heap' = heap \cup {m}
                /\ held' = held \cup {m}
                /\ receiver' = [receiver EXCEPT ![m] = r]
                /\ UNCHANGED <<engine, connections, queues, direct>>

\* dist_comm_free_message, by the program.
FreeMessage(m) == /\ m \in held
                  /\ heap' = heap \ {m}
                  /\ held' = held \ {m}
                  /\ UNCHANGED <<engine, connections, queues, receiver, direct>>

\* Mutant: the queue takes one message too many.
EnqueuesOneTooMany(r) ==
    engine = "running" /\ ~ Connected(r) /\ Len(outgoing) <= MaxQueue

Enqueues(r) == engine = "running" /\ ~ Connected(r) /\ Len(outgoing) < MaxQueue

\* dist_comm_send_message(m) to r: by a connection, into the queue, or not at
\* all; the result tells only the last case from the others.
Transmit(m, r) ==
    \/ engine = "running" /\ Connected(r) /\ UNCHANGED outgoing
    \/ Enqueues(r) /\ outgoing' = Append(outgoing, m)

Refused(r) == ~ Enqueues(r) /\ ~ (engine = "running" /\ Connected(r))

\* The program sends a message it has, and lets go of it if that succeeds.
Send(m) == /\ engine # "freed" /\ m \in held
           /\ Transmit(m, receiver[m])
           /\ held' = held \ {m}
           /\ direct' = (direct \/ Connected(receiver[m]))
           /\ UNCHANGED <<engine, connections, incoming, heap, receiver>>

\* dist_comm_send_cognitive_tensor creates a message, sends it and frees it
\* whatever became of it.
SendTensor(m, r) ==
    /\ engine # "freed" /\ m \notin heap
    /\ Anywhere \/ ~ Enqueues(r)
    /\ receiver' = [receiver EXCEPT ![m] = r]
    /\ \/ Transmit(m, r)
       \/ Refused(r) /\ UNCHANGED outgoing
    /\ UNCHANGED <<engine, connections, incoming, heap, held, direct>>

\* Mutant: the copies that a broadcast makes are queued if they cannot go out.
BroadcastQueued(m) ==
    /\ engine = "running" /\ m \in held
    /\ receiver' = [receiver EXCEPT ![m] = 0]
    /\ outgoing' = IF Len(outgoing) < MaxQueue THEN Append(outgoing, m) ELSE outgoing
    /\ UNCHANGED <<engine, connections, incoming, heap, held, direct>>

\* dist_comm_broadcast_message: each active connection gets a copy, which is
\* freed again after it was sent; the message itself is only addressed to all.
Broadcast(m) == /\ engine = "running" /\ m \in held
                /\ receiver' = [receiver EXCEPT ![m] = 0]
                /\ UNCHANGED <<engine, connections, queues, heap, held, direct>>

\* Mutant: the oldest message is shown and stays in the queue.
ReceivePeeks == /\ engine = "running" /\ incoming # <<>>
                /\ held' = held \cup {Head(incoming)}
                /\ UNCHANGED <<engine, connections, queues, heap, receiver, direct>>

\* dist_comm_receive_message hands the oldest message to the program.
Receive == /\ engine = "running" /\ incoming # <<>>
           /\ incoming' = Tail(incoming)
           /\ held' = held \cup {Head(incoming)}
           /\ UNCHANGED <<engine, connections, outgoing, heap, receiver, direct>>

\* dist_comm_free stops a running engine and frees what is queued.
FreeEngine == /\ engine # "freed"
              /\ engine' = "freed"
              /\ heap' = heap \ Queued
              /\ connections' = <<>> /\ outgoing' = <<>> /\ incoming' = <<>>
              /\ UNCHANGED <<receiver, held, direct>>

\* The environment: a peer connects (and has an open socket), or sends a message.
Connect(r) == /\ engine = "running" /\ Len(connections) < MaxConns
              /\ connections' = Append(connections, [remote |-> r, active |-> TRUE])
              /\ UNCHANGED <<engine, queues, heap, receiver, held, direct>>

Deliver(m) == /\ engine = "running" /\ Len(incoming) < MaxQueue /\ m \notin heap
              /\ heap' = heap \cup {m}
              /\ incoming' = Append(incoming, m)
              /\ UNCHANGED <<engine, connections, outgoing, receiver, held, direct>>

Next == \/ Start \/ Stop \/ Receive \/ FreeEngine
        \/ \E m \in Blocks : FreeMessage(m) \/ Send(m) \/ Broadcast(m) \/ Deliver(m)
        \/ \E r \in Agents : Connect(r)
        \/ \E m \in Blocks, r \in Agents : Create(m, r) \/ SendTensor(m, r)

Spec == Init /\ [][Next]_vars

-----------------------------------------------------------------------------

TypeOK == /\ engine \in {"idle", "running", "stopped", "freed"}
          /\ connections \in Seq([remote : Agents, active : BOOLEAN])
          /\ Len(connections) <= MaxConns
          /\ outgoing \in Seq(Blocks) /\ Len(outgoing) <= MaxQueue
          /\ incoming \in Seq(Blocks) /\ Len(incoming) <= MaxQueue
          /\ heap \subseteq Blocks /\ held \subseteq Blocks
          /\ receiver \in [Blocks -> Agents \cup {0}]
          /\ direct \in BOOLEAN

\* dist_comm_free frees "message queues" to the last message, so a queued
\* message must be allocated, be queued once, and have no other owner.
QueueOwns == /\ Queued \subseteq heap
             /\ Cardinality(Queued) = Len(outgoing) + Len(incoming)
             /\ Queued \cap held = {}

\* The program's pointers stay good whatever the engine does.
HeldAlive == held \subseteq heap

\* As long as Send only queues (a message that it put on a connection belongs
\* to nobody), every block is in a queue or in the program's hands, and freeing
\* the engine leaves only the latter.
NothingLost == ~ direct => heap = held \cup Queued

=============================================================================
