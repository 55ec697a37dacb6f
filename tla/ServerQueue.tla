----------------------------- MODULE ServerQueue -----------------------------
(***************************************************************************)
(* server_queue and server_response of llama.cpp's server.cpp: the tasks   *)
(* that HTTP threads hand to the main loop, and the results it hands back. *)
(* Every operation here runs under the mutex of the queue it works on, and *)
(* is one step.  All that changes what the main loop waits for notifies    *)
(* it, under that mutex, so that waiting is just a guard.                  *)
(***************************************************************************)
EXTENDS Integers, FiniteSets, SequencesExt

CONSTANT NoTask   \* the -1 of an id that is not set

VARIABLES queue_tasks, queue_tasks_deferred,   \* server_queue
          waiting_task_ids, queue_results      \* server_response

tasks_vars == <<queue_tasks, queue_tasks_deferred>>
results_vars == <<waiting_task_ids, queue_results>>

QueueInit == /\ queue_tasks = <<>> /\ queue_tasks_deferred = <<>>
             /\ waiting_task_ids = {} /\ queue_results = <<>>

-----------------------------------------------------------------------------
(* server_queue *)

\* id_target is that of a cancellation, again tells (for the properties) that
\* the task comes from the deferred ones.
Entry(type, id, target) == [type |-> type, id |-> id, id_target |-> target, again |-> FALSE]

\* q without its elements in gone, in their order.
Without(q, gone) ==
    LET kept[i \in 0 .. Len(q)] == IF i = 0 THEN <<>>
                                   ELSE IF q[i] \in gone THEN kept[i - 1]
                                   ELSE Append(kept[i - 1], q[i])
    IN  kept[Len(q)]

\* cleanup_pending_task; it compares id_target, so that what it removes are
\* earlier cancellations of the same tasks.
WithoutTargets(q, targets) == Without(q, {e \in ToSet(q) : e.id_target \in targets})

Post(tasks, front) ==
    LET targets == {tasks[i].id_target : i \in DOMAIN tasks} \ {NoTask}
        kept    == WithoutTargets(queue_tasks, targets)
    IN  /\ queue_tasks' = IF front THEN Reverse(tasks) \o kept ELSE kept \o tasks
        /\ queue_tasks_deferred' = WithoutTargets(queue_tasks_deferred, targets)

\* Mutant: the task is not kept.
DeferDropped(task) == UNCHANGED tasks_vars

Defer(task) == /\ queue_tasks_deferred' = Append(queue_tasks_deferred, task)
               /\ UNCHANGED queue_tasks

\* Mutant: a deferred task stays where it is.
PopNothing == UNCHANGED tasks_vars

\* pop_deferred_task: one deferred task, the oldest, becomes a new one.
PopDeferred ==
    IF queue_tasks_deferred = <<>>
    THEN UNCHANGED tasks_vars
    ELSE /\ queue_tasks' = Append(queue_tasks,
                                  [Head(queue_tasks_deferred) EXCEPT !.again = TRUE])
         /\ queue_tasks_deferred' = Tail(queue_tasks_deferred)

-----------------------------------------------------------------------------
(* server_response *)

AddWaiting(ids) == /\ waiting_task_ids' = waiting_task_ids \cup ids
                   /\ UNCHANGED queue_results

\* Mutant: results that have arrived stay.
RemoveWaitingKeep(ids) == /\ waiting_task_ids' = waiting_task_ids \ ids
                          /\ UNCHANGED queue_results

\* remove_waiting_task_id, for each of ids.
RemoveWaiting(ids) ==
    /\ waiting_task_ids' = waiting_task_ids \ ids
    /\ queue_results' = Without(queue_results, {r \in ToSet(queue_results) : r.id \in ids})

\* remove_waiting_task_ids leaves the results alone.
RemoveWaitingIds(ids) == /\ waiting_task_ids' = waiting_task_ids \ ids
                         /\ UNCHANGED queue_results

\* What a result is: n numbers the partial results of a task; the last one
\* carries their number.
Result(id, kind, n) == [id |-> id, kind |-> kind, n |-> n]
Partial(id, n) == Result(id, "partial", n)
Final(id, n) == Result(id, "final", n)
Error(id, n) == Result(id, "error", n)

\* send: nobody waits, nobody gets.
Send(result) ==
    /\ queue_results' = IF result.id \in waiting_task_ids
                        THEN Append(queue_results, result) ELSE queue_results
    /\ UNCHANGED waiting_task_ids

\* The places of the results that recv(ids) may take.
ResultsFor(ids) == {i \in DOMAIN queue_results : queue_results[i].id \in ids}

\* Mutant: the newest result is taken.
RecvNewest(ids) == CHOOSE i \in ResultsFor(ids) : \A j \in ResultsFor(ids) : j <= i

\* recv and recv_with_timeout search from the front.
Recv(ids) == CHOOSE i \in ResultsFor(ids) : \A j \in ResultsFor(ids) : i <= j

=============================================================================
