-------------------------------- MODULE Server --------------------------------
(***************************************************************************)
(* llama.cpp's HTTP server (server.cpp): HTTP threads, one per request,    *)
(* turn a request into tasks and wait for their results; the main loop     *)
(* gives the tasks to slots and advances all slots together, one batch per *)
(* round.  A step of the main loop that releases a slot and sends a result *)
(* does so under two mutexes in turn; no thread can tell the two steps     *)
(* from one, as whoever acts in between works on one of the queues only.   *)
(***************************************************************************)
EXTENDS ServerQueue

CONSTANTS Clients,        \* HTTP threads, each with one request
          NSlots,         \* n_parallel
          Loads,          \* what the clients may ask for: functions from Clients
          Adapters,       \* lists of LoRA adapters with their scales
          PromptLens,     \* tokens of a prompt that are not in the cache
          NBatch,         \* n_batch
          ContBatching,   \* cont_batching
          MaxTokens,      \* bound: n_predict
          MaxFailures,    \* bound: decodes that fail for good
          MaxRefusals     \* bound: prompts and grammars that are refused

Slots == 1 .. NSlots
AnySlot == 0   \* the -1 of id_selected_slot

\* A stream and a whole are completions, or infills, with and without "stream";
\* an action saves, restores or erases a slot.
Kinds == {"stream", "whole", "embedding", "rerank", "action", "metrics", "lora"}
Slotless == {"metrics", "lora"}

\* The adapters of a task are those its request asks for, or those of params_base
\* when the handler makes the task: an input for each task, as a lora task may
\* have changed params_base in between.
ASSUME ServerAssumption ==
    /\ NoTask \notin Clients \X Nat
    /\ NSlots \in Nat \ {0} /\ NBatch \in Nat \ {0} /\ MaxTokens \in Nat \ {0}
    /\ MaxFailures \in Nat /\ MaxRefusals \in Nat /\ ContBatching \in BOOLEAN
    /\ PromptLens \subseteq Nat \ {0}
    /\ \A load \in Loads : \A c \in Clients :
          /\ load[c] \in [kind : Kinds, n : Nat \ {0}, slot : Nat,
                          infill : BOOLEAN, lora : Seq(Adapters)]
          /\ Len(load[c].lora) = load[c].n
          /\ load[c].infill => load[c].kind \in {"stream", "whole"}
          /\ load[c].kind \in {"action"} \cup Slotless => load[c].n = 1
          /\ load[c].kind = "action" => load[c].slot # AnySlot
          /\ load[c].slot # AnySlot => load[c].kind \in {"stream", "whole", "action"}

VARIABLES slots,      \* slots[s].id_task outlives the work for the task
          main,       \* where the main loop is
          hand,       \* the task it took
          turn,       \* the slot whose turn it is in a loop over the slots
          batched,    \* slot_batched, 0 if none
          batch,      \* the slots with tokens in the batch
          n_tokens,   \* their number
          request, stage, n_finished,   \* of each client
          closed,     \* is_connection_closed
          heard,      \* history: partial results a client took, by task
          answered,   \* history: tasks whose last result a client took
          failures,   \* history: decodes that failed for good
          refusals,   \* history: tasks that were refused
          misfired    \* history: a deferred task was moved and took no slot?

main_vars == <<slots, main, hand, turn, batched, batch, n_tokens>>
client_vars == <<request, stage, n_finished, closed>>
history == <<heard, answered, failures, refusals, misfired>>
vars == <<tasks_vars, results_vars, main_vars, client_vars, history>>

FreeSlot == [state |-> "idle", id_task |-> NoTask, left |-> 0, n_decoded |-> 0, n_sent |-> 0]

Init == /\ QueueInit
        /\ slots = [s \in Slots |-> FreeSlot]
        /\ main = "tasks" /\ hand = NoTask /\ turn = 0
        /\ batched = 0 /\ batch = {} /\ n_tokens = 0
        /\ request \in Loads
        /\ stage = [c \in Clients |-> "new"]
        /\ n_finished = [c \in Clients |-> 0]
        /\ closed = [c \in Clients |-> FALSE]
        /\ heard = [c \in Clients |-> [i \in 1 .. request[c].n |-> 0]] /\ answered = {}
        /\ failures = 0 /\ refusals = 0 /\ misfired = FALSE

\* The tasks of a client, and the request a task belongs to.
TaskIds(c) == {<<c, i>> : i \in 1 .. request[c].n}
RequestOf(t) == request[t[1]]

-----------------------------------------------------------------------------
(* HTTP threads *)

\* The kinds that wait with recv, without looking at the connection.
Blocking(c) == request[c].kind \in {"action"} \cup Slotless

\* The handlers draw ids, and add them to waiting_task_ids ...
Announce(c) ==
    /\ stage[c] = "new"
    /\ AddWaiting(TaskIds(c))
    /\ stage' = [stage EXCEPT ![c] = "added"]
    /\ UNCHANGED <<tasks_vars, main_vars, request, n_finished, closed, history>>

\* ... and then post the tasks; a question for metrics to the front.
PostRequest(c) ==
    /\ stage[c] = "added"
    /\ Post([i \in 1 .. request[c].n |-> Entry(request[c].kind, <<c, i>>, NoTask)],
            request[c].kind = "metrics")
    /\ stage' = [stage EXCEPT ![c] = IF request[c].kind = "stream" THEN "open" ELSE "recv"]
    /\ UNCHANGED <<results_vars, main_vars, request, n_finished, closed, history>>

\* A stream is received by the content provider, which the HTTP library calls
\* if the connection is still there.  Otherwise there is only on_complete.
OpenStream(c) ==
    /\ stage[c] = "open"
    /\ stage' = [stage EXCEPT ![c] = IF closed[c] THEN "drop" ELSE "recv"]
    /\ UNCHANGED <<tasks_vars, results_vars, main_vars, request, n_finished, closed, history>>

\* The other side of the connection goes away; only the threads that look at
\* the connection learn of it.
CloseConnection(c) ==
    /\ stage[c] \in {"open", "recv"} /\ ~ Blocking(c) /\ ~ closed[c]
    /\ closed' = [closed EXCEPT ![c] = TRUE]
    /\ UNCHANGED <<tasks_vars, results_vars, main_vars, request, stage, n_finished, history>>

\* What receive_multi_results, receive_cmpl_results_stream and the callers of
\* recv do with a result.
After(c, result) ==
    IF Blocking(c) THEN "remove"
    ELSE IF closed[c] \/ result.kind = "error" THEN "cancel"
    ELSE IF result.kind = "final" /\ n_finished[c] + 1 = request[c].n
         THEN IF request[c].kind = "rerank" THEN "done" ELSE "remove"
    ELSE "recv"

TakeResult(c) ==
    /\ stage[c] = "recv" /\ ResultsFor(TaskIds(c)) # {}
    /\ LET i == Recv(TaskIds(c))
           result == queue_results[i]
       IN  /\ queue_results' = RemoveAt(queue_results, i)
           /\ stage' = [stage EXCEPT ![c] = After(c, result)]
           /\ n_finished' = [n_finished EXCEPT ![c] =
                               IF result.kind = "final" THEN @ + 1 ELSE @]
           /\ heard' = [heard EXCEPT ![c][result.id[2]] =
                          IF result.kind = "partial" THEN @ + 1 ELSE @]
           /\ answered' = IF result.kind = "partial" THEN answered
                          ELSE answered \cup {result.id}
    /\ UNCHANGED <<tasks_vars, waiting_task_ids, main_vars, request, closed,
                   failures, refusals, misfired>>

\* recv_with_timeout gives up after a second, whether or not a result came in
\* the meantime; unless the connection is closed the handler tries again.
Timeout(c) ==
    /\ stage[c] = "recv" /\ ~ Blocking(c) /\ closed[c]
    /\ stage' = [stage EXCEPT ![c] = "cancel"]
    /\ UNCHANGED <<tasks_vars, results_vars, main_vars, request, n_finished, closed, history>>

\* cancel_tasks forgets the results first and posts the cancellations then.
\* (The call of remove_waiting_task_ids that follows finds nothing left.)
CancelTasks(c) ==
    /\ stage[c] = "cancel"
    /\ RemoveWaiting(TaskIds(c))
    /\ stage' = [stage EXCEPT ![c] = "forgotten"]
    /\ UNCHANGED <<tasks_vars, main_vars, request, n_finished, closed, history>>

PostCancel(c) ==
    /\ stage[c] = "forgotten"
    /\ Post([i \in 1 .. request[c].n |-> Entry("cancel", NoTask, <<c, i>>)], TRUE)
    /\ stage' = [stage EXCEPT ![c] = "done"]
    /\ UNCHANGED <<results_vars, main_vars, request, n_finished, closed, history>>

\* The end of the handler; on_complete of a stream.
Finish(c) ==
    /\ stage[c] \in {"remove", "drop"}
    /\ IF Blocking(c) THEN RemoveWaiting(TaskIds(c)) ELSE RemoveWaitingIds(TaskIds(c))
    /\ stage' = [stage EXCEPT ![c] = IF stage[c] = "drop" THEN "dropped" ELSE "done"]
    /\ UNCHANGED <<tasks_vars, main_vars, request, n_finished, closed, history>>

\* What a thread does by itself once it has a request.
ClientStep(c) == \/ PostRequest(c) \/ OpenStream(c) \/ TakeResult(c) \/ Timeout(c)
                 \/ CancelTasks(c) \/ PostCancel(c) \/ Finish(c)

-----------------------------------------------------------------------------
(* The slots *)

Processing(s) == slots[s].state # "idle"
Idle == {s \in Slots : ~ Processing(s)}

\* Completions and infills generate tokens, and their prompts may be split.
Generates(t) == RequestOf(t).kind \in {"stream", "whole"}

\* A slot has the task_type and the adapters of its last task.  All slots of a
\* batch are computed with those of slot_batched.
TypeOf(s) == LET r == RequestOf(slots[s].id_task) IN
             IF r.kind \notin {"stream", "whole"} THEN r.kind
             ELSE IF r.infill THEN "infill" ELSE "completion"
LoraOf(s) == LET t == slots[s].id_task IN RequestOf(t).lora[t[2]]
CanBatchWith(s, other) == TypeOf(s) = TypeOf(other) /\ LoraOf(s) = LoraOf(other)

\* server_slot::release, of a slot that is processing: callback_on_release
\* moves a deferred task.  The counters mean nothing until the next launch.
Released(s) == [FreeSlot EXCEPT !.id_task = slots[s].id_task]
Release(s) == slots' = [slots EXCEPT ![s] = Released(s)] /\ PopDeferred

-----------------------------------------------------------------------------
(* The main loop: start_loop and process_single_task *)

\* The inner loop takes the first task, or finds none and updates the slots.
TakeTask ==
    /\ main = "tasks" /\ queue_tasks # <<>>
    /\ hand' = Head(queue_tasks)
    /\ queue_tasks' = Tail(queue_tasks)
    /\ main' = "process"
    /\ UNCHANGED <<queue_tasks_deferred, results_vars, slots, turn, batched, batch, n_tokens,
                   client_vars, history>>

\* How process_single_task ends for the task in hand.
Processed == /\ main' = "tasks" /\ hand' = NoTask
             /\ UNCHANGED <<turn, batched, batch, n_tokens, client_vars,
                            heard, answered, failures>>

\* Of the idle slots, get_available_slot takes the one whose cache resembles
\* the prompt most, or the one used least recently.  A slot that the request
\* names need not exist.
SlotsFor(t) == IF RequestOf(t).slot = AnySlot THEN Idle
               ELSE Idle \cap {RequestOf(t).slot}

\* No slot: the task is deferred.
DeferTask ==
    /\ main = "process" /\ hand.type \in Kinds \ Slotless
    /\ SlotsFor(hand.id) = {}
    /\ hand.type = "action" => RequestOf(hand.id).slot \in Slots
    /\ Defer([hand EXCEPT !.again = FALSE])
    /\ misfired' = (misfired \/ (hand.again /\ RequestOf(hand.id).slot # AnySlot))
    /\ Processed
    /\ UNCHANGED <<results_vars, slots, refusals>>

\* launch_slot_with_task may refuse the prompt or the grammar; the slot stays
\* idle, under the id of the task.
LaunchSlot ==
    /\ main = "process" /\ hand.type \in {"stream", "whole", "embedding", "rerank"}
    /\ \E s \in SlotsFor(hand.id) :
          \/ /\ slots' = [slots EXCEPT ![s] = [FreeSlot EXCEPT !.state = "started",
                                                               !.id_task = hand.id]]
             /\ UNCHANGED <<results_vars, refusals, misfired>>
          \/ /\ refusals < MaxRefusals /\ refusals' = refusals + 1
             /\ slots' = [slots EXCEPT ![s] = [FreeSlot EXCEPT !.id_task = hand.id]]
             /\ Send(Error(hand.id, 0))
             /\ misfired' = (misfired \/ hand.again)
    /\ Processed
    /\ UNCHANGED tasks_vars

\* A slot action on an idle slot, or on a slot that does not exist; a task that
\* needs no slot.
AnswerTask ==
    /\ main = "process" /\ hand.type \in {"action"} \cup Slotless
    /\ hand.type = "action" =>
          \/ SlotsFor(hand.id) # {}
          \/ RequestOf(hand.id).slot \notin Slots
    /\ Send(Final(hand.id, 0))
    /\ misfired' = (misfired \/ hand.again)
    /\ Processed
    /\ UNCHANGED <<tasks_vars, slots, refusals>>

\* The slot with the id of the task, if there is one, is released: if it still
\* works for the task.
CancelSlot ==
    /\ main = "process" /\ hand.type = "cancel"
    /\ LET working == {s \in Slots \ Idle : slots[s].id_task = hand.id_target} IN
       IF working = {} THEN UNCHANGED <<slots, tasks_vars>>
       ELSE \E s \in working : Release(s)
    /\ Processed
    /\ UNCHANGED <<results_vars, refusals, misfired>>

\* NEXT_RESPONSE only keeps the loop going.
NextResponse ==
    /\ main = "process" /\ hand.type = "next"
    /\ Processed
    /\ UNCHANGED <<tasks_vars, results_vars, slots, refusals, misfired>>

ProcessTask == DeferTask \/ LaunchSlot \/ AnswerTask \/ CancelSlot \/ NextResponse

\* Back at the end of the loop, with a task to do.
Wake == /\ main = "wait" /\ queue_tasks # <<>>
        /\ main' = "tasks"
        /\ UNCHANGED <<tasks_vars, results_vars, slots, hand, turn, batched, batch, n_tokens,
                       client_vars, history>>

-----------------------------------------------------------------------------
(* update_slots *)

Least(S) == CHOOSE s \in S : \A other \in S : s <= other

\* Mutant: the loop waits for the next request.
PostNothing == UNCHANGED tasks_vars

\* NEXT_RESPONSE keeps the loop going.
PostNextResponse == Post(<<Entry("next", NoTask, NoTask)>>, FALSE)

\* With all slots idle there is nothing to do.  Otherwise NEXT_RESPONSE is
\* posted, and the tokens sampled last make a first batch: those of the first
\* slot that generates and of the slots that can be batched with it.
UpdateSlots ==
    /\ main = "tasks" /\ queue_tasks = <<>>
    /\ LET generating == {s \in Slots : slots[s].state = "generating"}
           first == Least(generating)
       IN  IF Idle = Slots
           THEN /\ main' = "wait"
                /\ UNCHANGED <<tasks_vars, turn, batched, batch, n_tokens>>
           ELSE /\ PostNextResponse
                /\ batch' = {s \in generating : CanBatchWith(s, first)}
                /\ n_tokens' = Cardinality(batch')
                /\ IF ContBatching \/ batch' = {}
                   THEN /\ main' = "prompts" /\ turn' = 1
                        /\ batched' = IF generating = {} THEN 0 ELSE first
                   ELSE main' = "decode" /\ UNCHANGED <<turn, batched>>
    /\ UNCHANGED <<results_vars, slots, hand, client_vars, history>>

\* The loop over prompts goes to the next slot, or ends; without any tokens
\* there is nothing to decode.
Onwards(full) ==
    IF turn < NSlots /\ ~ full
    THEN /\ main' = "prompts" /\ turn' = turn + 1
         /\ batched' = IF batched = 0 /\ Processing(turn) THEN turn ELSE batched
    ELSE /\ main' = IF batch' = {} THEN "wait" ELSE "decode"
         /\ turn' = 0 /\ batched' = 0

PromptStep == main = "prompts"
    /\ UNCHANGED <<hand, client_vars, heard, answered, failures, misfired>>

\* Mutant: only the types are compared.
MismatchOfTypes(s) == Processing(s) /\ batched # 0 /\ TypeOf(batched) # TypeOf(s)

\* A slot that has no prompt to process, or one that cannot be batched.
Mismatch(s) == Processing(s) /\ batched # 0 /\ ~ CanBatchWith(batched, s)

SkipPrompt ==
    /\ PromptStep
    /\ slots[turn].state \notin {"started", "prompt"} \/ Mismatch(turn)
    /\ UNCHANGED <<tasks_vars, results_vars, slots, batch, n_tokens, refusals>>
    /\ Onwards(n_tokens >= NBatch /\ ~ Mismatch(turn))

\* A completion with an empty prompt ends with an empty answer; a prompt that
\* is too long for the batch or the context ends with an error.
RefusePrompt ==
    /\ PromptStep
    /\ slots[turn].state = "started" /\ ~ Mismatch(turn)
    /\ refusals < MaxRefusals /\ refusals' = refusals + 1
    /\ Release(turn)
    /\ \/ Generates(slots[turn].id_task) /\ Send(Final(slots[turn].id_task, 0))
       \/ Send(Error(slots[turn].id_task, 0))
    /\ UNCHANGED <<batch, n_tokens>>
    /\ Onwards(FALSE)

\* Mutant: the tokens already in the batch are not counted.
RoomForAll == NBatch

\* What may still go into the batch.
Room == IF n_tokens < NBatch THEN NBatch - n_tokens ELSE 0

\* The prompt, or what fits of it, goes into the batch; that of an embedding
\* only as a whole.
BatchPrompt ==
    /\ PromptStep
    /\ slots[turn].state \in {"started", "prompt"} /\ ~ Mismatch(turn)
    /\ \E len \in IF slots[turn].state = "started" THEN PromptLens ELSE {slots[turn].left} :
          LET split == Generates(slots[turn].id_task)
              taken == IF len <= Room THEN len ELSE IF split THEN Room ELSE 0
          IN  /\ split \/ len <= NBatch
              /\ slots' = [slots EXCEPT ![turn].left = len - taken,
                                        ![turn].state = IF taken = len THEN "done" ELSE "prompt"]
              /\ batch' = IF taken = 0 THEN batch ELSE batch \cup {turn}
              /\ n_tokens' = n_tokens + taken
              /\ Onwards(n_tokens + taken >= NBatch /\ (split \/ taken = len))
    /\ UNCHANGED <<tasks_vars, results_vars, refusals>>

\* llama_decode computes the batch, at once or in pieces; the slots are then
\* dealt with in either order.
DecodeStep == main = "decode" /\ UNCHANGED <<hand, turn, batched, client_vars, history>>
Stopping == {s \in Slots : slots[s].state = "stopping"}
Decoded(s) == /\ batch' = batch \ {s}
              /\ n_tokens' = IF batch' = {} THEN 0 ELSE n_tokens
              /\ main' = IF batch' = {} THEN "wait" ELSE "decode"

\* A prompt that goes on; an embedding, which is now known.
DecodePrompt(s) ==
    /\ DecodeStep /\ Stopping = {}
    /\ \/ slots[s].state = "prompt" /\ UNCHANGED <<tasks_vars, results_vars, slots>>
       \/ /\ slots[s].state = "done" /\ ~ Generates(slots[s].id_task)
          /\ Send(Final(slots[s].id_task, 0))
          /\ Release(s)
    /\ Decoded(s)

\* A token.  process_token sends a stream what the token completes, which may
\* be nothing yet, and then decides whether it was the last one.
DecodeToken(s) ==
    /\ DecodeStep /\ Stopping = {}
    /\ \/ slots[s].state = "generating"
       \/ slots[s].state = "done" /\ Generates(slots[s].id_task)
    /\ LET n == slots[s].n_decoded + 1 IN
       \E sends \in IF RequestOf(slots[s].id_task).kind = "stream" THEN BOOLEAN ELSE {FALSE},
          last \in IF n = MaxTokens THEN {TRUE} ELSE BOOLEAN :
          LET sent == slots[s].n_sent + (IF sends THEN 1 ELSE 0) IN
          /\ IF sends THEN Send(Partial(slots[s].id_task, sent)) ELSE UNCHANGED results_vars
          /\ slots' = [slots EXCEPT ![s].state = IF last THEN "stopping" ELSE "generating",
                                    ![s].n_decoded = n, ![s].n_sent = sent]
          /\ IF last THEN UNCHANGED <<main, batch, n_tokens>> ELSE Decoded(s)
    /\ UNCHANGED tasks_vars

\* After the last token the slot is released and the final result sent.
StopSlot(s) ==
    /\ DecodeStep /\ s \in Stopping
    /\ Send(Final(slots[s].id_task, slots[s].n_sent))
    /\ Release(s)
    /\ Decoded(s)

\* llama_decode fails for good: an error it cannot retry with less.  (A retry
\* changes nothing here.)
DecodeFails ==
    /\ main = "decode" /\ failures < MaxFailures
    /\ Stopping = {}
    /\ failures' = failures + 1
    /\ main' = "fail" /\ turn' = 1
    /\ batch' = {} /\ n_tokens' = 0
    /\ UNCHANGED <<tasks_vars, results_vars, slots, hand, batched, client_vars,
                   heard, answered, refusals, misfired>>

\* Every slot is released, and an error is sent for the task it has the id of:
\* even if it is idle, and the task has been answered.
FailSlot ==
    /\ main = "fail"
    /\ IF Processing(turn) THEN Release(turn) ELSE UNCHANGED <<slots, tasks_vars>>
    /\ IF slots[turn].id_task = NoTask THEN UNCHANGED results_vars
       ELSE Send(Error(slots[turn].id_task, 0))
    /\ IF turn < NSlots THEN turn' = turn + 1 /\ UNCHANGED main
       ELSE turn' = 0 /\ main' = "wait"
    /\ UNCHANGED <<hand, batched, batch, n_tokens, client_vars, history>>

MainStep == \/ TakeTask \/ ProcessTask \/ Wake
            \/ UpdateSlots \/ SkipPrompt \/ RefusePrompt \/ BatchPrompt
            \/ \E s \in batch : DecodePrompt(s) \/ DecodeToken(s) \/ StopSlot(s)
            \/ DecodeFails \/ FailSlot

-----------------------------------------------------------------------------

Next == \/ MainStep
        \/ \E c \in Clients : Announce(c) \/ CloseConnection(c) \/ ClientStep(c)

\* The main loop runs, and so does a thread that serves a request; nobody has
\* to make a request or to go away.
Fairness == WF_vars(MainStep) /\ \A c \in Clients : WF_vars(ClientStep(c))
Spec == Init /\ [][Next]_vars /\ Fairness

-----------------------------------------------------------------------------

SlotStates == {"idle", "started", "prompt", "done", "generating", "stopping"}
Stages == {"new", "added", "open", "recv", "cancel", "forgotten", "remove", "done", "drop", "dropped"}
Ids == (Clients \X Nat) \cup {NoTask}
Entries == [type : Kinds \cup {"cancel", "next"}, id : Ids, id_target : Ids, again : BOOLEAN]

TypeOK ==
    /\ queue_tasks \in Seq(Entries) /\ queue_tasks_deferred \in Seq(Entries)
    /\ waiting_task_ids \subseteq Clients \X Nat
    /\ queue_results \in Seq([id : Clients \X Nat, kind : {"partial", "final", "error"},
                              n : Nat])
    /\ slots \in [Slots -> [state : SlotStates, id_task : Ids, left : Nat,
                            n_decoded : 0 .. MaxTokens, n_sent : 0 .. MaxTokens]]
    /\ main \in {"tasks", "process", "prompts", "decode", "fail", "wait"}
    /\ hand \in Entries \cup {NoTask} /\ turn \in 0 .. NSlots /\ batched \in 0 .. NSlots
    /\ batch \subseteq Slots \ Idle
    /\ n_tokens <= NBatch \/ n_tokens <= NSlots   \* what the batch is allocated for
    /\ request \in Loads
    /\ stage \in [Clients -> Stages]
    /\ n_finished \in [Clients -> Nat] /\ closed \in [Clients -> BOOLEAN]
    /\ heard \in [Clients -> Seq(Nat)] /\ answered \subseteq Clients \X Nat
    /\ failures \in 0 .. MaxFailures /\ refusals \in 0 .. MaxRefusals /\ misfired \in BOOLEAN

\* Who has task t: an entry of a queue, the main loop, a slot.
Entered(t, q) == Cardinality({i \in DOMAIN q : q[i].id = t})
Held(t) == Cardinality({s \in Slots \ Idle : slots[s].id_task = t})
Custodians(t) == Entered(t, queue_tasks) + Entered(t, queue_tasks_deferred) + Held(t)
                   + (IF main = "process" /\ hand.id = t THEN 1 ELSE 0)
LastResultOf(t) == {i \in DOMAIN queue_results :
                      queue_results[i].id = t /\ queue_results[i].kind # "partial"}

\* c has posted its tasks and has not finished with them.
Waits(c) == stage[c] \in {"open", "recv"}

\* As long as a thread waits for a task there is one who has it, or its last
\* result has been sent, and not both: through the queues, the deferred tasks,
\* the slots and the results nothing is lost and nothing is done twice.  The
\* thread counts the tasks that are finished right.
OneCustodian == \A c \in Clients : \A t \in TaskIds(c) :
    /\ Custodians(t) <= 1
    /\ Waits(c) =>
          /\ Custodians(t) = 1 <=> (LastResultOf(t) = {} /\ t \notin answered)
          /\ n_finished[c] = Cardinality({u \in TaskIds(c) : u \in answered})

\* The partial results of t in the queue, and their numbers.
PartialsOf(t) == {i \in DOMAIN queue_results :
                    queue_results[i].id = t /\ queue_results[i].kind = "partial"}
Coming(t) == {queue_results[i].n : i \in PartialsOf(t)}

\* Of m partial results of t the queue has all that were not taken.
AllComing(t, m) == LET taken == heard[t[1]][t[2]]
                   IN  taken <= m /\ Coming(t) = taken + 1 .. m

\* A stream hears all of its tokens, each once and in order, and then the end:
\* what was taken, what is in the queue, and what the slot has sent agree.
StreamContinuous == \A c \in Clients : Waits(c) /\ request[c].kind = "stream" =>
    \A t \in TaskIds(c) :
       /\ \E m \in 0 .. MaxTokens : AllComing(t, m)
       /\ \A j, k \in PartialsOf(t) : j < k => queue_results[j].n < queue_results[k].n
       /\ PartialsOf(t) # {} => t \notin answered
       /\ \A k \in LastResultOf(t) :
             /\ \A j \in PartialsOf(t) : j < k
             /\ queue_results[k].kind = "final" => AllComing(t, queue_results[k].n)
             /\ failures = 0 => LastResultOf(t) = {k}
       /\ \A s \in Slots \ Idle :
             slots[s].id_task = t => AllComing(t, slots[s].n_sent)

\* As long as no decode has failed, no result stays behind: each is for a
\* request that still takes its results or is about to forget them.  But those
\* of a stream that was dropped before it was opened.  And no id is waited for
\* by nobody, but for those of a rerank, whose handler does not remove them.
ResultsAwaited ==
    /\ failures = 0 => \A i \in DOMAIN queue_results :
          stage[queue_results[i].id[1]] \in {"open", "recv", "cancel", "drop", "dropped"}
    /\ \A t \in waiting_task_ids :
          stage[t[1]] \in {"done", "dropped"} => RequestOf(t).kind = "rerank"

\* Two loops fill the batch, which is computed with the adapters and in the mode
\* of one slot: whatever was refused, cancelled, split or skipped before, all of
\* its slots are of one type and have the same adapters.  So are all slots that
\* generate: the test in the first loop never finds a slot to leave out, as it
\* was made before the slot's first token.
Generating == {s \in Slots : slots[s].state = "generating"}
BatchAgrees == \A s, other \in batch \cup Generating : CanBatchWith(s, other)

\* The main loop sleeps only with nothing to do: no slot works, and none of the
\* deferred tasks could have one, as the slot it names does not exist.  But for
\* those that wait behind a deferred task that was moved and took no slot.
SleepsIdle == main = "wait" /\ queue_tasks = <<>> =>
    /\ Idle = Slots
    /\ ~ misfired => \A i \in DOMAIN queue_tasks_deferred :
          RequestOf(queue_tasks_deferred[i].id).slot \notin {AnySlot} \cup Slots

\* A request ends, answered or given up by its client, and then nothing of it
\* is left: the server does not work for a client that has gone for ever.  But
\* for the requests behind a deferred task that was moved and took no slot.
Settled == \A c \in Clients :
    Waits(c) ~>
        \/ misfired
        \/ stage[c] \in {"done", "dropped"} /\ \A t \in TaskIds(c) : Custodians(t) = 0

\* "If requested slot is unavailable, we defer this task for processing later."
DeferredIsProcessedLater == \A c \in Clients : stage[c] = "recv" ~> stage[c] = "done"

=============================================================================
