# A verification project for a81ml-org

The repository gathers the ggml family of projects (ggml, llama.cpp, whisper.cpp, plug-ins, CI)
and adds a layer of "cognitive" C libraries to ggml. This directory holds TLA+ models of the code
that carries its own logic, the TLC configurations that check them on small instances, and theorems
proved with TLAPS. All paths are relative to the repository, under `src/`.

## 1. Inventory

| Part | Code | State it keeps | Operations | What is hard |
|---|---|---|---|---|
| CPU barrier | `ggml/src/ggml-cpu/ggml-cpu.c` | `n_barrier`, `n_barrier_passed` | `ggml_barrier` | reused at once by early threads; the counter wraps |
| CPU thread pool | same | `n_graph`, `n_threads_cur`, `stop`, `pause`, `abort`, `ec`, per worker `last_graph`, `pending` | new, compute, pause, resume, free; poll and sleep of the workers | unlocked polling against locked waiting, lost wake-ups, aborts |
| CPU matrix multiplication | same | `current_chunk`, `wdata`, the result | `ggml_compute_forward_mul_mat` | one counter and one buffer for all nodes; rounding |
| AtomSpace | `ggml/src/ggml-opencog.c` | array of atoms with outgoing and incoming lists, next id | add node, add link, from a unit, get, chaining, attention | reverse lists, capacity, refused calls |
| Cogfluence | `ggml/src/ggml-cogfluence.c` | units, relations, workflows; one id counter per process | add unit, relation, workflow, step, execute | ids across kinds and systems, two-sided relations |
| Architecture: transduction | `ggml/src/ggml-distributed-cognitive.c` | the two systems above | three transductions, full pipeline | two id spaces taken for one; failing stages |
| Architecture: the rest | same | membranes, optimisation and improvement loops, capped histories | create, update, evolve, reflect | global ids used as positions, full tables |
| Emergent behaviour analyser | same | module table, sliding metric histories, streaks, cooldowns, records | create and remove module, analyse | two histories indexed alike, causes in sight for several analyses, flags of now against a trend of the past, a full table |
| Communication engine | `ggml/src/ggml-distributed-communication.c` | connections, two queues of message pointers, registry | start, stop, free, create, free message, send, broadcast, receive, send tensor | who frees a message |
| PLN engine | `ggml/src/ggml-pln-reasoning.c` | AtomSpace, counters, history | five rules, chain | changes made before a failure |
| Cogutil | `ggml/src/ggml-cogutil.c` | type registry, configuration, memory pool, log | register, lookup, subtype walk, allocate | a type registered with an arbitrary parent |
| MOSES | `ggml/src/ggml-moses*.c` | population, best program, data set | evolve, clone, free | ownership of the data set, second run |
| Pattern matching, cognitive tensors | `ggml/src/ggml-pattern-matching.c`, `ggml-cognitive-tensor.c` | templates, prime cache | compile, match, encode | parser and factorisation bounds; the rest is float arithmetic |
| Cognitive agent example | `examples/cognitive-agents/cognitive-agent.c` | attention economy, history ring | allocate, process | division by what is allocated so far |
| Component validator | `scripts/validate-components.py` | components from YAML | cycles, order | pure graph functions |
| HTTP server | `llama.cpp/tools/server/server.cpp` | task queue, deferred tasks, ids waited for, results, slots, the batch | post, defer, pop, send, receive, cancel; the main loop and `update_slots` | HTTP threads against the main loop; clients that go away; a decode that fails for all |
| Upstream and vendored | rest of llama.cpp, whisper.cpp, editor plug-ins, actions, site | | | left out |

Interactions. Every computation of the libraries ends in `ggml_graph_compute`, whose workers and
caller share the pool structure; inside a graph they meet only in `ggml_barrier`. The architecture
owns one Cogfluence system, one AtomSpace and one communication engine and calls them directly, in
one thread; the only state shared between two architectures of a process is Cogfluence's static id
counter. The communication engine has no thread of its own: everything happens in the calls of the
program. The HTTP server has one thread per request and one main loop; they share nothing but the
two queues, each under a mutex of its own, and the connection, which only the HTTP threads look at.

What makes the parts correct: no thread leaves a barrier early and all leave in the end; a graph is
computed once, by the same threads, in order; no worker touches the pool's parameters between
graphs; calls return. A result is computed once and completely. The AtomSpace is a growing
hypergraph with exact reverse lists; ids name one thing; links between the systems resolve. A
message has one owner from creation to release. A request's task is in one place until its last
result is sent, a stream is complete and in order, and every request is answered or cleared away.

`PROJECT.json` lists the hazards with their lines and the properties that would catch them; those
without a property say why.

## 2. Modules

```
Rendezvous  <--implements--  Barrier        <-- MCBarrier, BarrierProofs
    ^------- uses ---------  MulMat         <-- MCMulMat, MulMatProofs
ForkJoin    <--implements--  Threadpool     <-- MCThreadpool, ThreadpoolProofs
Hypergraph  <--implements--  AtomSpace  \   <-- AtomSpaceProofs   \
                             Cogfluence  >                         >  TransductionProofs
                             Transduction   <-- MCTransduction    /
                             Emergence      <-- MCEmergence, EmergenceProofs
                             DistComm       <-- MCDistComm, DistCommProofs
             ServerQueue <-- Server         <-- MCServer, ServerProofs
```

**Barrier** models `ggml_barrier` one atomic operation per action: `Call`, `Load` (line 528),
`Enter` (the `fetch_add`), `Reset`, `Release`, `Spin` (the read that ends the loop). `seen[t]` is
the local `n_passed`. `arrived` and `crossed` are history variables; `crossed` counts returns.
**Rendezvous** is what a barrier promises: nobody crosses a round before all arrived at it.

**Threadpool** models the build without OpenMP: `ggml_graph_compute_thread` (`Begin` .. `Spin`,
with the barrier inlined and with the early exit of a single thread), the workers' loop
(`PauseTest` .. `LockWork`), and the caller (`ComputeCall`, the three stores of kickoff,
`ComputeReturn`, `Pause`, `Resume`, the three steps of free). What a worker reads without the mutex
is one action per read, in the order of the code; what it does under the mutex is one action, as
all writers of those fields hold the mutex as well. Waiting on the condition variable is membership
in `waiting`; a broadcast empties it, and a waiter may wake without one (`SpuriousWake`). `pending`
needs no variable: it is tested and cleared right after it is set. A call without a pool
(`disposable_threadpool`) is the sequence `ComputeCall`, `FreeCall` on a pool of that size.
**ForkJoin** is the promise: every active thread computes every node once, no thread is more than
one node ahead, all stop at the same node, nothing is left when the call returns.

**MulMat** divides consecutive results among the threads. A chunk is a set of cells; `NChunks`,
`Part`, `Cells` and `Share` are the arithmetic of the C code with its constants 16, 64 and 4 as
parameters. Its barriers are the actions of Rendezvous, which Barrier implements.

**AtomSpace** and **Cogfluence** have one operator per function and no behaviour of their own;
**Transduction** composes them. A call that is refused changes nothing, so it is no action, except
for stages of the pipeline that fail after an earlier stage succeeded (the unit stays behind). Of a
name only matters whether it is empty: Cogfluence accepts an empty name, the AtomSpace does not.
**Hypergraph** is the AtomSpace without indices: a growing sequence of immutable atoms whose targets
are older atoms.

**Emergence** models the analyser and the module table it watches. `Analyze(p)` is one call of
`emergent_behavior_analyze_system`, with the performance `p` as an input (the benchmark reads only
other components): it samples, counts streaks, runs the four detections in order and records what
finds room. Performances are whole percents, and the trend, variance and half-mean tests are exact:
both sides of each comparison are multiplied by the denominators, where C divides floats. `observed`
and `detections` are history variables. Programs create and remove modules and set the
self-modification flags (`CreateModule`, `RemoveModule`, `SetSelfModification`); the other calls of
the architecture act on the analyser only through `p`. `Init` is the state after the analysis was
enabled.

**DistComm** models message blocks and the queues of pointers to them, together with a program that
follows the one hint the interface gives: it keeps a message it could not send and lets go of one it
could. Connections and incoming messages come from an environment, because nothing in the
repository makes either (`dist_comm_connect_agent` is declared only).

**ServerQueue** has one operator per method of `server_queue` and `server_response`; each runs under
the mutex of its queue, so each is one step. **Server** composes them with the HTTP threads and the
main loop. A client has one request, of some kind and number of tasks (`Loads`), and goes through the
stages of its handler: announce the ids, post the tasks, open the stream, receive, then remove the
ids or cancel. It may close its connection at any time, and `recv_with_timeout` may time out whether
or not an answer is on its way. The main loop takes one task at a time (`TakeTask`, `DeferTask`,
`LaunchSlot`, `AnswerTask`, `CancelSlot`, `NextResponse`) and, when there is none, runs one round of
`update_slots`: the tokens sampled last, the prompts slot by slot, the decode, the slots one by one.
Where it releases a slot (which moves a deferred task, under one mutex) and sends a result (under the
other) these are one action: no thread works on both queues in one step of its own, so that none can
tell the order of the two. Tokens, prompts and results are numbers; which idle slot is taken, how
long a stream is, whether a token completes text, and whether a prompt, a grammar or a decode fails
are choices. What decides which slots may share a batch is kept as `can_batch_with` has it: the type of the
task, where an infill is not a completion, and its LoRA adapters, which are an input for each task
(`Loads`): its request may ask for some, and else the handler copies those of `params_base` for each task,
which a task to set adapters may change in between. `heard`, `answered`, `failures`, `refusals` and `misfired` are history variables.

In every module, operators named in a "Mutant" comment are deliberate bugs, used to show that each
property can fail; no specification refers to them.

## 3. Runs

| Run | Question | Bounds |
|---|---|---|
| `barrier` | does `ggml_barrier` implement a rendezvous, keep its inductive invariant, and let everyone out? | 4 threads, 3 calls each, passed-counter modulo 2 |
| `pool` | is the pool a fork and join, are the parameters left alone between graphs, is the status right, do compute and free return? | pool of 3, plans for 1, 2, 4 threads, 2 nodes, 2 graphs, 1 pause, aborts; number of threads not growing |
| `pool_grow` | violation: see below | pool of 2, growing allowed |
| `mulmat` | is every result computed once and completely? | 3 threads, 2 nodes, 5 shapes, 4 blocks, chunk sizes 2 |
| `transduction` | do graph, ids and cross-references stay intact? | 3 atoms, 2 units, 1 workflow with 1 step, 2 relations per unit, links of up to 2 targets, 1 foreign id |
| `transduction_ids` | violation: see below | the same, 1 relation |
| `emergence` | is every detection true of what was observed, one per cause and cooldown, and no phase transition missed? | 7 analyses, 3 performances, windows of 5, 2 records, 2 modules, 2 changes of modules or flags |
| `emergence_prompted` | violation: see below | the same |
| `distcomm` | has every message one owner? | 3 blocks, 2 agents, queues of 2, 2 connections |
| `distcomm_tensor` | violation: see below | 2 blocks, 1 agent |
| `server` | is every task in one place, every stream complete, every result awaited, every batch of one type and with one set of adapters, the loop asleep only with nothing to do, every request settled? | 2 slots, 2 clients with 7 pairs of requests of up to 3 tasks, 2 sets of adapters, prompts of 2 and batches of 3 tokens, 2 tokens per answer, 1 failed decode, 1 refusal |
| `server_deferred` | violation: see below | 1 slot, 3 clients, 1 token |

Why the bounds are enough for the interesting cases: four threads let two be late while two are
already in the next barrier, and a modulus of 2 is the hardest one the equality test can face; three
graph threads give a pool with an inactive worker, clipping (4 > 3), the single-thread exit (1) and
two graphs in a row; the shapes of `mulmat` are chunked by size and by thread, wide and thin, with
short and empty last parts, and there are more, as many and fewer chunks than threads; three atoms
let a link use one target twice and a later link use a link; seven analyses fill the window and make
it slide, allow two detections of each of the shorter cooldowns and more detections than there are
records, and the three performances lie on both sides of every threshold of the analyser; two message queues of two can be full
while a third block is in the program's hands; the seven loads of `server` are the ways in which two
requests meet: at a slot action, at a slot both name, at more tasks than slots with a question that
overtakes them, at a batch that two tasks cannot share (a completion and a rerank, a completion and an
infill, two completions with other adapters), and without a slot; two prompts of two tokens do not
fit a batch of three, so one is split, or, for an embedding, waits.

Deadlock checking is off only in the `transduction`, `emergence` and `distcomm` runs, where the program may have
used up its bounds or ended, and in the `server` runs, where all requests may be done and the main loop sleeps.

### What the violations show

* `pool_grow`. The comment in `ggml_graph_compute` says that no worker accesses the parameters it
  writes. A worker polling when a graph with fewer threads starts can read the new `n_graph`, be
  delayed until a later graph with more threads is announced, read the larger `n_threads_cur`, and
  join that graph under the older number. Having finished, it finds `n_graph` "new" again and enters
  the finished graph, while the caller may prepare the next one. It needs a delay across a whole
  graph and a pool whose graphs alternate in `n_threads`, as a caller that shares one pool between
  batches and single tokens has. With numbers of threads that do not grow, `pool` finds no such
  access.
* `transduction_ids`. The pipeline takes a unit's id for the id of its atom. This works for a process
  that only runs the pipeline on non-empty inputs (`PipelineAloneAligned` in `transduction`), and
  for no other: a workflow, a direct call, an empty input or a second architecture puts the counters
  out of step, and stage 3 converts the wrong atom and reports success, or fails.
* `emergence_prompted`. The trend is that of the whole window, the self-modification flags are those
  of the moment. In the trace performance rises from one sample to the next, both taken under recursive
  improvement (on by default); then the flag is switched off and performance stays where it is. Two
  analyses later the rise is still in the window and is reported as spontaneous, though no other was seen.
  A window that also holds a rise of its own would not violate `SpontaneousIsUnprompted`.
* `distcomm_tensor`. A tensor message to an agent without a connection is queued and freed.
* `server_deferred`. A task is moved from the deferred ones when a slot is released, one per release.
  If it takes no slot itself (a slot action, a refused prompt) nothing is released after it, and the
  tasks behind it wait with all slots idle until another request comes. `Settled` in `server` shows
  that this is the only way a request is left waiting: it makes an exception for it (`misfired`) alone.
  (The requests of that run name slots that exist. A completion that names one that does not, which
  `process_single_task` defers at :2755-2760, stays deferred for ever; `SleepsIdle` allows for it.)

## 4. Fairness

`Barrier!Spec`: weak fairness of every thread inside a barrier and of its next call: threads are
scheduled, and the node loop always reaches its next barrier. `Threadpool!Spec`: weak fairness of the
caller's steps inside a call and of every worker. A woken waiter eventually gets the mutex because
it is one of the worker's steps; in the model nobody holds the mutex for ever. Nothing is assumed
about API calls (a program may never call again) or spurious wake-ups. The polling loop may go on
for any number of rounds but a worker that polls for ever is running, and its polls see the new
graph. `Server!Spec`: weak fairness of the main loop, which never sleeps while a task is queued, and of
every thread that serves a request. Nobody has to make a request or to disconnect, and a decode need
not fail. That a token is the last one is forced by `n_predict` (`MaxTokens`).

## 5. Proofs

`BarrierProofs` proves, for every number of threads greater than one, every number of calls and every
modulus greater than one (`BarrierAssumption`):

* `Invariance`: `SafeSpec => []IndInv`. The properties are not inductive alone; what makes them so is
  who can be where: (`SameDone`) all threads have been let out of the same number of barriers, where a
  spinner counts as let out once the passed-counter differs from what it saw; (`FreshLoad`) nobody can
  open the barrier between a thread's load and its `fetch_add`, as the thread itself is missing;
  (`LastAlone`) while the last thread resets and releases all others spin; (`CounterCounts`) the
  counter is the number of waiters.
* `NobodyLeavesEarlyHolds`, `NoLappingHolds`: the two safety properties, from the invariant.
* `Refinement`: every step is a step or a stutter of Rendezvous (`SafeSpec => ImplementsSafe`).

TLC checks the same invariant (`IndInv`) in run `barrier`.

`ThreadpoolProofs` proves `TypeOK`, `NoWorkerAccess`, `BarrierClear`, `SameNth`, `StatusTold` and
`Spec => Implements` for every pool, number of nodes, graphs and pauses, with and without aborts,
under one assumption, `~ Growing`: no graph uses more threads than the one before (`pool_grow` shows
what happens otherwise). The invariant says where each thread of a running graph can be when r
barriers of the graph have opened (`SameRound`, `At`): not there yet, in the node loop, at barrier r,
or through; that nobody else is in the node loop (`OthersRest`); that between graphs the workers the
next graph may use have done the last one (`CaughtUp`), which is what `~ Growing` buys; that the
barrier holds whom it counts, and an opening thread is alone (`BarrierRight`); that only the caller's
node can be the one to stop at (`AbortRight`); and that `work` follows from where the threads are
(`WorkRight`).

`MulMatProofs` proves `TypeOK`, `NoOverlap`, `WdataIsMine` and `ResultComplete` for all shapes, chunk
sizes and numbers of threads, nodes and blocks. One half is arithmetic: the parts of a rounded-up
division are disjoint and cover (`PartFacts`, `ChunkFacts`), and so do the rounded-down shares of
the conversion (`ShareFacts`). The other half is who can be where: (`Met`) threads are at most one
barrier apart; (`Numbers`, `OwnShare`) the chunks being worked on are different ones, below the
counter, and each conversion is its thread's own; (`Undone`, `Exact`) what is computed is what the
chunks given away cover, and what is not covered can still be drawn.

`AtomSpaceProofs` holds the lemmas on the operations of the AtomSpace; `TransductionProofs` has those
on Cogfluence's and puts them together: `TypeOK`, `IncomingMirrors`, `IdsName`, `RelationsMutual`,
`StepsKnown`, `BackLinksResolve`, `PipelineAloneAligned` and `Spec => ImplementsHypergraph`, for all
capacities under `TransductionAssumption` (types of atoms and units as the code maps them, and no more
units than atoms, 1024 and 2048). The strengthenings: an atom's id is its place and its targets are
older (`IdsArePlaces`, `BackwardLinks`); ids are below the counter and differ across units and
workflows (`IdsBelow`, `IdsDistinct`); as long as only the pipeline ran, the two counters go together
(`Paired`).

`DistCommProofs` proves `TypeOK`, `QueueOwns`, `HeldAlive` and `NothingLost` for all blocks, agents and
queue lengths, under the assumption `~ Anywhere`: tensors are only sent to connected agents
(`distcomm_tensor` shows the other case). What is needed besides the properties is that a block is in a
queue once (`QueuedOnce`).

`EmergenceProofs` proves `TypeOK`, `CooperationOnce`, `PhaseTransitionsExact` and `RecordsAreFirst` for all
capacities, thresholds, cooldowns and performances under `EmergenceAssumption`. Its part on the code's
constants: a pattern needs 3 samples at least (`min_pattern_length` is 5), so that a trend has a past; and the
window in which a new module counts as a cause is no longer than the cooldown of cooperations and one
(5 samples against 12), without which one module could be the cause of two reports. The strengthenings: both
histories are the end of what was observed, at the same places (`HistoriesTrack`); the two streak
counters summarise all of the past, shed samples included: each is the number of rises (falls) since
the last fall (rise) (`CountersSummarise`), which makes `PhaseTransitionsExact` a statement on the
whole past though the code keeps two numbers; a cooldown counts from the last detection of its type
(`CooldownsCount`); and no cause lies in the future (`RisesArePast`).

`ServerProofs` proves `TypeOK`, `OneCustodian`, `StreamContinuous`, `ResultsAwaited`, `BatchAgrees` and
`SleepsIdle` for every number of slots, clients, tasks per request and sets of adapters, all prompts, batch sizes and bounds, with failing decodes, under
`ServerAssumption` (what kinds of requests there are, and that an id that is not set is nobody's). The
invariant `IInv` has two halves.

* Where the tasks are. `TasksInv`: whatever is in a queue, in hand or in a slot is a posted task of its
  client, or `NEXT_RESPONSE`, or a cancellation for a client that is done (`GoodEntry`); no id is in two
  places, not even in the id a slot keeps of its last task (`QueuesApart`, `SlotsApart`): this is what
  makes it safe that `update_slots` sends errors by the ids of idle slots. `LoopInv`: the batch holds
  slots with tokens, within its size, and no slot has sent more than it decoded.
* What the results are. Who has a task (`Owned`) has not sent its last result (`OwnedOpen`). A final
  result comes before any other last result of its task, and after the partial ones (`FinalFirst`,
  `PartialsFirst`); after a failed decode stray errors may follow, before it nothing may (`LastOnce`). A
  client that waits has all of its ids waited for, and each task has an owner, a last result, or is
  answered (`WaitedFor`); what is waited for follows from the stage (`StagesKnow`). For a stream, the
  queue holds the numbers from what was taken to what its slot has sent, in order (`StreamsRight`).

The second half sees of the main loop only who has which task, so that each of its steps has one of
three effects: none (`Quiet`), the last result of a task (`Answers`) or the next partial one (`Streams`).
`MainStepOK` shows this action by action, and `QuietOK`, `AnswersOK`, `StreamsOK` show once each that
the effect keeps the results right. A step of an HTTP thread moves one client to its next stage; it
leaves the results alone or removes some (`Leaves`), or takes the first of its own (`Takes`). `RemoveAt`
and `Without` are described by where the remaining elements were (`Thins`), which carries every
statement on order over. `IInv` was checked by TLC on the two `server` configurations before it was
proved, with `MCServer` extending `ServerProofs`. Its subtle part is `FinalFirst`: after a failed decode a
task may have several last results, of which errors may follow a final one but never precede it.

`SleepsIdle` is the part of `Settled` that is safety: the loop waits on its condition variable with all
slots idle, and no deferred task left that a slot could take. It follows from a second invariant on top of
`IInv`, `SleepInv`. `LoopAwake`: while the slots are updated `NEXT_RESPONSE`, or something after it, is in
the queue, so that the loop comes back as long as a slot works. `DeferredFollowed`: if a deferred task
could have a slot, a slot works, or a task that was moved is on its way to the loop (`Returning`), or
one such task took no slot (`misfired`). A release moves the next task (`PopFollowed`); any other step
leaves what comes back on its way, puts it to work, or sets `misfired` (`Follows`). TLC checked `SleepInv`
first, also with requests that name a slot that does not exist.

`BatchAgrees` follows from a third invariant, `BatchInv`: while the loop over the prompts runs, all slots in the
batch and all that generate (`Computed`) agree with `slot_batched`, and there are none as long as it is not
set. A slot joins them only in that loop, on its turn, when it agrees (`TurnJoins`); it generates once it was
in the batch; elsewhere none joins (`NoneJoins`), and a slot that is released keeps type and adapters. So the
test in the first loop of `update_slots` (:3056-3057) leaves no slot out, in the model as in the code: two
slots that do not agree never generate at the same time, as the later one was left out before its
first token (:3082-3083, `SkipPrompt`). It waits until the slots that agree with `slot_batched` are done, and
`Settled` says that it gets its turn. The requests of the model are finitely many: that a slot behind a lower
one could wait for as long as that one is given tasks of another kind again and again is not excluded.

Only model-checked is what is said about the end of things (`BarrierReturns`, the fairness part of the
barrier's `Implements`, `CallsReturn`, `Settled`): liveness under fairness is out of the prover's reach.
Every invariant of a passing run is stated by a theorem.

## 6. Not modelled

* Weak memory. All atomic operations are sequentially consistent in the models; the relaxed loads and
  the fences of the C code are not examined.
* The OpenMP build, thread priorities and affinity, the overflow of the 32-bit `n_graph`, llamafile
  kernels, `mul_mat_id`, and all tensor arithmetic.
* Truth values, attention, activation and the statistics of the cognitive libraries (floats), but for
  the performance Emergence works with; elsewhere only
  control that does not depend on them is modelled so far.
* Sockets, discovery, registry and metrics of the communication engine.
* Failures of `malloc`.
* `ggml-distributed-cognitive.c` lacks a closing brace near line 2085 in this commit; the functions
  modelled stand before it.
* Of the HTTP server: shutdown, context shift, speculative decoding, multimodal input, embeddings
  pooled by the last token (whose prompts may be split), what is inside a token, a prompt or a
  result, and `params_base.lora_adapters`, which a task to set adapters changes while handlers read it
  without a lock: which adapters a task ends up with is an input.
* The loops of the architecture other than the transduction and the analyser (membranes, optimisation,
  improvement, evolution), PLN, MOSES and pattern matching decide almost everything by floats; what
  they do besides is in the plan. The type registry, the validator and the Matula encoding are pure
  functions of one thread and in the plan as well.
* The rest of the vendored projects of the inventory.

## 7. Plan

Done: barrier, pool, matrix multiplication, AtomSpace, Cogfluence, transduction, emergent behaviour,
message ownership, the HTTP server; proofs of all of them.
Next, in this order:

1. The rest of the safety part of `Settled`: a cancellation that is processed leaves no slot at work for
   its task, and a task that is still queued then runs for nobody at most once.
2. `SelfImprovement`: optimisation loops with their process-wide ids used as positions, improvement
   loops and bootstrapping, membranes and the capped evolution history, for two architectures in one
   process, composed with the module table of Emergence.
3. `Inference` over AtomSpace: PLN rules and the chaining functions with truth values abstracted to
   levels, what a failing inference leaves behind, the counters; `Attention`: spreading and decay on a
   small scale of integers, which divides by the reverse lists.
4. `Registry` (cogutil types and subtype walk, component validator) and the Matula encoding, as pure
   functions against reference definitions; the attention economy in fixed point.
5. `Network`: the architecture's calls to the communication engine, with registration.
6. The server's shutdown, and context shift.
