---------------------------- MODULE ServerProofs ----------------------------
(***************************************************************************)
(* No task of the server is lost or done twice and no result goes astray,  *)
(* for any number of slots, clients and tasks.  The invariant is in two    *)
(* parts: where the tasks are (LoopInv, TasksInv), and what the results    *)
(* are (ResultsInv).  The second sees of the first only who has which task *)
(* (Early, Progress, Owned), so that a step of the main loop has one of    *)
(* three effects on it: none (Quiet), the last result of a task (Answers), *)
(* or one more partial result (Streams).  The steps of the HTTP threads    *)
(* move one client on, and make the results fewer (Leaves, Takes).         *)
(* That the main loop does not sleep over work (SleepInv), and that the    *)
(* slots of a batch agree (BatchInv), is proved on top of that invariant,  *)
(* at the end.                                                             *)
(***************************************************************************)
EXTENDS Server, FiniteSetTheorems, SequenceTheorems, WellFoundedInduction, TLAPS

\* The tasks of all requests, and those that are in a queue or in hand, or in
\* a slot, which has sent some partial results.
Tasks == UNION {TaskIds(c) : c \in Clients}
Elements(q) == {q[i] : i \in 1 .. Len(q)}
IdsOf(entries) == {e.id : e \in entries} \ {NoTask}
Queued == Elements(queue_tasks) \cup Elements(queue_tasks_deferred)
Taken == IF main = "process" THEN {hand} ELSE {}
Early == IdsOf(Queued \cup Taken)
Busy == {slots[s].id_task : s \in Slots \ Idle}
Progress == {<<slots[s].id_task, slots[s].n_sent>> : s \in Slots \ Idle}
Owned == Early \cup Busy

\* The main loop.
LoopTypes ==
    /\ main \in {"tasks", "process", "prompts", "decode", "fail", "wait"}
    /\ slots \in [Slots -> [state : SlotStates, id_task : Ids, left : Nat,
                            n_decoded : 0 .. MaxTokens, n_sent : 0 .. MaxTokens]]
    /\ turn \in 0 .. NSlots /\ batched \in 0 .. NSlots
    /\ n_tokens \in Nat /\ (n_tokens <= NBatch \/ n_tokens <= NSlots)
    /\ failures \in 0 .. MaxFailures /\ refusals \in 0 .. MaxRefusals /\ misfired \in BOOLEAN
LoopKnows ==
    /\ main \in {"prompts", "fail"} => turn \in Slots
    /\ main = "fail" => failures > 0
    /\ main \in {"tasks", "process", "fail", "wait"} => batch = {}
    /\ batch \subseteq Slots
    /\ \A s \in batch : slots[s].state \in {"prompt", "done", "generating", "stopping"}
    /\ \A s \in Slots : /\ slots[s].n_sent <= slots[s].n_decoded
                        /\ slots[s].state \in {"started", "prompt", "done"} => slots[s].n_decoded = 0
                        /\ slots[s].state = "generating" => slots[s].n_decoded < MaxTokens
LoopInv == LoopTypes /\ LoopKnows

\* The tasks on their way.  A cancellation is for a client that is done.
Posted(t) == t \in Tasks /\ stage[t[1]] \notin {"new", "added"}
GoodEntry(e) ==
    /\ e \in Entries
    /\ \/ /\ e.id # NoTask /\ Posted(e.id)
          /\ e.type = RequestOf(e.id).kind /\ e.id_target = NoTask
       \/ e.id = NoTask /\ e.type = "next" /\ e.id_target = NoTask
       \/ /\ e.id = NoTask /\ e.type = "cancel"
          /\ e.id_target \in Tasks /\ stage[e.id_target[1]] = "done"
QueuesGood == /\ queue_tasks \in Seq(Entries) /\ queue_tasks_deferred \in Seq(Entries)
              /\ \A e \in Queued : GoodEntry(e)
HandGood == /\ \A e \in Taken : GoodEntry(e)
            /\ main # "process" => hand = NoTask
SlotsGood == /\ \A s \in Slots : slots[s].state # "idle" => slots[s].id_task # NoTask
             /\ \A t \in {slots[s].id_task : s \in Slots} \ {NoTask} : Posted(t)

\* Each task is in one place; a slot keeps the id of what it did.
Apart(q) == \A i, j \in 1 .. Len(q) : q[i].id = q[j].id /\ q[i].id # NoTask => i = j
QueuesApart ==
    /\ Apart(queue_tasks) /\ Apart(queue_tasks_deferred)
    /\ IdsOf(Elements(queue_tasks)) \cap IdsOf(Elements(queue_tasks_deferred)) = {}
SlotsApart ==
    /\ IdsOf(Queued) \cap IdsOf(Taken) = {}
    /\ \A s \in Slots : slots[s].id_task \notin Early
    /\ \A r, s \in Slots : slots[r].id_task = slots[s].id_task /\ slots[r].id_task # NoTask
                              => r = s
TasksInv == QueuesGood /\ HandGood /\ SlotsGood /\ QueuesApart /\ SlotsApart

\* The requests.
ClientTypes ==
    /\ request \in Loads
    /\ stage \in [Clients -> Stages]
    /\ n_finished \in [Clients -> Nat] /\ closed \in [Clients -> BOOLEAN]
    /\ heard = [c \in Clients |-> heard[c]]
    /\ \A c \in Clients : heard[c] \in [1 .. request[c].n -> Nat]

\* The results.
Results == [id : Clients \X Nat, kind : {"partial", "final", "error"}, n : Nat]
ResultTypes ==
    /\ waiting_task_ids \subseteq Tasks
    /\ \A t \in answered : Posted(t)
    /\ queue_results \in Seq(Results)
    /\ \A r \in Elements(queue_results) :
          /\ Posted(r.id)
          /\ r.kind = "partial" => RequestOf(r.id).kind = "stream"
    /\ \A t \in Tasks : ~ Posted(t) => heard[t[1]][t[2]] = 0
    /\ \A c \in Clients : stage[c] \in {"new", "added"} => n_finished[c] = 0

\* Who has a task has not sent its last result; that is sent once and after
\* the partial ones, but for errors that a failing decode sends for a task that
\* has left its slot.
FinalsOf(t) == {i \in LastResultOf(t) : queue_results[i].kind = "final"}
OwnedOpen == \A t \in Owned : LastResultOf(t) = {} /\ t \notin answered
FinalFirst == \A t \in Tasks : \A i \in FinalsOf(t) :
    t \notin answered /\ \A j \in LastResultOf(t) : i <= j
PartialsFirst == \A t \in Tasks : \A i \in PartialsOf(t) :
    t \notin answered /\ \A j \in LastResultOf(t) : i < j
LastOnce == failures = 0 => \A t \in Tasks : \A i \in LastResultOf(t) :
    t \notin answered /\ LastResultOf(t) = {i}

\* What the stage of a client tells of its tasks.
WaitedFor == \A c \in Clients : Waits(c) =>
    /\ TaskIds(c) \subseteq waiting_task_ids
    /\ \A t \in TaskIds(c) : t \in Owned \/ LastResultOf(t) # {} \/ t \in answered
    /\ n_finished[c] = Cardinality({t \in TaskIds(c) : t \in answered})
StagesKnow == \A t \in Tasks :
    /\ stage[t[1]] = "added" => t \in waiting_task_ids
    /\ stage[t[1]] = "remove" => t \in answered
    /\ t \in waiting_task_ids =>
          /\ stage[t[1]] \notin {"new", "forgotten", "dropped"}
          /\ stage[t[1]] = "done" => t \in answered /\ RequestOf(t).kind = "rerank"
NoneStray == failures = 0 => \A r \in Elements(queue_results) :
    stage[r.id[1]] \in {"open", "recv", "cancel", "drop", "dropped"}

\* The numbers of a stream that is waited for.
Streaming(t) == t \in Tasks /\ Waits(t[1]) /\ RequestOf(t).kind = "stream"
InOrder(t) == \A j, k \in PartialsOf(t) : j < k => queue_results[j].n < queue_results[k].n
StreamsRight ==
    /\ \A t \in Early : Streaming(t) => AllComing(t, 0)
    /\ \A p \in Progress : Streaming(p[1]) => AllComing(p[1], p[2])
    /\ \A r \in Elements(queue_results) :
          r.kind = "final" /\ Streaming(r.id) => AllComing(r.id, r.n)
    /\ \A t \in Tasks : Streaming(t) =>
          (\E m \in 0 .. MaxTokens : AllComing(t, m)) /\ InOrder(t)
ResultsInv == /\ ResultTypes /\ OwnedOpen /\ FinalFirst /\ PartialsFirst /\ LastOnce
              /\ WaitedFor /\ StagesKnow /\ NoneStray /\ StreamsRight

IInv == LoopInv /\ TasksInv /\ ClientTypes /\ ResultsInv

-----------------------------------------------------------------------------
(* Numbers *)

\* A set of numbers has a least one.
LEMMA LeastNumber ==
    ASSUME NEW S \in SUBSET Nat, S # {}
    PROVE  \E x \in S : \A y \in S : x <= y
<1> DEFINE R == {ss \in Nat \X Nat : ss[1] < ss[2]}
<1>1. IsWellFoundedOn(R, Nat)
  BY NatLessThanWellFounded DEF OpToRel
<1>2. PICK x \in S : \A y \in S : ~ (<<y, x>> \in R)
  BY <1>1, WFMin
<1>3. ASSUME NEW y \in S PROVE x <= y
  <2>1. x \in Nat /\ y \in Nat /\ <<y, x>> \in Nat \X Nat /\ <<y, x>>[1] = y /\ <<y, x>>[2] = x
    OBVIOUS
  <2>2. ~ (y < x)
    BY <1>2, <2>1
  <2> QED  BY <2>1, <2>2
<1> QED  BY <1>3

\* A set of numbers that has 0 and with every number the next one has them all.
LEMMA AllNumbers ==
    ASSUME NEW T, 0 \in T, \A n \in Nat : n \in T => n + 1 \in T
    PROVE  Nat \subseteq T
<1>1. SUFFICES ASSUME Nat \ T # {} PROVE FALSE
  OBVIOUS
<1>2. PICK x \in Nat \ T : \A y \in Nat \ T : x <= y
  BY <1>1, LeastNumber
<1>3. x # 0 /\ x - 1 \in Nat /\ x - 1 + 1 = x
  BY <1>2
<1>4. x - 1 \in T
  BY <1>2, <1>3
<1> QED  BY <1>2, <1>3, <1>4

-----------------------------------------------------------------------------
(* Sequences *)

\* r is q without some elements: h tells where what is left was.
Thins(h, r, q, I) ==
    /\ h \in [1 .. Len(r) -> I]
    /\ \A k \in 1 .. Len(r) : r[k] = q[h[k]]
    /\ \A j, k \in 1 .. Len(r) : j < k <=> h[j] < h[k]
    /\ \A i \in I : \E k \in 1 .. Len(r) : h[k] = i

\* An element more.
LEMMA ThinsAppend ==
    ASSUME NEW S, NEW r \in Seq(S), NEW q, NEW I \in SUBSET Nat, NEW h, Thins(h, r, q, I),
           NEW n \in Nat, q[n] \in S, \A i \in I : i < n
    PROVE  Append(r, q[n]) \in Seq(S) /\ \E g : Thins(g, Append(r, q[n]), q, I \cup {n})
<1> DEFINE s == Append(r, q[n])
           m == Len(r) + 1
           g == [k \in 1 .. m |-> IF k = m THEN n ELSE h[k]]
<1>1. /\ s \in Seq(S) /\ Len(s) = m /\ Len(r) \in Nat /\ m \in Nat
      /\ \A i \in 1 .. Len(r) : s[i] = r[i]
      /\ s[m] = q[n]
  BY AppendProperties, LenProperties
<1>2. \A k \in 1 .. m : k \in 1 .. Len(r) \/ (k = m /\ k \notin 1 .. Len(r))
  BY <1>1
<1>3. /\ \A k \in 1 .. Len(r) : k # m /\ k < m /\ k \in 1 .. m /\ h[k] \in I /\ h[k] \in Nat /\ h[k] < n
      /\ m \in 1 .. m
  <2>1. \A k \in 1 .. Len(r) : h[k] \in I
    BY DEF Thins
  <2>2. \A k \in 1 .. Len(r) : k # m /\ k < m /\ k \in 1 .. m
    BY <1>1
  <2>3. m \in 1 .. m
    BY <1>1
  <2> QED  BY <2>1, <2>2, <2>3
<1> HIDE DEF s
<1>4. g \in [1 .. m -> I \cup {n}] /\ g[m] = n /\ \A k \in 1 .. Len(r) : g[k] = h[k]
  BY <1>2, <1>3
<1> HIDE DEF m, g
<1>5. \A k \in 1 .. m : s[k] = q[g[k]]
  BY <1>1, <1>2, <1>3, <1>4 DEF Thins
<1>6. ASSUME NEW j \in 1 .. m, NEW k \in 1 .. m PROVE j < k <=> g[j] < g[k]
  <2>1. CASE j \in 1 .. Len(r) /\ k \in 1 .. Len(r)
    BY <1>4, <2>1 DEF Thins
  <2>2. CASE j = m /\ k \in 1 .. Len(r)
    <3>1. ~ (m < k) /\ ~ (n < h[k])
      BY <1>1, <1>3, <2>2
    <3> QED  BY <1>4, <2>2, <3>1
  <2>3. CASE j \in 1 .. Len(r) /\ k = m
    BY <1>3, <1>4, <2>3
  <2>4. CASE j = m /\ k = m
    BY <1>1, <1>4, <2>4
  <2> QED  BY <1>2, <2>1, <2>2, <2>3, <2>4
<1>7. \A i \in I \cup {n} : \E k \in 1 .. m : g[k] = i
  BY <1>3, <1>4 DEF Thins
<1>8. Thins(g, s, q, I \cup {n})
  BY <1>1, <1>4, <1>5, <1>6, <1>7 DEF Thins
<1> QED  BY <1>1, <1>8 DEF s

\* What Without leaves, and where it was.
LEMMA WithoutThins ==
    ASSUME NEW S, NEW q \in Seq(S), NEW gone
    PROVE  /\ Without(q, gone) \in Seq(S)
           /\ \E h : Thins(h, Without(q, gone), q, {i \in 1 .. Len(q) : q[i] \notin gone})
           /\ (\A i \in 1 .. Len(q) : q[i] \notin gone) => Without(q, gone) = q
<1> DEFINE n == Len(q)
           Step(f, i) == IF i = 0 THEN <<>>
                         ELSE IF q[i] \in gone THEN f[i - 1] ELSE Append(f[i - 1], q[i])
           Body(f) == [i \in 0 .. n |-> Step(f, i)]
           kept == CHOOSE f : f = Body(f)
           I(m) == {i \in 1 .. m : q[i] \notin gone}
<1>1. Without(q, gone) = kept[n]
  BY DEF Without
<1>2. n \in Nat /\ \A i \in 1 .. n : q[i] \in S
  BY LenProperties, ElementOfSeq
<1> HIDE DEF n
<1>3. \E f : f = Body(f)
  <2> DEFINE P(m) == \E f : \A i \in 0 .. m : f[i] = Step(f, i)
             T == {m \in Nat : P(m)}
  <2>1. P(0)
    <3>1. \A i \in 0 .. 0 : [j \in {0} |-> <<>>][i] = Step([j \in {0} |-> <<>>], i)
      OBVIOUS
    <3> QED  BY <3>1
  <2>2. ASSUME NEW m \in Nat, P(m) PROVE P(m + 1)
    <3>1. PICK f : \A i \in 0 .. m : f[i] = Step(f, i)
      BY <2>2
    <3> DEFINE g == [i \in 0 .. m + 1 |-> IF i = m + 1 THEN Step(f, m + 1) ELSE f[i]]
    <3>2. \A i \in 0 .. m + 1 : i \in 0 .. m \/ i = m + 1
      OBVIOUS
    <3>3. /\ \A i \in 0 .. m : g[i] = f[i] /\ (i # 0 => g[i - 1] = f[i - 1])
          /\ g[m + 1] = Step(f, m + 1) /\ m + 1 # 0 /\ m + 1 - 1 = m /\ m \in 0 .. m
      OBVIOUS
    <3> HIDE DEF g
    <3>4. ASSUME NEW i \in 0 .. m PROVE g[i] = Step(g, i)
      BY <3>1, <3>3
    <3>5. g[m + 1] = Step(g, m + 1)
      BY <3>3
    <3> QED  BY <3>2, <3>4, <3>5
  <2>3. Nat \subseteq T
    <3> HIDE DEF P
    <3>1. 0 \in T /\ \A m \in Nat : m \in T => m + 1 \in T
      BY <2>1, <2>2
    <3> QED  BY <3>1, AllNumbers
  <2>4. PICK f : \A i \in 0 .. n : f[i] = Step(f, i)
    BY <1>2, <2>3
  <2> DEFINE g == [i \in 0 .. n |-> f[i]]
  <2>5. \A i \in 0 .. n : g[i] = f[i] /\ (i # 0 => g[i - 1] = f[i - 1])
    BY <1>2
  <2>6. \A i \in 0 .. n : g[i] = Step(g, i)
    BY <2>4, <2>5
  <2>7. g = Body(g)
    BY <2>6
  <2> QED  BY <2>7
<1>4. kept = Body(kept)
  <2> HIDE DEF Body
  <2> QED  BY <1>3
<1>5. \A i \in 0 .. n : kept[i] = Step(kept, i)
  <2> HIDE DEF kept, Step
  <2> QED  BY <1>4
<1> HIDE DEF kept
<1> DEFINE Q(m) == /\ kept[m] \in Seq(S)
                   /\ \E h : Thins(h, kept[m], q, I(m))
                   /\ I(m) = 1 .. m => Len(kept[m]) = m /\ \A i \in 1 .. m : kept[m][i] = q[i]
           T == {m \in Nat : m <= n => Q(m)}
<1>6. Q(0)
  <2>1. kept[0] = <<>> /\ I(0) = {}
    BY <1>2, <1>5
  <2>2. Len(<<>>) = 0 /\ <<>> \in Seq(S)
    OBVIOUS
  <2>3. Thins([k \in 1 .. 0 |-> k], <<>>, q, {})
    BY <2>2 DEF Thins
  <2> QED  BY <2>1, <2>2, <2>3
<1>7. ASSUME NEW m \in Nat, m + 1 <= n, Q(m) PROVE Q(m + 1)
  <2>1. kept[m + 1] = IF q[m + 1] \in gone THEN kept[m] ELSE Append(kept[m], q[m + 1])
    <3>1. m + 1 \in 0 .. n /\ m + 1 # 0 /\ m + 1 - 1 = m
      BY <1>2, <1>7
    <3> QED  BY <1>5, <3>1
  <2>2. q[m + 1] \in S
    BY <1>2, <1>7
  <2>3. /\ \A i \in 1 .. m + 1 : i \in 1 .. m \/ i = m + 1
        /\ \A i \in 1 .. m : i \in 1 .. m + 1 /\ i # m + 1
        /\ m + 1 \in 1 .. m + 1
    OBVIOUS
  <2>4. CASE q[m + 1] \in gone
    <3>1. I(m + 1) = I(m) /\ I(m + 1) # 1 .. m + 1
      BY <2>3, <2>4
    <3> HIDE DEF I
    <3> QED  BY <1>7, <2>1, <2>4, <3>1
  <2>5. CASE q[m + 1] \notin gone
    <3>1. I(m + 1) = I(m) \cup {m + 1} /\ I(m) \in SUBSET Nat /\ \A i \in I(m) : i < m + 1
      BY <2>3, <2>5
    <3>2. I(m + 1) = 1 .. m + 1 => I(m) = 1 .. m
      BY <2>3
    <3> HIDE DEF I
    <3>3. PICK h : Thins(h, kept[m], q, I(m))
      BY <1>7
    <3>4. kept[m] \in Seq(S) /\ m + 1 \in Nat
      BY <1>7
    <3>5. /\ Append(kept[m], q[m + 1]) \in Seq(S)
          /\ \E g : Thins(g, Append(kept[m], q[m + 1]), q, I(m) \cup {m + 1})
      BY <2>2, <3>1, <3>3, <3>4, ThinsAppend
    <3>6. ASSUME I(m + 1) = 1 .. m + 1
          PROVE  Len(kept[m + 1]) = m + 1 /\ \A i \in 1 .. m + 1 : kept[m + 1][i] = q[i]
      <4>1. Len(kept[m]) = m /\ \A i \in 1 .. m : kept[m][i] = q[i]
        BY <1>7, <3>2, <3>6
      <4>2. /\ Len(Append(kept[m], q[m + 1])) = m + 1
            /\ \A i \in 1 .. m : Append(kept[m], q[m + 1])[i] = kept[m][i]
            /\ Append(kept[m], q[m + 1])[m + 1] = q[m + 1]
        BY <2>2, <3>4, <4>1, AppendProperties
      <4> QED  BY <2>1, <2>3, <2>5, <4>1, <4>2
    <3> QED  BY <2>1, <2>5, <3>1, <3>5, <3>6
  <2> QED  BY <2>4, <2>5
<1> HIDE DEF Q
<1>8. Nat \subseteq T
  <2>1. \A m \in Nat : m \in T => m + 1 \in T
    BY <1>2, <1>7
  <2> QED  BY <1>6, <2>1, AllNumbers
<1>9. Q(n)
  BY <1>2, <1>8
<1>10. (\A i \in 1 .. Len(q) : q[i] \notin gone) => kept[n] = q
  <2>1. SUFFICES ASSUME \A i \in 1 .. n : q[i] \notin gone PROVE kept[n] = q
    BY DEF n
  <2>2. I(n) = 1 .. n
    BY <2>1
  <2>3. kept[n] \in Seq(S) /\ Len(kept[n]) = n /\ \A i \in 1 .. n : kept[n][i] = q[i]
    BY <1>9, <2>2 DEF Q
  <2> QED  BY <2>3, SeqEqual DEF n
<1> QED  BY <1>1, <1>9, <1>10 DEF Q, n

-----------------------------------------------------------------------------
(* Queues *)

\* The empty queue.
LEMMA NoElements == Elements(<<>>) = {}  /\ Apart(<<>>)
<1>1. 1 .. Len(<<>>) = {}
  OBVIOUS
<1> QED  BY <1>1 DEF Elements, Apart

\* A queue and one element more.
LEMMA Appended ==
    ASSUME NEW S, NEW q \in Seq(S), NEW e \in S
    PROVE  /\ Append(q, e) \in Seq(S)
           /\ Elements(Append(q, e)) = Elements(q) \cup {e}
           /\ Apart(q) /\ e.id \notin IdsOf(Elements(q)) => Apart(Append(q, e))
<1> DEFINE r == Append(q, e)
           n == Len(q)
<1>1. /\ n \in Nat /\ r \in Seq(S) /\ Len(r) = n + 1
      /\ \A i \in 1 .. n : r[i] = q[i]
      /\ r[n + 1] = e
  BY AppendProperties, LenProperties
<1> HIDE DEF r, n
<1>2. \A i \in 1 .. n + 1 : i \in 1 .. n \/ i = n + 1
  BY <1>1
<1>3. n + 1 \in 1 .. n + 1 /\ \A i \in 1 .. n : i \in 1 .. n + 1
  BY <1>1
<1>4. Elements(q) = {q[i] : i \in 1 .. n} /\ Elements(r) = {r[i] : i \in 1 .. n + 1}
  BY <1>1 DEF Elements, n
<1>5. Elements(r) = Elements(q) \cup {e}
  BY <1>1, <1>2, <1>3, <1>4
<1>6. ASSUME Apart(q), e.id \notin IdsOf(Elements(q)) PROVE Apart(r)
  <2>1. \A i \in 1 .. n : q[i].id # NoTask => q[i].id # e.id
    BY <1>4, <1>6 DEF IdsOf
  <2>2. ASSUME NEW i \in 1 .. n + 1, NEW j \in 1 .. n + 1, r[i].id = r[j].id, r[i].id # NoTask
        PROVE  i = j
    <3>1. CASE i \in 1 .. n /\ j \in 1 .. n
      BY <1>1, <1>6, <2>2, <3>1 DEF Apart, n
    <3>2. CASE i \in 1 .. n /\ j = n + 1
      BY <1>1, <2>1, <2>2, <3>2
    <3>3. CASE i = n + 1 /\ j \in 1 .. n
      BY <1>1, <2>1, <2>2, <3>3
    <3> QED  BY <1>2, <3>1, <3>2, <3>3
  <2> QED  BY <1>1, <2>2 DEF Apart
<1> QED  BY <1>1, <1>5, <1>6 DEF r

\* A queue without its first element.
LEMMA Shortened ==
    ASSUME NEW S, NEW q \in Seq(S), q # <<>>
    PROVE  /\ Head(q) \in S /\ Tail(q) \in Seq(S)
           /\ Elements(q) = Elements(Tail(q)) \cup {Head(q)}
           /\ Apart(q) => Apart(Tail(q)) /\ (Head(q).id \notin IdsOf(Elements(Tail(q))))
<1> DEFINE r == Tail(q)
           n == Len(r)
<1>1. /\ n \in Nat /\ r \in Seq(S) /\ Len(q) = n + 1
      /\ \A i \in 1 .. n : r[i] = q[i + 1]
      /\ Head(q) = q[1] /\ q[1] \in S
  <2>1. /\ r \in Seq(S) /\ Len(r) = Len(q) - 1 /\ \A i \in 1 .. Len(q) - 1 : r[i] = q[i + 1]
        /\ Head(q) \in S
    BY HeadTailProperties
  <2>2. Len(q) \in Nat /\ Len(r) \in Nat
    BY <2>1, LenProperties
  <2> QED  BY <2>1, <2>2
<1> HIDE DEF r, n
<1>2. \A i \in 1 .. n + 1 : i = 1 \/ (i - 1 \in 1 .. n /\ i - 1 + 1 = i)
  BY <1>1
<1>3. 1 \in 1 .. n + 1 /\ \A i \in 1 .. n : i + 1 \in 1 .. n + 1 /\ i + 1 # 1
  BY <1>1
<1>4. Elements(r) = {r[i] : i \in 1 .. n} /\ Elements(q) = {q[i] : i \in 1 .. n + 1}
  BY <1>1 DEF Elements, n
<1>5. Elements(q) = Elements(r) \cup {Head(q)}
  <2>1. ASSUME NEW i \in 1 .. n + 1 PROVE q[i] \in Elements(r) \cup {Head(q)}
    <3>1. CASE i = 1
      BY <1>1, <3>1
    <3>2. CASE i - 1 \in 1 .. n /\ i - 1 + 1 = i
      <4>1. r[i - 1] = q[i]
        BY <1>1, <3>2
      <4> QED  BY <1>4, <3>2, <4>1
    <3> QED  BY <1>2, <3>1, <3>2
  <2> QED  BY <1>1, <1>3, <1>4, <2>1
<1>6. ASSUME Apart(q) PROVE Apart(r) /\ (Head(q).id \notin IdsOf(Elements(r)))
  <2>1. ASSUME NEW i \in 1 .. n, NEW j \in 1 .. n, r[i].id = r[j].id, r[i].id # NoTask PROVE i = j
    <3>1. i + 1 = j + 1
      BY <1>1, <1>3, <1>6, <2>1 DEF Apart
    <3> QED  BY <3>1
  <2>2. ASSUME NEW i \in 1 .. n, r[i].id = Head(q).id, r[i].id # NoTask PROVE FALSE
    <3>1. i + 1 = 1
      BY <1>1, <1>3, <1>6, <2>2 DEF Apart
    <3> QED  BY <1>3, <3>1
  <2>3. Apart(r)
    BY <2>1 DEF Apart, n
  <2>4. Head(q).id \notin IdsOf(Elements(r))
    BY <1>4, <2>2 DEF IdsOf
  <2> QED  BY <2>3, <2>4
<1> QED  BY <1>1, <1>5, <1>6 DEF r

\* Two queues, one after the other.
LEMMA Joined ==
    ASSUME NEW S, NEW q \in Seq(S), NEW r \in Seq(S)
    PROVE  /\ q \o r \in Seq(S)
           /\ Elements(q \o r) = Elements(q) \cup Elements(r)
           /\ Apart(q) /\ Apart(r) /\ IdsOf(Elements(q)) \cap IdsOf(Elements(r)) = {} => Apart(q \o r)
<1> DEFINE w == q \o r
           m == Len(q)
           n == Len(r)
<1>1. /\ m \in Nat /\ n \in Nat /\ w \in Seq(S) /\ Len(w) = m + n
      /\ \A i \in 1 .. m + n : w[i] = IF i <= m THEN q[i] ELSE r[i - m]
  BY ConcatProperties, LenProperties
<1>2. /\ Elements(q) = {q[i] : i \in 1 .. m} /\ Elements(r) = {r[i] : i \in 1 .. n}
  BY DEF Elements
<1>3. (Apart(q) <=> \A i, j \in 1 .. m : q[i].id = q[j].id /\ q[i].id # NoTask => i = j)
      /\ (Apart(r) <=> \A i, j \in 1 .. n : r[i].id = r[j].id /\ r[i].id # NoTask => i = j)
  BY DEF Apart
<1> HIDE DEF w, m, n
<1>4. Elements(w) = {w[i] : i \in 1 .. m + n}
  BY <1>1 DEF Elements
<1>5. \A i \in 1 .. m : i \in 1 .. m + n /\ w[i] = q[i]
  BY <1>1
<1>6. ASSUME NEW i \in 1 .. n PROVE m + i \in 1 .. m + n /\ w[m + i] = r[i]
  <2>1. m + i \in 1 .. m + n /\ ~ (m + i <= m) /\ m + i - m = i
    BY <1>1
  <2> QED  BY <1>1, <2>1
<1>7. ASSUME NEW i \in 1 .. m + n PROVE i \in 1 .. m \/ (i - m \in 1 .. n /\ w[i] = r[i - m])
  BY <1>1
<1>8. Elements(w) = Elements(q) \cup Elements(r)
  BY <1>2, <1>4, <1>5, <1>6, <1>7
<1>9. ASSUME Apart(q), Apart(r), IdsOf(Elements(q)) \cap IdsOf(Elements(r)) = {} PROVE Apart(w)
  <2>1. ASSUME NEW i \in 1 .. m, NEW j \in 1 .. n, q[i].id = r[j].id PROVE q[i].id = NoTask
    BY <1>2, <1>9, <2>1 DEF IdsOf
  <2>2. ASSUME NEW i \in 1 .. m + n, NEW j \in 1 .. m + n, w[i].id = w[j].id, w[i].id # NoTask
        PROVE  i = j
    <3>1. CASE i \in 1 .. m /\ j \in 1 .. m
      BY <1>3, <1>5, <1>9, <2>2, <3>1
    <3>2. CASE i \in 1 .. m /\ j - m \in 1 .. n /\ w[j] = r[j - m]
      BY <1>5, <2>1, <2>2, <3>2
    <3>3. CASE i - m \in 1 .. n /\ w[i] = r[i - m] /\ j \in 1 .. m
      BY <1>5, <2>1, <2>2, <3>3
    <3>4. CASE /\ i - m \in 1 .. n /\ w[i] = r[i - m]
               /\ j - m \in 1 .. n /\ w[j] = r[j - m]
      <4>1. i - m = j - m
        BY <1>3, <1>9, <2>2, <3>4
      <4> QED  BY <1>1, <4>1
    <3> QED  BY <1>7, <3>1, <3>2, <3>3, <3>4
  <2> QED  BY <1>1, <2>2 DEF Apart
<1> QED  BY <1>1, <1>8, <1>9 DEF w

\* A queue turned round, as tasks that are posted to the front are.
LEMMA Reversed ==
    ASSUME NEW S, NEW q \in Seq(S)
    PROVE  /\ Reverse(q) \in Seq(S) /\ Elements(Reverse(q)) = Elements(q)
           /\ Apart(q) => Apart(Reverse(q))
<1> DEFINE r == Reverse(q)
           n == Len(q)
           E(i) == q[n - i + 1]
<1>1. n \in Nat /\ \A i \in 1 .. n : q[i] \in S
  BY LenProperties, ElementOfSeq
<1>2. r = [i \in 1 .. n |-> E(i)]
  BY DEF Reverse
<1>3. Elements(q) = {q[i] : i \in 1 .. n}
      /\ (Apart(q) <=> \A i, j \in 1 .. n : q[i].id = q[j].id /\ q[i].id # NoTask => i = j)
  BY DEF Elements, Apart
<1> HIDE DEF r, n
<1>4. \A i \in 1 .. n : n - i + 1 \in 1 .. n /\ n - (n - i + 1) + 1 = i
  BY <1>1
<1>5. r \in Seq(S) /\ Len(r) = n
  <2>1. r \in [1 .. n -> S]
    BY <1>1, <1>2, <1>4
  <2> QED  BY <1>1, <2>1, IsASeq, LenProperties
<1>6. \A i \in 1 .. n : r[i] = q[n - i + 1] /\ r[n - i + 1] = q[i]
  BY <1>2, <1>4
<1>7. Elements(r) = {r[i] : i \in 1 .. n}
  BY <1>5 DEF Elements
<1>8. Elements(r) = Elements(q)
  BY <1>3, <1>4, <1>6, <1>7
<1>9. ASSUME Apart(q), NEW i \in 1 .. n, NEW j \in 1 .. n, r[i].id = r[j].id, r[i].id # NoTask
      PROVE  i = j
  <2>1. n - i + 1 = n - j + 1
    BY <1>3, <1>4, <1>6, <1>9
  <2> QED  BY <1>1, <2>1
<1>10. Apart(q) => Apart(r)
  BY <1>5, <1>9 DEF Apart
<1> QED  BY <1>5, <1>8, <1>10 DEF r

-----------------------------------------------------------------------------
(* Tasks and what happens to the queues *)

\* A task names its client and its number among the client's tasks.
LEMMA TaskParts ==
    ASSUME request \in Loads, NEW t \in Tasks
    PROVE  /\ t[1] \in Clients /\ t \in TaskIds(t[1]) /\ t \in Clients \X Nat /\ t # NoTask
           /\ t[2] \in 1 .. request[t[1]].n /\ t = <<t[1], t[2]>>
<1>1. PICK c \in Clients : t \in TaskIds(c)
  BY DEF Tasks
<1>2. request[c].n \in Nat
  BY ServerAssumption
<1>3. PICK i \in 1 .. request[c].n : t = <<c, i>>
  BY <1>1 DEF TaskIds
<1>4. t[1] = c /\ t[2] = i /\ i \in Nat
  BY <1>2, <1>3
<1> QED  BY <1>1, <1>3, <1>4, ServerAssumption

\* The tasks of a client name it.
LEMMA TasksOfClients ==
    ASSUME request \in Loads, NEW c \in Clients, NEW t \in TaskIds(c)
    PROVE  t \in Tasks /\ t[1] = c
<1>1. PICK i \in 1 .. request[c].n : t = <<c, i>>
  BY DEF TaskIds
<1> QED  BY <1>1 DEF Tasks

\* No step takes a request back.
StagesGrow ==
    /\ request' = request
    /\ \A c \in Clients :
          /\ stage[c] \notin {"new", "added"} => stage'[c] \notin {"new", "added"}
          /\ stage[c] = "done" => stage'[c] = "done"

\* As long as no request is taken back, what is on its way stays good.
LEMMA GoodGrows ==
    ASSUME request \in Loads, StagesGrow
    PROVE  /\ Tasks' = Tasks
           /\ \A t : Posted(t) => Posted(t)'
           /\ \A e : GoodEntry(e) => GoodEntry(e)'
<1>1. Tasks' = Tasks
  BY DEF StagesGrow, Tasks, TaskIds
<1>2. \A t \in Tasks : t[1] \in Clients
  BY TaskParts
<1>3. \A t : Posted(t) => Posted(t)'
  BY <1>1, <1>2 DEF StagesGrow, Posted
<1>4. ASSUME NEW e, GoodEntry(e) PROVE GoodEntry(e)'
  <2>1. CASE e.id # NoTask
    BY <1>3, <1>4, <2>1 DEF GoodEntry, StagesGrow, RequestOf
  <2>2. CASE e.id = NoTask
    BY <1>1, <1>2, <1>4, <2>2 DEF GoodEntry, StagesGrow
  <2> QED  BY <2>1, <2>2
<1> QED  BY <1>1, <1>3, <1>4

\* Moving a deferred task.
LEMMA PopQueues ==
    ASSUME request \in Loads, QueuesGood, QueuesApart, PopDeferred, StagesGrow
    PROVE  QueuesGood' /\ QueuesApart' /\ IdsOf(Queued)' = IdsOf(Queued)
<1>1. CASE queue_tasks_deferred = <<>>
  <2>1. queue_tasks' = queue_tasks /\ queue_tasks_deferred' = queue_tasks_deferred
    BY <1>1 DEF PopDeferred, tasks_vars
  <2>2. Queued' = Queued
    BY <2>1 DEF Queued
  <2>3. QueuesGood'
    BY <2>1, <2>2, GoodGrows DEF QueuesGood, Entries, Ids
  <2> QED  BY <2>1, <2>2, <2>3 DEF QueuesApart, IdsOf
<1>2. CASE queue_tasks_deferred # <<>>
  <2> DEFINE q == queue_tasks
             d == queue_tasks_deferred
             e == Head(d)
             f == [e EXCEPT !.again = TRUE]
  <2>1. queue_tasks' = Append(q, f) /\ queue_tasks_deferred' = Tail(d)
    BY <1>2 DEF PopDeferred
  <2>2. q \in Seq(Entries) /\ d \in Seq(Entries) /\ Apart(q) /\ Apart(d)
        /\ IdsOf(Elements(q)) \cap IdsOf(Elements(d)) = {}
    BY DEF QueuesGood, QueuesApart
  <2>3. /\ e \in Entries /\ Tail(d) \in Seq(Entries)
        /\ Elements(d) = Elements(Tail(d)) \cup {e}
        /\ Apart(Tail(d)) /\ e.id \notin IdsOf(Elements(Tail(d)))
    BY <1>2, <2>2, Shortened
  <2>4. f \in Entries /\ f.id = e.id /\ f.type = e.type /\ f.id_target = e.id_target
    BY <2>3 DEF Entries
  <2>5. e.id \notin IdsOf(Elements(q))
    BY <2>2, <2>3 DEF IdsOf
  <2> HIDE DEF e, f, q, d
  <2>6. /\ Append(q, f) \in Seq(Entries) /\ Elements(Append(q, f)) = Elements(q) \cup {f}
        /\ Apart(Append(q, f))
    BY <2>2, <2>4, <2>5, Appended
  <2>7. Queued = Elements(q) \cup Elements(d)
        /\ Queued' = (Elements(q) \cup {f}) \cup Elements(Tail(d))
    BY <2>1, <2>6 DEF Queued, q, d
  <2>8. IdsOf(Queued)' = IdsOf(Queued)
    BY <2>3, <2>4, <2>7 DEF IdsOf
  <2>9. GoodEntry(e)
    BY <2>3, <2>7 DEF QueuesGood
  <2>10. GoodEntry(f)
    BY <2>4, <2>9 DEF GoodEntry
  <2>11. QueuesGood'
    <3>1. \A x \in Queued' : GoodEntry(x)
      BY <2>3, <2>7, <2>10 DEF QueuesGood
    <3>2. \A x \in Queued' : GoodEntry(x)'
      BY <3>1, GoodGrows
    <3> QED  BY <2>1, <2>3, <2>6, <3>2 DEF QueuesGood, Entries, Ids
  <2>12. IdsOf(Elements(Append(q, f))) \cap IdsOf(Elements(Tail(d))) = {}
    BY <2>2, <2>3, <2>4, <2>6 DEF IdsOf
  <2> QED  BY <2>1, <2>3, <2>6, <2>8, <2>11, <2>12 DEF QueuesApart
<1> QED  BY <1>1, <1>2

\* Posting, if nothing is cancelled twice.
LEMMA PostQueues ==
    ASSUME request \in Loads, QueuesGood, QueuesApart, StagesGrow,
           NEW tasks \in Seq(Entries), NEW front \in BOOLEAN, Post(tasks, front),
           \A e \in Elements(tasks) : /\ GoodEntry(e)'
                                      /\ e.id_target # NoTask => \A x \in Queued : x.id_target # e.id_target,
           Apart(tasks), IdsOf(Elements(tasks)) \cap IdsOf(Queued) = {}
    PROVE  QueuesGood' /\ QueuesApart' /\ IdsOf(Queued)' = IdsOf(Queued) \cup IdsOf(Elements(tasks))
<1> DEFINE q == queue_tasks
           d == queue_tasks_deferred
           targets == {tasks[i].id_target : i \in DOMAIN tasks} \ {NoTask}
<1>1. q \in Seq(Entries) /\ d \in Seq(Entries) /\ Apart(q) /\ Apart(d)
      /\ IdsOf(Elements(q)) \cap IdsOf(Elements(d)) = {}
  BY DEF QueuesGood, QueuesApart
<1>2. Queued = Elements(q) \cup Elements(d)
  BY DEF Queued
<1>3. targets = {e.id_target : e \in Elements(tasks)} \ {NoTask}
  BY LenProperties DEF Elements
<1>4. /\ queue_tasks' = IF front THEN Reverse(tasks) \o WithoutTargets(q, targets)
                        ELSE WithoutTargets(q, targets) \o tasks
      /\ queue_tasks_deferred' = WithoutTargets(d, targets)
  BY DEF Post
<1> HIDE DEF q, d, targets
<1>5. \A x \in Elements(q) \cup Elements(d) : x.id_target \notin targets
  BY <1>2, <1>3
<1>6. WithoutTargets(q, targets) = q
  <2>1. \A i \in 1 .. Len(q) : q[i] \notin {e \in ToSet(q) : e.id_target \in targets}
    BY <1>5 DEF Elements
  <2> QED  BY <1>1, <2>1, WithoutThins DEF WithoutTargets
<1>7. WithoutTargets(d, targets) = d
  <2>1. \A i \in 1 .. Len(d) : d[i] \notin {e \in ToSet(d) : e.id_target \in targets}
    BY <1>5 DEF Elements
  <2> QED  BY <1>1, <2>1, WithoutThins DEF WithoutTargets
<1>8. /\ Reverse(tasks) \in Seq(Entries) /\ Elements(Reverse(tasks)) = Elements(tasks)
      /\ Apart(Reverse(tasks))
  BY Reversed
<1>9. /\ IdsOf(Elements(tasks)) \cap IdsOf(Elements(q)) = {}
      /\ IdsOf(Elements(tasks)) \cap IdsOf(Elements(d)) = {}
  BY <1>2 DEF IdsOf
<1>10. /\ queue_tasks' \in Seq(Entries) /\ Apart(queue_tasks')
       /\ Elements(queue_tasks') = Elements(q) \cup Elements(tasks)
  <2>1. CASE front
    BY <1>1, <1>4, <1>6, <1>8, <1>9, <2>1, Joined
  <2>2. CASE ~ front
    BY <1>1, <1>4, <1>6, <1>9, <2>2, Joined
  <2> QED  BY <2>1, <2>2
<1>11. Queued' = Queued \cup Elements(tasks)
  BY <1>2, <1>4, <1>7, <1>10 DEF Queued
<1>12. IdsOf(Queued)' = IdsOf(Queued) \cup IdsOf(Elements(tasks))
  BY <1>11 DEF IdsOf
<1>13. QueuesGood'
  <2>1. \A x \in Queued' : GoodEntry(x)'
    BY <1>11, GoodGrows DEF QueuesGood
  <2> QED  BY <1>1, <1>4, <1>7, <1>10, <2>1 DEF QueuesGood, Entries, Ids
<1>14. IdsOf(Elements(queue_tasks')) \cap IdsOf(Elements(d)) = {}
  BY <1>1, <1>9, <1>10 DEF IdsOf
<1> QED  BY <1>1, <1>4, <1>7, <1>10, <1>12, <1>13, <1>14 DEF QueuesApart

-----------------------------------------------------------------------------
(* What a step is for the results *)

\* It may move tasks, or drop one that nobody waits for.
Quiet ==
    /\ UNCHANGED <<results_vars, stage, request, n_finished, heard, answered>>
    /\ failures' = 0 => failures = 0
    /\ Early' \subseteq Early /\ Owned' \subseteq Owned
    /\ \A t \in Owned \ Owned' : ~ Waits(t[1])
    /\ \A p \in Progress' : \/ p \in Progress
                            \/ p[1] \in Early /\ p[2] = 0
                            \/ ~ Streaming(p[1])

\* It may send the last result of a task, and give up the task; or an error
\* for a task that was given up.
Answers(r) ==
    /\ Send(r) /\ UNCHANGED <<stage, request, n_finished, heard, answered, failures>>
    /\ r \in Results /\ r.kind # "partial" /\ Posted(r.id)
    /\ r.id \in Owned \/ (r.kind = "error" /\ failures > 0)
    /\ Early' \subseteq Early /\ Owned' = Owned \ {r.id} /\ Progress' \subseteq Progress
    /\ r.kind = "final" /\ Streaming(r.id) => AllComing(r.id, r.n)

\* It may send another partial result.
Streams(t, m) ==
    /\ Send(Partial(t, m + 1))
    /\ UNCHANGED <<stage, request, n_finished, heard, answered, failures>>
    /\ Posted(t) /\ RequestOf(t).kind = "stream" /\ <<t, m>> \in Progress
    /\ m \in Nat /\ m + 1 <= MaxTokens
    /\ Early' = Early /\ t \notin Early /\ Owned' = Owned
    /\ \A p \in Progress' : (p \in Progress /\ p[1] # t) \/ p = <<t, m + 1>>

\* What a slot works for is posted, and is nowhere else.
LEMMA SlotFacts ==
    ASSUME TasksInv, request \in Loads, NEW s \in Slots
    PROVE  /\ Processing(s) <=> s \notin Idle
           /\ Processing(s) <=> slots[s].state # "idle"
           /\ slots[s].id_task # NoTask \/ Processing(s) =>
                /\ Posted(slots[s].id_task) /\ slots[s].id_task \in Tasks
                /\ slots[s].id_task \in Clients \X Nat /\ slots[s].id_task # NoTask
                /\ \A r \in Slots : slots[r].id_task = slots[s].id_task => r = s
           /\ slots[s].id_task \notin Early
           /\ Processing(s) => /\ slots[s].id_task \in Busy /\ slots[s].id_task \in Owned
                               /\ <<slots[s].id_task, slots[s].n_sent>> \in Progress
           /\ ~ Processing(s) => slots[s].id_task \notin Owned \/ slots[s].id_task = NoTask
<1>1. /\ Processing(s) <=> s \notin Idle
      /\ Processing(s) <=> slots[s].state # "idle"
  BY DEF Processing, Idle
<1>2. slots[s].id_task # NoTask \/ Processing(s) => Posted(slots[s].id_task) /\ slots[s].id_task # NoTask
  BY <1>1 DEF TasksInv, SlotsGood
<1>3. slots[s].id_task # NoTask =>
         \A r \in Slots : slots[r].id_task = slots[s].id_task => r = s
  BY DEF TasksInv, SlotsApart
<1>4. slots[s].id_task \notin Early
  BY DEF TasksInv, SlotsApart
<1>5. Posted(slots[s].id_task) => slots[s].id_task \in Tasks /\ slots[s].id_task \in Clients \X Nat
  BY TaskParts DEF Posted
<1>6. Processing(s) => /\ slots[s].id_task \in Busy /\ slots[s].id_task \in Owned
                       /\ <<slots[s].id_task, slots[s].n_sent>> \in Progress
  BY <1>1 DEF Busy, Owned, Progress
<1>7. ASSUME ~ Processing(s), slots[s].id_task \in Owned, slots[s].id_task # NoTask PROVE FALSE
  <2>1. PICK r \in Slots \ Idle : slots[r].id_task = slots[s].id_task
    BY <1>4, <1>7 DEF Owned, Busy
  <2>2. r = s
    BY <1>3, <1>7, <2>1
  <2> QED  BY <1>1, <1>7, <2>1, <2>2
<1> QED  BY <1>1, <1>2, <1>3, <1>4, <1>5, <1>6, <1>7

\* A step that leaves the tasks where they are.
LEMMA SlotsStay ==
    ASSUME TasksInv, request \in Loads, StagesGrow,
           IdsOf(Queued)' = IdsOf(Queued), IdsOf(Taken)' = IdsOf(Taken),
           \A s \in Slots : /\ slots'[s].id_task = slots[s].id_task
                            /\ slots'[s].state = "idle" <=> slots[s].state = "idle"
    PROVE  SlotsGood' /\ SlotsApart' /\ Early' = Early /\ Owned' = Owned
<1>1. Early' = Early
  BY DEF Early, IdsOf
<1>2. Idle' = Idle
  BY DEF Idle, Processing
<1>3. Owned' = Owned
  BY <1>1, <1>2 DEF Owned, Busy
<1>4. SlotsGood'
  <2>1. \A t \in {slots'[s].id_task : s \in Slots} \ {NoTask} : Posted(t)
    BY DEF TasksInv, SlotsGood
  <2>2. \A t \in {slots'[s].id_task : s \in Slots} \ {NoTask} : Posted(t)'
    BY <2>1, GoodGrows
  <2>3. \A s \in Slots : slots'[s].state # "idle" => slots'[s].id_task # NoTask
    BY DEF TasksInv, SlotsGood
  <2> QED  BY <2>2, <2>3 DEF SlotsGood
<1>5. SlotsApart'
  BY <1>1 DEF TasksInv, SlotsApart
<1> QED  BY <1>1, <1>3, <1>4, <1>5

SlotRecords == [state : SlotStates, id_task : Ids, left : Nat,
                n_decoded : 0 .. MaxTokens, n_sent : 0 .. MaxTokens]

\* Releasing a slot.
LEMMA Releases ==
    ASSUME IInv, NEW s \in Slots, Processing(s), Release(s), StagesGrow,
           HandGood', IdsOf(Taken) = {}, IdsOf(Taken)' = {}
    PROVE  /\ TasksInv' /\ slots' \in [Slots -> SlotRecords]
           /\ slots'[s].state = "idle" /\ slots'[s].n_decoded = 0 /\ slots'[s].n_sent = 0
           /\ \A r \in Slots \ {s} : slots'[r] = slots[r]
           /\ Early' = Early /\ Owned' = Owned \ {slots[s].id_task} /\ Progress' \subseteq Progress
<1> DEFINE id == slots[s].id_task
<1>0. /\ TasksInv /\ request \in Loads /\ slots \in [Slots -> SlotRecords] /\ MaxTokens \in Nat
  BY ServerAssumption DEF IInv, LoopInv, LoopTypes, ClientTypes, SlotRecords
<1>1. /\ slots' = [slots EXCEPT ![s] = Released(s)] /\ PopDeferred
      /\ Released(s) = [state |-> "idle", id_task |-> id, left |-> 0, n_decoded |-> 0, n_sent |-> 0]
  BY DEF Release, Released, FreeSlot
<1>2. /\ slots'[s] = Released(s) /\ \A r \in Slots \ {s} : slots'[r] = slots[r]
  BY <1>0, <1>1
<1>3. Released(s) \in SlotRecords
  BY <1>0, <1>1 DEF SlotRecords, SlotStates
<1>4. slots' \in [Slots -> SlotRecords]
  BY <1>0, <1>1, <1>3
<1>5. QueuesGood' /\ QueuesApart' /\ IdsOf(Queued)' = IdsOf(Queued)
  BY <1>0, <1>1, PopQueues DEF TasksInv
<1>6. Early' = Early
  BY <1>5 DEF Early, IdsOf
<1>7. \A r \in Slots : slots'[r].id_task = slots[r].id_task
  BY <1>1, <1>2
<1>8. SlotsGood'
  <2>1. \A t \in {slots'[r].id_task : r \in Slots} \ {NoTask} : Posted(t)'
    BY <1>0, <1>7, GoodGrows DEF TasksInv, SlotsGood
  <2>2. \A r \in Slots : slots'[r].state # "idle" => slots'[r].id_task # NoTask
    BY <1>0, <1>1, <1>2 DEF TasksInv, SlotsGood
  <2> QED  BY <2>1, <2>2 DEF SlotsGood
<1>9. SlotsApart'
  BY <1>0, <1>5, <1>6, <1>7 DEF TasksInv, SlotsApart
<1>10. Idle' = Idle \cup {s} /\ s \notin Idle
  BY <1>1, <1>2 DEF Idle, Processing
<1>11. \A r \in Slots : slots[r].id_task = id => r = s
  BY <1>0, SlotFacts
<1>12. Progress' \subseteq Progress
  BY <1>2, <1>10 DEF Progress
<1>13. Busy' = Busy \ {id}
  BY <1>2, <1>10, <1>11 DEF Busy
<1>14. id \notin Early
  BY <1>0, SlotFacts
<1>15. Owned' = Owned \ {id}
  BY <1>6, <1>13, <1>14 DEF Owned
<1> HIDE DEF id
<1> QED  BY <1>1, <1>2, <1>4, <1>5, <1>6, <1>8, <1>9, <1>12, <1>15 DEF TasksInv, id

-----------------------------------------------------------------------------
(* The steps of the main loop *)

StepOK == /\ LoopInv' /\ TasksInv'
          /\ \/ Quiet
             \/ \E r \in Results : Answers(r)
             \/ \E t \in Tasks, m \in Nat : Streams(t, m)

\* The rest of the state.
Frame == UNCHANGED <<stage, request, n_finished, heard, answered, closed>>

\* The main loop takes no request back.
LEMMA FrameGrows ==
    ASSUME Frame
    PROVE  StagesGrow
BY DEF Frame, StagesGrow

\* The first task of the queue comes to hand; for the results nothing changes.
LEMMA TakeTaskOK ==
    ASSUME IInv, TakeTask
    PROVE  StepOK
<1> DEFINE q == queue_tasks
           d == queue_tasks_deferred
           h == Head(q)
<1>1. /\ main = "tasks" /\ q # <<>> /\ main' = "process" /\ hand' = h
      /\ queue_tasks' = Tail(q) /\ queue_tasks_deferred' = d
      /\ UNCHANGED <<waiting_task_ids, queue_results, slots, turn, batched, batch, n_tokens,
                     stage, request, n_finished, closed, heard, answered, failures, refusals,
                     misfired>>
  BY DEF TakeTask, results_vars, client_vars, history
<1>2. Frame /\ StagesGrow
  BY <1>1, FrameGrows DEF Frame
<1>3. TasksInv /\ LoopInv /\ request \in Loads
  BY DEF IInv, ClientTypes
<1>4. LoopInv'
  BY <1>1, <1>3 DEF LoopInv, LoopTypes, LoopKnows
<1>5. q \in Seq(Entries) /\ d \in Seq(Entries) /\ Apart(q) /\ Apart(d)
      /\ IdsOf(Elements(q)) \cap IdsOf(Elements(d)) = {}
  BY <1>3 DEF TasksInv, QueuesGood, QueuesApart
<1>6. /\ h \in Entries /\ Tail(q) \in Seq(Entries)
      /\ Elements(q) = Elements(Tail(q)) \cup {h}
      /\ Apart(Tail(q)) /\ h.id \notin IdsOf(Elements(Tail(q)))
  BY <1>1, <1>5, Shortened
<1>7. /\ Taken = {} /\ Taken' = {h}
      /\ Queued = Elements(q) \cup Elements(d)
      /\ Queued' = Elements(Tail(q)) \cup Elements(d)
  BY <1>1 DEF Taken, Queued
<1> HIDE DEF q, d, h
<1>8. Early' = Early
  <2>1. Queued' \cup Taken' = Queued \cup Taken
    BY <1>6, <1>7
  <2> QED  BY <2>1 DEF Early, IdsOf
<1>9. \A e \in Queued' \cup Taken' : GoodEntry(e)'
  BY <1>2, <1>3, <1>6, <1>7, GoodGrows DEF TasksInv, QueuesGood
<1>10. QueuesGood' /\ HandGood'
  BY <1>1, <1>5, <1>6, <1>9 DEF QueuesGood, HandGood, Entries, Ids, d
<1>11. QueuesApart'
  <2>1. IdsOf(Elements(Tail(q))) \cap IdsOf(Elements(d)) = {}
    BY <1>5, <1>6 DEF IdsOf
  <2> QED  BY <1>1, <1>5, <1>6, <2>1 DEF QueuesApart
<1>12. IdsOf(Queued') \cap IdsOf(Taken') = {}
  <2>1. h.id \notin IdsOf(Elements(d))
    BY <1>5, <1>6 DEF IdsOf
  <2>2. \A e \in Queued' : e.id = h.id => e.id = NoTask
    BY <1>6, <1>7, <2>1 DEF IdsOf
  <2> QED  BY <1>7, <2>2 DEF IdsOf
<1>13. SlotsGood' /\ SlotsApart'
  <2>1. \A t : Posted(t) => Posted(t)'
    BY <1>2, <1>3, GoodGrows
  <2>2. SlotsGood'
    BY <1>1, <1>3, <2>1 DEF TasksInv, SlotsGood
  <2>3. SlotsApart'
    BY <1>1, <1>3, <1>8, <1>12 DEF TasksInv, SlotsApart, IdsOf
  <2> QED  BY <2>2, <2>3
<1>14. Progress' = Progress /\ Owned' = Owned
  BY <1>1, <1>8 DEF Progress, Owned, Busy, Idle, Processing
<1>15. Quiet
  BY <1>1, <1>8, <1>14 DEF Quiet, results_vars
<1> QED  BY <1>4, <1>10, <1>11, <1>13, <1>15 DEF StepOK, TasksInv

\* The task in hand.
LEMMA HandFacts ==
    ASSUME IInv, main = "process"
    PROVE  /\ Taken = {hand} /\ hand \in Entries /\ GoodEntry(hand) /\ batch = {}
           /\ hand.id \notin IdsOf(Queued)
           /\ IF hand.type \in Kinds
              THEN /\ hand.id # NoTask /\ Posted(hand.id) /\ hand.id \in Early
                   /\ hand.id \in Tasks /\ hand.id \in Clients \X Nat
                   /\ hand.type = RequestOf(hand.id).kind
                   /\ IdsOf(Taken) = {hand.id}
              ELSE /\ IdsOf(Taken) = {}
                   /\ hand.type = "cancel" => /\ hand.id_target \in Tasks
                                              /\ stage[hand.id_target[1]] = "done"
<1>1. TasksInv /\ LoopInv /\ request \in Loads
  BY DEF IInv, ClientTypes
<1>2. Taken = {hand} /\ GoodEntry(hand) /\ hand \in Entries /\ batch = {}
  BY <1>1 DEF Taken, TasksInv, HandGood, GoodEntry, LoopInv, LoopKnows
<1>3. hand.id \notin IdsOf(Queued)
  BY <1>1, <1>2 DEF TasksInv, SlotsApart, IdsOf
<1>4. ASSUME hand.id # NoTask
      PROVE  /\ Posted(hand.id) /\ hand.id \in Early /\ hand.id \in Tasks
             /\ hand.id \in Clients \X Nat /\ hand.type = RequestOf(hand.id).kind
             /\ hand.type \in Kinds /\ IdsOf(Taken) = {hand.id}
  <2>1. Posted(hand.id) /\ hand.type = RequestOf(hand.id).kind /\ hand.id \in Tasks
    BY <1>2, <1>4 DEF GoodEntry, Posted
  <2>2. hand.id[1] \in Clients /\ hand.id \in Clients \X Nat
    BY <1>1, <2>1, TaskParts
  <2>3. RequestOf(hand.id).kind \in Kinds
    BY <1>1, <2>2, ServerAssumption DEF RequestOf
  <2>4. IdsOf(Taken) = {hand.id}
    BY <1>2, <1>4 DEF IdsOf
  <2>5. hand.id \in Early
    BY <1>2, <1>4 DEF Early, IdsOf
  <2> QED  BY <2>1, <2>2, <2>3, <2>4, <2>5
<1>5. ASSUME hand.id = NoTask
      PROVE  /\ hand.type \notin Kinds /\ IdsOf(Taken) = {}
             /\ hand.type = "cancel" => /\ hand.id_target \in Tasks
                                        /\ stage[hand.id_target[1]] = "done"
  <2>1. /\ hand.type \in {"next", "cancel"}
        /\ hand.type = "cancel" => /\ hand.id_target \in Tasks
                                   /\ stage[hand.id_target[1]] = "done"
    BY <1>2, <1>5 DEF GoodEntry
  <2>2. hand.type \notin Kinds
    BY <2>1 DEF Kinds
  <2>3. IdsOf(Taken) = {}
    BY <1>2, <1>5 DEF IdsOf
  <2> QED  BY <2>1, <2>2, <2>3
<1> QED  BY <1>2, <1>3, <1>4, <1>5

\* The task in hand has gone to a queue or to a slot, or is done.
LEMMA HandEmpty ==
    ASSUME Processed, main = "process"
    PROVE  /\ Frame /\ StagesGrow /\ main' = "tasks" /\ hand' = NoTask
           /\ UNCHANGED <<turn, batched, batch, n_tokens, failures>>
           /\ Taken' = {} /\ IdsOf(Taken)' = {} /\ HandGood'
<1>1. Frame /\ main' = "tasks" /\ hand' = NoTask /\ UNCHANGED <<turn, batched, batch, n_tokens, failures>>
  BY DEF Processed, Frame, client_vars
<1>2. Taken' = {}
  BY <1>1 DEF Taken
<1> QED  BY <1>1, <1>2, FrameGrows DEF HandGood, IdsOf

\* A task goes from the hand to the deferred ones.
LEMMA DeferTaskOK ==
    ASSUME IInv, DeferTask
    PROVE  StepOK
<1> DEFINE q == queue_tasks
           d == queue_tasks_deferred
           task == [hand EXCEPT !.again = FALSE]
<1>1. /\ main = "process" /\ queue_tasks' = q /\ queue_tasks_deferred' = Append(d, task)
      /\ Processed /\ hand.type \in Kinds
      /\ UNCHANGED <<waiting_task_ids, queue_results, slots, refusals>>
      /\ misfired' = (misfired \/ (hand.again /\ RequestOf(hand.id).slot # AnySlot))
  BY DEF DeferTask, Defer, results_vars
<1>2. /\ Frame /\ StagesGrow /\ main' = "tasks" /\ hand' = NoTask
      /\ UNCHANGED <<turn, batched, batch, n_tokens, failures>>
      /\ Taken' = {} /\ IdsOf(Taken)' = {} /\ HandGood'
  BY <1>1, HandEmpty
<1>3. TasksInv /\ LoopInv /\ request \in Loads
  BY DEF IInv, ClientTypes
<1>4. /\ Taken = {hand} /\ hand \in Entries /\ GoodEntry(hand) /\ batch = {}
      /\ hand.id \notin IdsOf(Queued) /\ hand.id # NoTask
  BY <1>1, HandFacts
<1>5. misfired' \in BOOLEAN
  BY <1>1
<1>6. LoopInv'
  BY <1>1, <1>2, <1>3, <1>4, <1>5 DEF LoopInv, LoopTypes, LoopKnows
<1>7. /\ task \in Entries /\ task.id = hand.id /\ task.type = hand.type
      /\ task.id_target = hand.id_target
  BY <1>4 DEF Entries
<1>8. q \in Seq(Entries) /\ d \in Seq(Entries) /\ Apart(q) /\ Apart(d)
      /\ IdsOf(Elements(q)) \cap IdsOf(Elements(d)) = {}
      /\ Queued = Elements(q) \cup Elements(d)
  BY <1>3 DEF TasksInv, QueuesGood, QueuesApart, Queued
<1> HIDE DEF q, d, task
<1>9. task.id \notin IdsOf(Elements(d)) /\ task.id \notin IdsOf(Elements(q))
  BY <1>4, <1>7, <1>8 DEF IdsOf
<1>10. /\ Append(d, task) \in Seq(Entries) /\ Apart(Append(d, task))
       /\ Elements(Append(d, task)) = Elements(d) \cup {task}
  BY <1>7, <1>8, <1>9, Appended
<1>11. Queued' = Queued \cup {task}
  BY <1>1, <1>8, <1>10 DEF Queued
<1>12. GoodEntry(task)
  BY <1>4, <1>7 DEF GoodEntry
<1>13. QueuesGood'
  <2>1. \A x \in Queued' : GoodEntry(x)'
    BY <1>2, <1>3, <1>11, <1>12, GoodGrows DEF TasksInv, QueuesGood
  <2> QED  BY <1>1, <1>8, <1>10, <2>1 DEF QueuesGood, Entries, Ids
<1>14. QueuesApart'
  <2>1. IdsOf(Elements(q)) \cap IdsOf(Elements(Append(d, task))) = {}
    BY <1>8, <1>9, <1>10 DEF IdsOf
  <2> QED  BY <1>1, <1>8, <1>10, <2>1 DEF QueuesApart
<1>15. Early' = Early
  BY <1>2, <1>4, <1>7, <1>11 DEF Early, IdsOf
<1>16. SlotsGood' /\ SlotsApart'
  <2>1. \A t : Posted(t) => Posted(t)'
    BY <1>2, <1>3, GoodGrows
  <2>2. SlotsGood'
    BY <1>1, <1>3, <2>1 DEF TasksInv, SlotsGood
  <2>3. SlotsApart'
    BY <1>1, <1>2, <1>3, <1>15 DEF TasksInv, SlotsApart, IdsOf
  <2> QED  BY <2>2, <2>3
<1>17. Progress' = Progress /\ Owned' = Owned
  BY <1>1, <1>15 DEF Progress, Owned, Busy, Idle, Processing
<1>18. Quiet
  BY <1>1, <1>2, <1>15, <1>17 DEF Quiet, results_vars, Frame
<1> QED  BY <1>2, <1>6, <1>13, <1>14, <1>16, <1>18 DEF StepOK, TasksInv

\* The queues are as they were and the hand is empty.
LEMMA QueuesStay ==
    ASSUME request \in Loads, TasksInv, StagesGrow, UNCHANGED tasks_vars
    PROVE  QueuesGood' /\ QueuesApart' /\ Queued' = Queued
<1>1. queue_tasks' = queue_tasks /\ queue_tasks_deferred' = queue_tasks_deferred
  BY DEF tasks_vars
<1>2. Queued' = Queued
  BY <1>1 DEF Queued
<1>3. QueuesGood'
  BY <1>1, <1>2, GoodGrows DEF TasksInv, QueuesGood, Entries, Ids
<1> QED  BY <1>1, <1>2, <1>3 DEF TasksInv, QueuesApart

\* NEXT_RESPONSE is dropped; it is no task of a client.
LEMMA NextResponseOK ==
    ASSUME IInv, main = "process", hand.type \notin Kinds, Processed,
           UNCHANGED <<slots, tasks_vars, results_vars, refusals, misfired>>
    PROVE  StepOK
<1>1. /\ Frame /\ StagesGrow /\ main' = "tasks" /\ hand' = NoTask
      /\ UNCHANGED <<turn, batched, batch, n_tokens, failures>>
      /\ Taken' = {} /\ IdsOf(Taken)' = {} /\ HandGood'
  BY HandEmpty
<1>2. TasksInv /\ LoopInv /\ request \in Loads
  BY DEF IInv, ClientTypes
<1>3. IdsOf(Taken) = {} /\ batch = {}
  BY HandFacts
<1>4. LoopInv'
  BY <1>1, <1>2, <1>3 DEF LoopInv, LoopTypes, LoopKnows
<1>5. QueuesGood' /\ QueuesApart' /\ Queued' = Queued
  BY <1>1, <1>2, QueuesStay
<1>6. SlotsGood' /\ SlotsApart' /\ Early' = Early /\ Owned' = Owned
  <2>1. IdsOf(Queued)' = IdsOf(Queued)
    BY <1>5 DEF IdsOf
  <2> QED  BY <1>1, <1>2, <1>3, <2>1, SlotsStay
<1>7. Progress' = Progress
  BY DEF Progress, Idle, Processing
<1>8. Quiet
  BY <1>1, <1>6, <1>7 DEF Quiet, results_vars, Frame
<1> QED  BY <1>1, <1>4, <1>5, <1>6, <1>8 DEF StepOK, TasksInv

\* A cancellation releases at most the slot of its task, whose client is done.
LEMMA CancelSlotOK ==
    ASSUME IInv, CancelSlot
    PROVE  StepOK
<1> DEFINE working == {s \in Slots \ Idle : slots[s].id_task = hand.id_target}
<1>1. /\ main = "process" /\ hand.type = "cancel" /\ Processed
      /\ UNCHANGED <<results_vars, refusals, misfired>>
      /\ \/ working = {} /\ UNCHANGED <<slots, tasks_vars>>
         \/ \E s \in working : Release(s)
  BY DEF CancelSlot
<1>2. hand.type \notin Kinds
  BY <1>1 DEF Kinds
<1>3. CASE working = {} /\ UNCHANGED <<slots, tasks_vars>>
  BY <1>1, <1>2, <1>3, NextResponseOK
<1>4. CASE \E s \in working : Release(s)
  <2>1. PICK s \in Slots : s \notin Idle /\ slots[s].id_task = hand.id_target /\ Release(s)
    BY <1>4
  <2>2. /\ Frame /\ StagesGrow /\ main' = "tasks" /\ hand' = NoTask
        /\ UNCHANGED <<turn, batched, batch, n_tokens, failures>>
        /\ Taken' = {} /\ IdsOf(Taken)' = {} /\ HandGood'
    BY <1>1, HandEmpty
  <2>3. TasksInv /\ LoopInv /\ request \in Loads
    BY DEF IInv, ClientTypes
  <2>4. IdsOf(Taken) = {} /\ batch = {} /\ stage[hand.id_target[1]] = "done"
    BY <1>1, <1>2, HandFacts
  <2>5. Processing(s)
    BY <2>1, <2>3, SlotFacts
  <2>6. /\ TasksInv' /\ slots' \in [Slots -> SlotRecords]
        /\ slots'[s].state = "idle" /\ slots'[s].n_decoded = 0 /\ slots'[s].n_sent = 0
        /\ \A r \in Slots \ {s} : slots'[r] = slots[r]
        /\ Early' = Early /\ Owned' = Owned \ {slots[s].id_task} /\ Progress' \subseteq Progress
    BY <2>1, <2>2, <2>4, <2>5, Releases
  <2>7. LoopInv'
    <3>1. LoopTypes'
      BY <1>1, <2>2, <2>3, <2>6 DEF LoopInv, LoopTypes, SlotRecords
    <3>2. LoopKnows'
      BY <1>1, <2>2, <2>3, <2>4, <2>6 DEF LoopInv, LoopKnows
    <3> QED  BY <3>1, <3>2 DEF LoopInv
  <2>8. Quiet
    <3>1. \A t \in Owned \ Owned' : ~ Waits(t[1])
      BY <2>1, <2>4, <2>6 DEF Waits
    <3> QED  BY <1>1, <2>2, <2>6, <3>1 DEF Quiet, results_vars, Frame
  <2> QED  BY <2>6, <2>7, <2>8 DEF StepOK
<1> QED  BY <1>1, <1>3, <1>4

\* The task in hand is given to an idle slot, or answered.
LEMMA HandedOver ==
    ASSUME IInv, main = "process", hand.type \in Kinds, Processed, UNCHANGED tasks_vars
    PROVE  /\ QueuesGood' /\ QueuesApart' /\ HandGood'
           /\ Queued' = Queued /\ Taken' = {} /\ Early' = Early \ {hand.id}
<1>1. /\ Frame /\ StagesGrow /\ main' = "tasks" /\ hand' = NoTask
      /\ Taken' = {} /\ IdsOf(Taken)' = {} /\ HandGood'
  BY HandEmpty
<1>2. TasksInv /\ request \in Loads
  BY DEF IInv, ClientTypes
<1>3. Taken = {hand} /\ hand.id \notin IdsOf(Queued)
  BY HandFacts
<1>4. QueuesGood' /\ QueuesApart' /\ Queued' = Queued
  BY <1>1, <1>2, QueuesStay
<1>5. Early' = Early \ {hand.id}
  BY <1>1, <1>3, <1>4 DEF Early, IdsOf
<1> QED  BY <1>1, <1>4, <1>5

\* A task goes from the hand to a slot, or is refused with an error.
LEMMA LaunchSlotOK ==
    ASSUME IInv, LaunchSlot
    PROVE  StepOK
<1> DEFINE id == hand.id
           Free(state) == [state |-> state, id_task |-> id, left |-> 0, n_decoded |-> 0, n_sent |-> 0]
<1>1. /\ main = "process" /\ Processed /\ hand.type \in Kinds
      /\ UNCHANGED tasks_vars
  BY DEF LaunchSlot, Kinds
<1>2. PICK s \in Idle :
         \/ /\ slots' = [slots EXCEPT ![s] = Free("started")]
            /\ UNCHANGED <<waiting_task_ids, queue_results, refusals, misfired>>
         \/ /\ refusals < MaxRefusals /\ refusals' = refusals + 1
            /\ slots' = [slots EXCEPT ![s] = Free("idle")]
            /\ Send(Error(id, 0))
            /\ misfired' = (misfired \/ hand.again)
  <2>1. SlotsFor(id) \subseteq Idle
    BY DEF SlotsFor
  <2>2. /\ Free("started") = [FreeSlot EXCEPT !.state = "started", !.id_task = id]
        /\ Free("idle") = [FreeSlot EXCEPT !.id_task = id]
    <3> HIDE DEF id
    <3>1. Free("started") = [FreeSlot EXCEPT !.state = "started", !.id_task = id]
      <4> DEFINE half == [state |-> "started", id_task |-> NoTask, left |-> 0,
                          n_decoded |-> 0, n_sent |-> 0]
      <4>1. [FreeSlot EXCEPT !.state = "started", !.id_task = id]
               = [[FreeSlot EXCEPT !.state = "started"] EXCEPT !.id_task = id]
        BY SMT
      <4>2. [FreeSlot EXCEPT !.state = "started"] = half
        BY SMT DEF FreeSlot
      <4>3. [half EXCEPT !.id_task = id] = Free("started")
        BY SMT
      <4> HIDE DEF half, Free
      <4> QED  BY <4>1, <4>2, <4>3
    <3>2. Free("idle") = [FreeSlot EXCEPT !.id_task = id]
      BY SMT DEF FreeSlot
    <3> QED  BY <3>1, <3>2
  <2>3. \E s \in SlotsFor(id) :
         \/ /\ slots' = [slots EXCEPT ![s] = [FreeSlot EXCEPT !.state = "started", !.id_task = id]]
            /\ UNCHANGED <<waiting_task_ids, queue_results, refusals, misfired>>
         \/ /\ refusals < MaxRefusals /\ refusals' = refusals + 1
            /\ slots' = [slots EXCEPT ![s] = [FreeSlot EXCEPT !.id_task = id]]
            /\ Send(Error(id, 0))
            /\ misfired' = (misfired \/ hand.again)
    BY DEF LaunchSlot, results_vars
  <2> HIDE DEF Free
  <2> QED  BY <2>1, <2>2, <2>3, Zenon
<1>3. s \in Slots /\ slots[s].state = "idle"
  BY <1>2 DEF Idle, Processing
<1>4. /\ Frame /\ StagesGrow /\ main' = "tasks" /\ hand' = NoTask
      /\ UNCHANGED <<turn, batched, batch, n_tokens, failures>>
      /\ Taken' = {}
  BY <1>1, HandEmpty
<1>5. /\ batch = {} /\ id # NoTask /\ Posted(id) /\ id \in Early /\ id \in Tasks /\ id \in Clients \X Nat
  BY <1>1, HandFacts
<1>6. /\ QueuesGood' /\ QueuesApart' /\ HandGood'
      /\ Queued' = Queued /\ Early' = Early \ {id}
  BY <1>1, HandedOver
<1>7. TasksInv /\ LoopInv /\ request \in Loads /\ slots \in [Slots -> SlotRecords]
      /\ MaxTokens \in Nat \ {0} /\ MaxRefusals \in Nat
  BY ServerAssumption DEF IInv, ClientTypes, LoopInv, LoopTypes, SlotRecords
<1>8. /\ Free("started") \in SlotRecords /\ Free("idle") \in SlotRecords
  BY <1>5, <1>7 DEF SlotRecords, SlotStates, Ids
<1>9. PICK state \in {"started", "idle"} :
         /\ slots' = [slots EXCEPT ![s] = Free(state)]
         /\ \/ /\ state = "started"
               /\ UNCHANGED <<waiting_task_ids, queue_results, refusals, misfired>>
            \/ /\ state = "idle" /\ refusals < MaxRefusals /\ refusals' = refusals + 1
               /\ Send(Error(id, 0)) /\ misfired' = (misfired \/ hand.again)
  BY <1>2
<1>10. /\ slots' \in [Slots -> SlotRecords] /\ slots'[s] = Free(state)
       /\ \A r \in Slots \ {s} : slots'[r] = slots[r]
  BY <1>3, <1>7, <1>8, <1>9
<1>11. slots'[s].state = state /\ slots'[s].id_task = id /\ slots'[s].n_decoded = 0 /\ slots'[s].n_sent = 0
  BY <1>10
<1> HIDE DEF id, Free
<1>12. LoopInv'
  <2>1. LoopTypes'
    <3>1. refusals' \in 0 .. MaxRefusals
      BY <1>7, <1>9 DEF LoopInv, LoopTypes
    <3>2. misfired \in BOOLEAN
      BY <1>7 DEF LoopInv, LoopTypes
    <3>3. misfired' = misfired \/ misfired' = (misfired \/ hand.again)
      BY <1>9
    <3>4. misfired' \in BOOLEAN
      BY <3>2, <3>3
    <3> QED  BY <1>4, <1>7, <1>10, <3>1, <3>4 DEF LoopInv, LoopTypes, SlotRecords
  <2>2. LoopKnows'
    BY <1>4, <1>5, <1>7, <1>10, <1>11 DEF LoopInv, LoopKnows
  <2> QED  BY <2>1, <2>2 DEF LoopInv
<1>13. \A r \in Slots : slots[r].id_task # id
  BY <1>5, <1>7, SlotFacts
<1>14. SlotsGood'
  <2>1. \A t \in {slots'[r].id_task : r \in Slots} \ {NoTask} : Posted(t)
    BY <1>5, <1>7, <1>10, <1>11 DEF TasksInv, SlotsGood
  <2>2. \A t \in {slots'[r].id_task : r \in Slots} \ {NoTask} : Posted(t)'
    BY <1>4, <1>7, <2>1, GoodGrows
  <2>3. \A r \in Slots : slots'[r].state # "idle" => slots'[r].id_task # NoTask
    BY <1>5, <1>7, <1>10, <1>11 DEF TasksInv, SlotsGood
  <2> QED  BY <2>2, <2>3 DEF SlotsGood
<1>15. SlotsApart'
  <2>1. IdsOf(Queued') \cap IdsOf(Taken') = {}
    BY <1>4 DEF IdsOf
  <2>2. \A r \in Slots : slots'[r].id_task \notin Early'
    BY <1>6, <1>7, <1>10, <1>11, SlotFacts
  <2>3. \A r, k \in Slots : slots'[r].id_task = slots'[k].id_task /\ slots'[r].id_task # NoTask => r = k
    BY <1>7, <1>10, <1>11, <1>13 DEF TasksInv, SlotsApart
  <2> QED  BY <2>1, <2>2, <2>3 DEF SlotsApart, IdsOf
<1>16. TasksInv'
  BY <1>6, <1>14, <1>15 DEF TasksInv
<1>17. CASE state = "started"
  <2>1. Idle' = Idle \ {s}
    BY <1>2, <1>10, <1>11, <1>17 DEF Idle, Processing
  <2>2. Busy' = Busy \cup {id}
    BY <1>2, <1>3, <1>10, <1>11, <2>1 DEF Busy
  <2>3. Owned' = Owned
    BY <1>5, <1>6, <2>2 DEF Owned
  <2>4. \A p \in Progress' : p \in Progress \/ p = <<id, 0>>
    BY <1>10, <1>11, <2>1 DEF Progress
  <2>5. Quiet
    BY <1>4, <1>5, <1>6, <1>9, <1>17, <2>3, <2>4 DEF Quiet, results_vars, Frame
  <2> QED  BY <1>12, <1>16, <2>5 DEF StepOK
<1>18. CASE state = "idle"
  <2>1. Idle' = Idle
    BY <1>2, <1>10, <1>11, <1>18 DEF Idle, Processing
  <2>2. Busy' = Busy /\ Progress' = Progress
    BY <1>2, <1>10, <2>1 DEF Busy, Progress
  <2>3. id \notin Busy
    BY <1>13 DEF Busy
  <2>4. Owned' = Owned \ {id} /\ id \in Owned
    BY <1>5, <1>6, <2>2, <2>3 DEF Owned
  <2> DEFINE r == Error(id, 0)
  <2>5. r \in Results /\ r.id = id /\ r.kind = "error"
    BY <1>5 DEF Results, Error, Result
  <2>6. Send(r)
    BY <1>9, <1>18
  <2> HIDE DEF r
  <2>7. Answers(r)
    BY <1>4, <1>5, <1>6, <2>2, <2>4, <2>5, <2>6 DEF Answers, Frame
  <2> QED  BY <1>12, <1>16, <2>5, <2>7 DEF StepOK
<1> QED  BY <1>9, <1>17, <1>18

\* A task goes from the hand to its last result.
LEMMA AnswerTaskOK ==
    ASSUME IInv, AnswerTask
    PROVE  StepOK
<1> DEFINE r == Final(hand.id, 0)
<1>1. /\ main = "process" /\ Processed /\ hand.type \in Kinds
      /\ UNCHANGED <<tasks_vars, slots, refusals>> /\ Send(r)
      /\ misfired' = (misfired \/ hand.again)
  BY DEF AnswerTask, Kinds, Slotless
<1>2. /\ Frame /\ StagesGrow /\ main' = "tasks" /\ hand' = NoTask
      /\ UNCHANGED <<turn, batched, batch, n_tokens, failures>>
      /\ Taken' = {}
  BY <1>1, HandEmpty
<1>3. /\ batch = {} /\ hand.id # NoTask /\ Posted(hand.id) /\ hand.id \in Early
      /\ hand.id \in Clients \X Nat
  BY <1>1, HandFacts
<1>4. /\ QueuesGood' /\ QueuesApart' /\ HandGood'
      /\ Queued' = Queued /\ Early' = Early \ {hand.id}
  BY <1>1, HandedOver
<1>5. TasksInv /\ LoopInv /\ ResultsInv /\ request \in Loads
  BY DEF IInv, ClientTypes
<1>6. LoopInv'
  <2>1. misfired' \in BOOLEAN
    BY <1>1
  <2> QED  BY <1>1, <1>2, <1>3, <1>5, <2>1 DEF LoopInv, LoopTypes, LoopKnows
<1>7. SlotsGood' /\ SlotsApart'
  <2>1. \A t : Posted(t) => Posted(t)'
    BY <1>2, <1>5, GoodGrows
  <2>2. SlotsGood'
    BY <1>1, <1>5, <2>1 DEF TasksInv, SlotsGood
  <2>3. SlotsApart'
    BY <1>1, <1>2, <1>4, <1>5 DEF TasksInv, SlotsApart, IdsOf
  <2> QED  BY <2>2, <2>3
<1>8. Busy' = Busy /\ Progress' = Progress
  BY <1>1 DEF Busy, Progress, Idle, Processing
<1>9. Owned' = Owned \ {hand.id} /\ hand.id \in Owned
  <2>1. hand.id \notin Busy
    BY <1>3, <1>5, SlotFacts DEF Busy
  <2> QED  BY <1>3, <1>4, <1>8, <2>1 DEF Owned
<1>10. r \in Results /\ r.id = hand.id /\ r.kind = "final" /\ r.n = 0
  BY <1>3 DEF Results, Final, Result
<1>11. Streaming(hand.id) => AllComing(hand.id, 0)
  BY <1>3, <1>5 DEF ResultsInv, StreamsRight
<1> HIDE DEF r
<1>12. Answers(r)
  BY <1>1, <1>2, <1>3, <1>4, <1>8, <1>9, <1>10, <1>11 DEF Answers, Frame
<1> QED  BY <1>4, <1>6, <1>7, <1>10, <1>12 DEF StepOK, TasksInv

\* Between tasks there is none in hand.
LEMMA HandsFree ==
    ASSUME IInv, main # "process", main' # "process", hand' = hand
    PROVE  Taken = {} /\ Taken' = {} /\ IdsOf(Taken) = {} /\ IdsOf(Taken)' = {} /\ HandGood'
BY DEF IInv, TasksInv, HandGood, Taken, IdsOf

\* Then a step that keeps the tasks in their slots is quiet.
LEMMA QuietStep ==
    ASSUME IInv, main # "process", main' # "process", hand' = hand, Frame, failures' = failures,
           UNCHANGED results_vars, QueuesGood', QueuesApart', IdsOf(Queued)' = IdsOf(Queued),
           \A s \in Slots : /\ slots'[s].id_task = slots[s].id_task
                            /\ slots'[s].n_sent = slots[s].n_sent
                            /\ slots'[s].state = "idle" <=> slots[s].state = "idle"
    PROVE  TasksInv' /\ Quiet
<1>1. TasksInv /\ request \in Loads /\ StagesGrow
  BY FrameGrows DEF IInv, ClientTypes
<1>2. IdsOf(Taken)' = IdsOf(Taken) /\ HandGood'
  BY HandsFree
<1>3. SlotsGood' /\ SlotsApart' /\ Early' = Early /\ Owned' = Owned
  BY <1>1, <1>2, SlotsStay
<1>4. Idle' = Idle
  BY DEF Idle, Processing
<1>5. Progress' = Progress
  BY <1>4 DEF Progress
<1> QED  BY <1>2, <1>3, <1>5 DEF Quiet, TasksInv, Frame

\* The main loop wakes up.
LEMMA WakeOK ==
    ASSUME IInv, Wake
    PROVE  StepOK
<1>1. /\ main = "wait" /\ main' = "tasks"
      /\ UNCHANGED <<tasks_vars, results_vars, slots, hand, turn, batched, batch, n_tokens,
                     failures, refusals, misfired>>
      /\ Frame
  BY DEF Wake, client_vars, history, Frame
<1>2. LoopInv /\ TasksInv /\ request \in Loads /\ StagesGrow
  BY <1>1, FrameGrows DEF IInv, ClientTypes
<1>3. LoopInv'
  BY <1>1, <1>2 DEF LoopInv, LoopTypes, LoopKnows
<1>4. QueuesGood' /\ QueuesApart' /\ IdsOf(Queued)' = IdsOf(Queued)
  BY <1>1, <1>2, QueuesStay DEF IdsOf
<1>5. TasksInv' /\ Quiet
  BY <1>1, <1>4, QuietStep
<1> QED  BY <1>3, <1>5 DEF StepOK

\* A round begins: no task goes anywhere.
LEMMA UpdateSlotsOK ==
    ASSUME IInv, UpdateSlots
    PROVE  StepOK
<1> DEFINE generating == {s \in Slots : slots[s].state = "generating"}
           first == Least(generating)
<1>1. /\ main = "tasks" /\ Frame
      /\ UNCHANGED <<results_vars, slots, hand, failures, refusals, misfired>>
      /\ \/ /\ main' = "wait" /\ UNCHANGED <<tasks_vars, turn, batched, batch, n_tokens>>
         \/ /\ PostNextResponse
            /\ batch' = {s \in generating : CanBatchWith(s, first)}
            /\ n_tokens' = Cardinality(batch')
            /\ \/ /\ main' = "prompts" /\ turn' = 1
                  /\ batched' = IF generating = {} THEN 0 ELSE first
               \/ main' = "decode" /\ UNCHANGED <<turn, batched>>
  BY DEF UpdateSlots, Frame, client_vars, history
<1>2. LoopInv /\ TasksInv /\ request \in Loads /\ StagesGrow /\ NSlots \in Nat \ {0}
  BY <1>1, FrameGrows, ServerAssumption DEF IInv, ClientTypes
<1>3. CASE main' = "wait" /\ UNCHANGED <<tasks_vars, turn, batched, batch, n_tokens>>
  <2>1. LoopInv'
    BY <1>1, <1>2, <1>3 DEF LoopInv, LoopTypes, LoopKnows
  <2>2. QueuesGood' /\ QueuesApart' /\ IdsOf(Queued)' = IdsOf(Queued)
    BY <1>2, <1>3, QueuesStay DEF IdsOf
  <2>3. TasksInv' /\ Quiet
    BY <1>1, <1>3, <2>2, QuietStep
  <2> QED  BY <2>1, <2>3 DEF StepOK
<1>4. CASE /\ PostNextResponse
           /\ batch' = {s \in generating : CanBatchWith(s, first)}
           /\ n_tokens' = Cardinality(batch')
           /\ \/ /\ main' = "prompts" /\ turn' = 1
                 /\ batched' = IF generating = {} THEN 0 ELSE first
              \/ main' = "decode" /\ UNCHANGED <<turn, batched>>
  <2>1. generating # {} => first \in generating
    <3>1. SUFFICES ASSUME generating # {} PROVE first \in generating
      OBVIOUS
    <3>2. generating \in SUBSET Nat
      BY <1>2 DEF Slots
    <3> HIDE DEF generating
    <3>3. \E s \in generating : \A other \in generating : s <= other
      BY <3>1, <3>2, LeastNumber
    <3> QED  BY <3>3 DEF Least
  <2>2. batched' \in 0 .. NSlots
    <3>1. generating \subseteq Slots /\ Slots \subseteq 0 .. NSlots /\ 0 \in 0 .. NSlots
      BY <1>2 DEF Slots
    <3>2. batched \in 0 .. NSlots
      BY <1>2 DEF LoopInv, LoopTypes
    <3> HIDE DEF generating, first
    <3> QED  BY <1>4, <2>1, <3>1, <3>2
  <2>3. batch' \subseteq Slots /\ \A s \in batch' : slots'[s].state = "generating"
    BY <1>1, <1>4
  <2>4. n_tokens' \in Nat /\ n_tokens' <= NSlots
    <3>1. IsFiniteSet(Slots) /\ Cardinality(Slots) = NSlots
      BY <1>2, FS_Interval DEF Slots
    <3> QED  BY <1>4, <2>3, <3>1, FS_Subset, FS_CardinalityType
  <2>5. main' \in {"prompts", "decode"} /\ turn' \in 0 .. NSlots /\ (main' = "prompts" => turn' \in Slots)
    BY <1>2, <1>4 DEF LoopInv, LoopTypes, Slots
  <2>6. LoopInv'
    <3>1. LoopTypes'
      BY <1>1, <1>2, <2>2, <2>4, <2>5 DEF LoopInv, LoopTypes
    <3>2. LoopKnows'
      BY <1>1, <1>2, <2>3, <2>5 DEF LoopInv, LoopKnows
    <3> QED  BY <3>1, <3>2 DEF LoopInv
  <2> DEFINE e == Entry("next", NoTask, NoTask)
             tasks == <<e>>
  <2>7. e \in Entries /\ e.id = NoTask /\ e.type = "next" /\ e.id_target = NoTask
    BY DEF Entry, Entries, Ids
  <2>8. tasks \in Seq(Entries) /\ Elements(tasks) = {e} /\ Apart(tasks)
    <3>1. Len(tasks) = 1 /\ tasks[1] = e /\ 1 .. 1 = {1}
      OBVIOUS
    <3> HIDE DEF e
    <3>2. tasks \in Seq(Entries)
      BY <2>7
    <3> HIDE DEF tasks
    <3>3. \A i \in 1 .. Len(tasks) : i = 1
      BY <3>1
    <3> QED  BY <3>1, <3>2, <3>3 DEF Elements, Apart
  <2>9. Post(tasks, FALSE)
    BY <1>4 DEF PostNextResponse
  <2> HIDE DEF e, tasks
  <2>10. GoodEntry(e)
    BY <2>7 DEF GoodEntry
  <2>11. IdsOf(Elements(tasks)) = {}
    BY <2>7, <2>8 DEF IdsOf
  <2>12. \A x \in Elements(tasks) :
            GoodEntry(x)' /\ (x.id_target # NoTask => \A y \in Queued : y.id_target # x.id_target)
    BY <1>2, <2>7, <2>8, <2>10, GoodGrows
  <2>13. QueuesGood' /\ QueuesApart' /\ IdsOf(Queued)' = IdsOf(Queued) \cup IdsOf(Elements(tasks))
    BY <1>2, <2>8, <2>9, <2>11, <2>12, PostQueues DEF TasksInv
  <2>14. TasksInv' /\ Quiet
    BY <1>1, <2>5, <2>11, <2>13, QuietStep
  <2> QED  BY <2>6, <2>14 DEF StepOK
<1> QED  BY <1>1, <1>3, <1>4

\* A slot that has sent all it sends of a task answers it and is released.
LEMMA ReleaseAnswers ==
    ASSUME IInv, NEW s \in Slots, Processing(s), Release(s), Frame, failures' = failures,
           main # "process", main' # "process", hand' = hand,
           NEW r \in Results, Send(r), r.id = slots[s].id_task, r.kind # "partial",
           r.kind = "final" /\ RequestOf(r.id).kind = "stream" => r.n = slots[s].n_sent
    PROVE  /\ TasksInv' /\ Answers(r) /\ slots' \in [Slots -> SlotRecords]
           /\ slots'[s].state = "idle" /\ slots'[s].n_decoded = 0 /\ slots'[s].n_sent = 0
           /\ \A k \in Slots \ {s} : slots'[k] = slots[k]
<1>1. TasksInv /\ ResultsInv /\ request \in Loads /\ StagesGrow
  BY FrameGrows DEF IInv, ClientTypes
<1>2. IdsOf(Taken) = {} /\ IdsOf(Taken)' = {} /\ HandGood'
  BY HandsFree
<1>3. /\ TasksInv' /\ slots' \in [Slots -> SlotRecords]
      /\ slots'[s].state = "idle" /\ slots'[s].n_decoded = 0 /\ slots'[s].n_sent = 0
      /\ \A k \in Slots \ {s} : slots'[k] = slots[k]
      /\ Early' = Early /\ Owned' = Owned \ {r.id} /\ Progress' \subseteq Progress
  BY <1>1, <1>2, Releases
<1>4. Posted(r.id) /\ r.id \in Owned /\ <<r.id, slots[s].n_sent>> \in Progress
  BY <1>1, SlotFacts
<1>5. r.kind = "final" /\ Streaming(r.id) => AllComing(r.id, r.n)
  <2>1. Streaming(r.id) => AllComing(r.id, slots[s].n_sent)
    <3>1. \A p \in Progress : Streaming(p[1]) => AllComing(p[1], p[2])
      BY <1>1 DEF ResultsInv, StreamsRight
    <3>2. PICK p \in Progress : p[1] = r.id /\ p[2] = slots[s].n_sent
      BY <1>4
    <3> QED  BY <3>1, <3>2
  <2>2. Streaming(r.id) => RequestOf(r.id).kind = "stream"
    BY DEF Streaming
  <2> QED  BY <2>1, <2>2
<1>6. Answers(r)
  BY <1>3, <1>4, <1>5 DEF Answers, Frame
<1> QED  BY <1>3, <1>6

\* Where the loop over the prompts goes.
Goes == /\ main' \in {"prompts", "wait", "decode"}
        /\ turn' \in 0 .. NSlots /\ batched' \in 0 .. NSlots
        /\ main' = "prompts" => turn' \in Slots
        /\ main' = "wait" => batch' = {}

\* The loop over the prompts goes to the next slot, or on to the decoding.
LEMMA OnwardsGoes ==
    ASSUME IInv, main = "prompts", NEW full \in BOOLEAN, Onwards(full)
    PROVE  Goes
<1>1. NSlots \in Nat \ {0} /\ turn \in Slots /\ batched \in 0 .. NSlots
  BY ServerAssumption DEF IInv, LoopInv, LoopTypes, LoopKnows
<1>2. CASE turn < NSlots /\ ~ full
  BY <1>1, <1>2 DEF Onwards, Goes, Slots
<1>3. CASE ~ (turn < NSlots /\ ~ full)
  <2>1. main' = (IF batch' = {} THEN "wait" ELSE "decode") /\ turn' = 0 /\ batched' = 0
    BY <1>3 DEF Onwards
  <2> QED  BY <1>1, <2>1 DEF Goes
<1> QED  BY <1>2, <1>3

\* A slot is passed over.
LEMMA SkipPromptOK ==
    ASSUME IInv, SkipPrompt
    PROVE  StepOK
<1>1. /\ main = "prompts" /\ Frame
      /\ UNCHANGED <<tasks_vars, results_vars, slots, hand, batch, n_tokens, failures, refusals,
                     misfired>>
      /\ \E full \in BOOLEAN : Onwards(full)
  BY DEF SkipPrompt, PromptStep, Frame, client_vars
<1>2. LoopInv /\ TasksInv /\ request \in Loads /\ StagesGrow
  BY <1>1, FrameGrows DEF IInv, ClientTypes
<1>3. Goes
  BY <1>1, OnwardsGoes
<1>4. LoopInv'
  BY <1>1, <1>2, <1>3 DEF Goes, LoopInv, LoopTypes, LoopKnows
<1>5. QueuesGood' /\ QueuesApart' /\ IdsOf(Queued)' = IdsOf(Queued)
  BY <1>1, <1>2, QueuesStay DEF IdsOf
<1>6. TasksInv' /\ Quiet
  BY <1>1, <1>3, <1>5, QuietStep DEF Goes
<1> QED  BY <1>4, <1>6 DEF StepOK

\* A prompt is empty or too long: its task goes from the slot to a last result.
LEMMA RefusePromptOK ==
    ASSUME IInv, RefusePrompt
    PROVE  StepOK
<1> DEFINE id == slots[turn].id_task
<1>1. /\ main = "prompts" /\ Frame /\ Release(turn) /\ slots[turn].state = "started"
      /\ UNCHANGED <<hand, batch, n_tokens, failures, misfired>>
      /\ refusals < MaxRefusals /\ refusals' = refusals + 1
      /\ Onwards(FALSE)
  BY DEF RefusePrompt, PromptStep, Frame, client_vars
<1>2. \E kind \in {"final", "error"} : Send(Result(id, kind, 0))
  BY DEF RefusePrompt, Final, Error
<1>3. /\ LoopInv /\ TasksInv /\ request \in Loads /\ turn \in Slots
      /\ MaxRefusals \in Nat /\ MaxTokens \in Nat
  BY <1>1, ServerAssumption DEF IInv, ClientTypes, LoopInv, LoopKnows
<1>4. Goes
  BY <1>1, OnwardsGoes
<1>5. Processing(turn) /\ id \in Clients \X Nat
  BY <1>1, <1>3, SlotFacts DEF Processing
<1>6. slots[turn].n_sent = 0
  <2>1. slots[turn].n_decoded = 0 /\ slots[turn].n_sent <= slots[turn].n_decoded
    BY <1>1, <1>3 DEF LoopInv, LoopKnows
  <2>2. slots[turn].n_sent \in 0 .. MaxTokens
    BY <1>3 DEF LoopInv, LoopTypes
  <2> QED  BY <1>3, <2>1, <2>2
<1>7. PICK r \in Results : r.id = id /\ r.kind # "partial" /\ r.n = 0 /\ Send(r)
  <2>1. PICK kind \in {"final", "error"} : Send(Result(id, kind, 0))
    BY <1>2
  <2>2. /\ Result(id, kind, 0) \in Results /\ Result(id, kind, 0).id = id
        /\ Result(id, kind, 0).kind # "partial" /\ Result(id, kind, 0).n = 0
    BY <1>5, <2>1 DEF Results, Result
  <2> QED  BY <2>1, <2>2
<1>8. /\ TasksInv' /\ Answers(r) /\ slots' \in [Slots -> SlotRecords]
      /\ slots'[turn].state = "idle" /\ slots'[turn].n_decoded = 0 /\ slots'[turn].n_sent = 0
      /\ \A k \in Slots \ {turn} : slots'[k] = slots[k]
  BY <1>1, <1>3, <1>4, <1>5, <1>6, <1>7, ReleaseAnswers DEF Goes
<1>9. LoopInv'
  <2>1. LoopTypes'
    BY <1>1, <1>3, <1>4, <1>8 DEF Goes, LoopInv, LoopTypes, SlotRecords
  <2>2. LoopKnows'
    <3>1. turn \notin batch
      BY <1>1, <1>3 DEF LoopInv, LoopKnows
    <3> QED  BY <1>1, <1>3, <1>4, <1>8, <3>1 DEF Goes, LoopInv, LoopKnows
  <2> QED  BY <2>1, <2>2 DEF LoopInv
<1> QED  BY <1>8, <1>9 DEF StepOK

\* Tokens of a prompt come into the batch, which stays within its bounds.
LEMMA BatchPromptOK ==
    ASSUME IInv, BatchPrompt
    PROVE  StepOK /\ Idle' = Idle
<1>1. /\ main = "prompts" /\ Frame
      /\ UNCHANGED <<tasks_vars, results_vars, hand, failures, refusals, misfired>>
      /\ slots[turn].state \in {"started", "prompt"}
  BY DEF BatchPrompt, PromptStep, Frame, client_vars
<1>2. /\ LoopInv /\ TasksInv /\ request \in Loads /\ StagesGrow /\ turn \in Slots
      /\ NBatch \in Nat \ {0} /\ PromptLens \subseteq Nat \ {0}
  BY <1>1, FrameGrows, ServerAssumption DEF IInv, ClientTypes, LoopInv, LoopKnows
<1>3. /\ slots \in [Slots -> SlotRecords] /\ n_tokens \in Nat
      /\ (n_tokens <= NBatch \/ n_tokens <= NSlots)
  BY <1>2 DEF LoopInv, LoopTypes, SlotRecords
<1>4. Room \in Nat /\ (Room > 0 => n_tokens + Room <= NBatch)
  BY <1>2, <1>3 DEF Room
<1>5. slots[turn].left \in Nat
  BY <1>2, <1>3 DEF SlotRecords
<1>6. PICK len \in Nat, taken \in Nat, full \in BOOLEAN :
         /\ taken <= len /\ taken <= Room
         /\ slots' = [slots EXCEPT ![turn].left = len - taken,
                                   ![turn].state = IF taken = len THEN "done" ELSE "prompt"]
         /\ batch' = IF taken = 0 THEN batch ELSE batch \cup {turn}
         /\ n_tokens' = n_tokens + taken
         /\ Onwards(full)
  <2>1. PICK len \in IF slots[turn].state = "started" THEN PromptLens ELSE {slots[turn].left} :
          LET split == Generates(slots[turn].id_task)
              taken == IF len <= Room THEN len ELSE IF split THEN Room ELSE 0
          IN  /\ split \/ len <= NBatch
              /\ slots' = [slots EXCEPT ![turn].left = len - taken,
                                        ![turn].state = IF taken = len THEN "done" ELSE "prompt"]
              /\ batch' = IF taken = 0 THEN batch ELSE batch \cup {turn}
              /\ n_tokens' = n_tokens + taken
              /\ Onwards(n_tokens + taken >= NBatch /\ (split \/ taken = len))
    BY DEF BatchPrompt
  <2> DEFINE split == Generates(slots[turn].id_task)
             taken == IF len <= Room THEN len ELSE IF split THEN Room ELSE 0
             full == n_tokens + taken >= NBatch /\ (split \/ taken = len)
  <2>2. len \in Nat
    BY <1>2, <1>5, <2>1
  <2>3. taken \in Nat /\ taken <= len /\ taken <= Room
    <3> HIDE DEF split
    <3> QED  BY <1>4, <2>2
  <2>4. full \in BOOLEAN
    OBVIOUS
  <2>5. /\ slots' = [slots EXCEPT ![turn].left = len - taken,
                                  ![turn].state = IF taken = len THEN "done" ELSE "prompt"]
        /\ batch' = IF taken = 0 THEN batch ELSE batch \cup {turn}
        /\ n_tokens' = n_tokens + taken
        /\ Onwards(full)
    BY <2>1
  <2> HIDE DEF taken, full
  <2> QED  BY <2>2, <2>3, <2>4, <2>5
<1>7. Goes
  BY <1>1, <1>6, OnwardsGoes
<1>8. /\ \A s \in Slots \ {turn} : slots'[s] = slots[s]
      /\ slots'[turn].state \in {"done", "prompt"} /\ slots'[turn].left = len - taken
      /\ slots'[turn].id_task = slots[turn].id_task
      /\ slots'[turn].n_decoded = slots[turn].n_decoded /\ slots'[turn].n_sent = slots[turn].n_sent
  BY <1>2, <1>3, <1>6 DEF SlotRecords
<1>9. slots' \in [Slots -> SlotRecords]
  <2>1. len - taken \in Nat
    BY <1>6
  <2>2. \A s \in Slots : slots[s] \in SlotRecords
    BY <1>3
  <2>3. slots'[turn] \in SlotRecords
    <3>1. slots'[turn] = [[slots[turn] EXCEPT !.left = len - taken]
                             EXCEPT !.state = IF taken = len THEN "done" ELSE "prompt"]
      BY <1>2, <1>3, <1>6
    <3> QED  BY <1>2, <2>1, <2>2, <3>1 DEF SlotRecords, SlotStates
  <2>4. DOMAIN slots' = Slots /\ slots' = [s \in Slots |-> slots'[s]]
    BY <1>3, <1>6
  <2>5. \A s \in Slots : slots'[s] \in SlotRecords
    BY <1>8, <2>2, <2>3
  <2> QED  BY <2>4, <2>5
<1>10. LoopInv'
  <2>1. n_tokens' \in Nat /\ (n_tokens' <= NBatch \/ n_tokens' <= NSlots)
    BY <1>2, <1>3, <1>4, <1>6, ServerAssumption
  <2>2. LoopTypes'
    BY <1>1, <1>2, <1>7, <1>9, <2>1 DEF Goes, LoopInv, LoopTypes, SlotRecords
  <2>3. LoopKnows'
    <3>1. /\ batch' \subseteq batch \cup {turn} /\ batch \subseteq Slots
          /\ \A s \in batch : slots[s].state \in {"prompt", "done", "generating", "stopping"}
      BY <1>2, <1>6 DEF LoopInv, LoopKnows
    <3>2. batch' \subseteq Slots
      BY <1>2, <3>1
    <3>3. \A s \in batch' : slots'[s].state \in {"prompt", "done", "generating", "stopping"}
      BY <1>8, <3>1
    <3>4. slots'[turn].n_decoded = 0
      BY <1>1, <1>2, <1>8 DEF LoopInv, LoopKnows
    <3>5. \A s \in Slots : /\ slots'[s].n_sent <= slots'[s].n_decoded
                           /\ slots'[s].state \in {"started", "prompt", "done"} => slots'[s].n_decoded = 0
                           /\ slots'[s].state = "generating" => slots'[s].n_decoded < MaxTokens
      BY <1>2, <1>8, <3>4 DEF LoopInv, LoopKnows
    <3> QED  BY <1>7, <3>2, <3>3, <3>5 DEF Goes, LoopKnows
  <2> QED  BY <2>2, <2>3 DEF LoopInv
<1>11. QueuesGood' /\ QueuesApart' /\ IdsOf(Queued)' = IdsOf(Queued)
  BY <1>1, <1>2, QueuesStay DEF IdsOf
<1>12. \A s \in Slots : /\ slots'[s].id_task = slots[s].id_task
                        /\ slots'[s].n_sent = slots[s].n_sent
                        /\ slots'[s].state = "idle" <=> slots[s].state = "idle"
  BY <1>1, <1>8
<1>13. TasksInv' /\ Quiet
  BY <1>1, <1>7, <1>11, <1>12, QuietStep DEF Goes
<1>14. Idle' = Idle
  BY <1>12 DEF Idle, Processing
<1> QED  BY <1>10, <1>13, <1>14 DEF StepOK

\* What decoding a slot leaves to do.
LEMMA DecodedGoes ==
    ASSUME IInv, main = "decode", NEW s \in Slots, Decoded(s)
    PROVE  /\ main' \in {"wait", "decode"} /\ (main' = "wait" => batch' = {})
           /\ batch' = batch \ {s}
           /\ n_tokens' \in Nat /\ (n_tokens' <= NBatch \/ n_tokens' <= NSlots)
<1>1. NBatch \in Nat /\ NSlots \in Nat /\ n_tokens \in Nat /\ (n_tokens <= NBatch \/ n_tokens <= NSlots)
  BY ServerAssumption DEF IInv, LoopInv, LoopTypes
<1>2. batch' = batch \ {s}
      /\ n_tokens' = (IF batch' = {} THEN 0 ELSE n_tokens)
      /\ main' = IF batch' = {} THEN "wait" ELSE "decode"
  BY DEF Decoded
<1> QED  BY <1>1, <1>2

\* A slot that is decoded and released.
LEMMA DecodedAnswers ==
    ASSUME IInv, main = "decode", NEW s \in Slots, Processing(s), Release(s), Decoded(s),
           Frame, UNCHANGED <<hand, turn, batched, failures, refusals, misfired>>,
           NEW r \in Results, Send(r), r.id = slots[s].id_task, r.kind # "partial",
           r.kind = "final" /\ RequestOf(r.id).kind = "stream" => r.n = slots[s].n_sent
    PROVE  StepOK
<1>1. /\ main' \in {"wait", "decode"} /\ (main' = "wait" => batch' = {})
      /\ batch' = batch \ {s}
      /\ n_tokens' \in Nat /\ (n_tokens' <= NBatch \/ n_tokens' <= NSlots)
  BY DecodedGoes
<1>2. LoopInv
  BY DEF IInv
<1>3. /\ TasksInv' /\ Answers(r) /\ slots' \in [Slots -> SlotRecords]
      /\ slots'[s].state = "idle" /\ slots'[s].n_decoded = 0 /\ slots'[s].n_sent = 0
      /\ \A k \in Slots \ {s} : slots'[k] = slots[k]
  BY <1>1, ReleaseAnswers
<1>4. LoopTypes'
  BY <1>1, <1>2, <1>3 DEF LoopInv, LoopTypes, SlotRecords
<1>5. LoopKnows'
  BY <1>1, <1>2, <1>3 DEF LoopInv, LoopKnows
<1> QED  BY <1>3, <1>4, <1>5 DEF StepOK, LoopInv

\* A slot's part of the prompt, or its embedding or rank, is decoded.
LEMMA DecodePromptOK ==
    ASSUME IInv, NEW s \in batch, DecodePrompt(s)
    PROVE  StepOK
<1>1. /\ main = "decode" /\ Frame /\ UNCHANGED <<hand, turn, batched, failures, refusals, misfired>>
      /\ Decoded(s)
  BY DEF DecodePrompt, DecodeStep, Frame, client_vars, history
<1>2. LoopInv /\ TasksInv /\ request \in Loads /\ StagesGrow /\ s \in Slots
  BY <1>1, FrameGrows DEF IInv, ClientTypes, LoopInv, LoopKnows
<1>3. CASE UNCHANGED <<tasks_vars, results_vars, slots>>
  <2>1. /\ main' \in {"wait", "decode"} /\ (main' = "wait" => batch' = {})
        /\ batch' = batch \ {s}
        /\ n_tokens' \in Nat /\ (n_tokens' <= NBatch \/ n_tokens' <= NSlots)
    BY <1>1, <1>2, DecodedGoes
  <2>2. LoopInv'
    BY <1>1, <1>2, <1>3, <2>1 DEF LoopInv, LoopTypes, LoopKnows
  <2>3. QueuesGood' /\ QueuesApart' /\ IdsOf(Queued)' = IdsOf(Queued)
    BY <1>2, <1>3, QueuesStay DEF IdsOf
  <2>4. TasksInv' /\ Quiet
    BY <1>1, <1>3, <2>1, <2>3, QuietStep
  <2> QED  BY <2>2, <2>4 DEF StepOK
<1>4. CASE /\ slots[s].state = "done" /\ ~ Generates(slots[s].id_task)
           /\ Send(Final(slots[s].id_task, 0)) /\ Release(s)
  <2> DEFINE r == Final(slots[s].id_task, 0)
  <2>1. Processing(s) /\ slots[s].id_task \in Clients \X Nat
    BY <1>2, <1>4, SlotFacts DEF Processing
  <2>2. r \in Results /\ r.id = slots[s].id_task /\ r.kind = "final" /\ Send(r)
    BY <1>4, <2>1 DEF Results, Final, Result
  <2>3. RequestOf(slots[s].id_task).kind # "stream"
    BY <1>4 DEF Generates
  <2> HIDE DEF r
  <2> QED  BY <1>1, <1>2, <1>4, <2>1, <2>2, <2>3, DecodedAnswers
<1> QED  BY <1>3, <1>4 DEF DecodePrompt

\* A task goes from its slot to its final result.
LEMMA StopSlotOK ==
    ASSUME IInv, NEW s \in batch, StopSlot(s)
    PROVE  StepOK
<1> DEFINE r == Final(slots[s].id_task, slots[s].n_sent)
<1>1. /\ main = "decode" /\ Frame /\ UNCHANGED <<hand, turn, batched, failures, refusals, misfired>>
      /\ Decoded(s) /\ slots[s].state = "stopping" /\ Send(r) /\ Release(s)
  BY DEF StopSlot, DecodeStep, Frame, client_vars, history, Stopping
<1>2. LoopInv /\ TasksInv /\ request \in Loads /\ s \in Slots
  BY <1>1 DEF IInv, ClientTypes, LoopInv, LoopKnows
<1>3. Processing(s) /\ slots[s].id_task \in Clients \X Nat
  BY <1>1, <1>2, SlotFacts DEF Processing
<1>4. slots[s].n_sent \in Nat
  BY <1>2, ServerAssumption DEF LoopInv, LoopTypes
<1>5. r \in Results /\ r.id = slots[s].id_task /\ r.kind = "final" /\ r.n = slots[s].n_sent
  BY <1>3, <1>4 DEF Results, Final, Result
<1> HIDE DEF r
<1> QED  BY <1>1, <1>2, <1>3, <1>5, DecodedAnswers

\* A token is decoded, and sent or held back.
LEMMA DecodeTokenOK ==
    ASSUME IInv, NEW s \in batch, DecodeToken(s)
    PROVE  StepOK /\ Idle' = Idle
<1> DEFINE id == slots[s].id_task
           n == slots[s].n_decoded + 1
<1>1. /\ main = "decode" /\ Frame /\ UNCHANGED <<hand, turn, batched, failures, refusals, misfired>>
      /\ UNCHANGED tasks_vars
      /\ slots[s].state \in {"generating", "done"}
  BY DEF DecodeToken, DecodeStep, Frame, client_vars, history
<1>2. PICK sends \in IF RequestOf(id).kind = "stream" THEN BOOLEAN ELSE {FALSE},
           last \in IF n = MaxTokens THEN {TRUE} ELSE BOOLEAN :
          LET sent == slots[s].n_sent + (IF sends THEN 1 ELSE 0) IN
          /\ IF sends THEN Send(Partial(id, sent)) ELSE UNCHANGED results_vars
          /\ slots' = [slots EXCEPT ![s].state = IF last THEN "stopping" ELSE "generating",
                                    ![s].n_decoded = n, ![s].n_sent = sent]
          /\ IF last THEN UNCHANGED <<main, batch, n_tokens>> ELSE Decoded(s)
  BY DEF DecodeToken
<1> DEFINE sent == slots[s].n_sent + (IF sends THEN 1 ELSE 0)
           state == IF last THEN "stopping" ELSE "generating"
<1>3. /\ LoopInv /\ TasksInv /\ request \in Loads /\ StagesGrow /\ s \in Slots
      /\ slots \in [Slots -> SlotRecords] /\ MaxTokens \in Nat \ {0}
  BY <1>1, FrameGrows, ServerAssumption
     DEF IInv, ClientTypes, LoopInv, LoopTypes, LoopKnows, SlotRecords
<1>4. /\ slots[s].n_sent \in Nat /\ slots[s].n_decoded \in Nat
      /\ slots[s].n_sent <= slots[s].n_decoded /\ slots[s].n_decoded < MaxTokens
  <2>1. slots[s] \in SlotRecords
    BY <1>3
  <2>2. slots[s].n_sent \in 0 .. MaxTokens /\ slots[s].n_decoded \in 0 .. MaxTokens
    BY <2>1 DEF SlotRecords
  <2>3. /\ slots[s].n_sent <= slots[s].n_decoded
        /\ slots[s].state = "done" => slots[s].n_decoded = 0
        /\ slots[s].state = "generating" => slots[s].n_decoded < MaxTokens
    BY <1>3 DEF LoopInv, LoopKnows
  <2> QED  BY <1>1, <1>3, <2>2, <2>3
<1>5. /\ sent \in Nat /\ sent <= n /\ n \in 0 .. MaxTokens /\ sent \in 0 .. MaxTokens
      /\ (sends => sent = slots[s].n_sent + 1) /\ (~ sends => sent = slots[s].n_sent)
  BY <1>3, <1>4
<1>6. ~ last => n < MaxTokens
  <2>1. ~ last => n # MaxTokens
    <3> HIDE DEF n
    <3> QED  BY <1>2
  <2>2. n \in Nat /\ n <= MaxTokens
    BY <1>3, <1>4
  <2> HIDE DEF n
  <2> QED  BY <1>3, <2>1, <2>2
<1>7. /\ slots' = [slots EXCEPT ![s].state = state, ![s].n_decoded = n, ![s].n_sent = sent]
      /\ state \in {"stopping", "generating"} /\ (state = "generating" => ~ last)
      /\ IF sends THEN Send(Partial(id, sent)) ELSE UNCHANGED results_vars
      /\ IF last THEN UNCHANGED <<main, batch, n_tokens>> ELSE Decoded(s)
      /\ sends \in BOOLEAN /\ (sends => RequestOf(id).kind = "stream")
  BY <1>2
<1>8. /\ main' \in {"wait", "decode"} /\ (main' = "wait" => batch' = {}) /\ batch' \subseteq batch
      /\ n_tokens' \in Nat /\ (n_tokens' <= NBatch \/ n_tokens' <= NSlots)
  <2>1. CASE last
    BY <1>1, <1>3, <1>7, <2>1 DEF LoopInv, LoopTypes
  <2>2. CASE ~ last
    BY <1>1, <1>3, <1>7, <2>2, DecodedGoes
  <2> QED  BY <2>1, <2>2
<1> HIDE DEF n, sent, state, id
<1>9. /\ \A r \in Slots \ {s} : slots'[r] = slots[r]
      /\ slots'[s] = [[[slots[s] EXCEPT !.state = state] EXCEPT !.n_decoded = n] EXCEPT !.n_sent = sent]
      /\ DOMAIN slots' = Slots
  BY <1>3, <1>7
<1>10. /\ slots'[s].state = state /\ slots'[s].n_decoded = n /\ slots'[s].n_sent = sent
       /\ slots'[s].id_task = id
  BY <1>3, <1>9 DEF SlotRecords, id
<1>11. slots' \in [Slots -> SlotRecords]
  <2>1. \A r \in Slots : slots[r] \in SlotRecords
    BY <1>3
  <2>2. slots'[s] \in SlotRecords
    <3> DEFINE a == [slots[s] EXCEPT !.state = state]
               b == [a EXCEPT !.n_decoded = n]
    <3>1. a \in SlotRecords
      <4>1. slots[s] \in SlotRecords /\ state \in SlotStates
        BY <1>3, <1>7, <2>1 DEF SlotStates
      <4> QED  BY <4>1 DEF SlotRecords
    <3>2. b \in SlotRecords
      <4> HIDE DEF a
      <4> QED  BY <1>5, <3>1 DEF SlotRecords
    <3>3. slots'[s] = [b EXCEPT !.n_sent = sent]
      BY <1>9
    <3> HIDE DEF a, b
    <3> QED  BY <1>5, <3>2, <3>3 DEF SlotRecords
  <2>3. slots' = [r \in Slots |-> slots'[r]]
    BY <1>3, <1>7
  <2>4. \A r \in Slots : slots'[r] \in SlotRecords
    BY <1>9, <2>1, <2>2
  <2> QED  BY <2>3, <2>4
<1>12. LoopInv'
  <2>1. LoopTypes'
    BY <1>1, <1>3, <1>8, <1>11 DEF LoopInv, LoopTypes, SlotRecords
  <2>2. LoopKnows'
    BY <1>1, <1>3, <1>5, <1>6, <1>7, <1>8, <1>9, <1>10 DEF LoopInv, LoopKnows
  <2> QED  BY <2>1, <2>2 DEF LoopInv
<1>13. QueuesGood' /\ QueuesApart' /\ IdsOf(Queued)' = IdsOf(Queued)
  BY <1>1, <1>3, QueuesStay DEF IdsOf
<1>14. \A r \in Slots : /\ slots'[r].id_task = slots[r].id_task
                        /\ slots'[r].state = "idle" <=> slots[r].state = "idle"
  BY <1>1, <1>7, <1>9, <1>10 DEF id
<1>0. Idle' = Idle
  BY <1>14 DEF Idle, Processing
<1>15. CASE ~ sends
  <2>1. \A r \in Slots : slots'[r].n_sent = slots[r].n_sent
    BY <1>5, <1>9, <1>10, <1>15
  <2>2. TasksInv' /\ Quiet
    BY <1>1, <1>7, <1>8, <1>13, <1>14, <1>15, <2>1, QuietStep
  <2> QED  BY <1>0, <1>12, <2>2 DEF StepOK
<1>16. CASE sends
  <2>1. HandGood' /\ IdsOf(Taken)' = IdsOf(Taken)
    BY <1>1, <1>8, HandsFree
  <2>2. SlotsGood' /\ SlotsApart' /\ Early' = Early /\ Owned' = Owned
    BY <1>3, <1>13, <1>14, <2>1, SlotsStay
  <2>3. Processing(s)
    BY <1>1 DEF Processing
  <2>4. /\ Posted(id) /\ id \in Tasks /\ id \notin Early /\ <<id, slots[s].n_sent>> \in Progress
        /\ \A r \in Slots : slots[r].id_task = id => r = s
    BY <1>3, <2>3, SlotFacts DEF id
  <2> DEFINE m == slots[s].n_sent
  <2>5. sent = m + 1 /\ m \in Nat /\ m + 1 <= MaxTokens
    BY <1>3, <1>4, <1>5, <1>16
  <2>7. \A p \in Progress' : (p \in Progress /\ p[1] # id) \/ p = <<id, sent>>
    <3>1. ASSUME NEW r \in Slots \ Idle
          PROVE  \/ slots'[r].id_task = id /\ slots'[r].n_sent = sent
                 \/ slots'[r] = slots[r] /\ slots[r].id_task # id
      BY <1>9, <1>10, <2>4
    <3> QED  BY <1>0, <3>1 DEF Progress
  <2>8. Send(Partial(id, m + 1))
    BY <1>7, <1>16, <2>5
  <2> HIDE DEF m
  <2>9. <<id, m>> \in Progress
    BY <2>4 DEF m
  <2>10. Streams(id, m)
    BY <1>1, <1>7, <1>16, <2>2, <2>4, <2>5, <2>7, <2>8, <2>9 DEF Streams, Frame
  <2> QED  BY <1>0, <1>12, <1>13, <2>1, <2>2, <2>4, <2>5, <2>10 DEF StepOK, TasksInv
<1> QED  BY <1>7, <1>15, <1>16

\* A decode fails for good: from now on stray errors are possible.
LEMMA DecodeFailsOK ==
    ASSUME IInv, DecodeFails
    PROVE  StepOK
<1>1. /\ main = "decode" /\ failures < MaxFailures /\ failures' = failures + 1
      /\ main' = "fail" /\ turn' = 1 /\ batch' = {} /\ n_tokens' = 0
      /\ UNCHANGED <<tasks_vars, results_vars, slots, hand, batched, refusals, misfired>>
      /\ Frame
  BY DEF DecodeFails, Frame, client_vars
<1>2. /\ LoopInv /\ TasksInv /\ request \in Loads /\ StagesGrow
      /\ NSlots \in Nat \ {0} /\ NBatch \in Nat \ {0} /\ MaxFailures \in Nat
  BY <1>1, FrameGrows, ServerAssumption DEF IInv, ClientTypes
<1>3. LoopInv'
  <2>1. failures' \in 0 .. MaxFailures /\ failures' > 0 /\ turn' \in Slots /\ turn' \in 0 .. NSlots
    BY <1>1, <1>2 DEF LoopInv, LoopTypes, Slots
  <2> QED  BY <1>1, <1>2, <2>1 DEF LoopInv, LoopTypes, LoopKnows
<1>4. QueuesGood' /\ QueuesApart' /\ IdsOf(Queued)' = IdsOf(Queued)
  BY <1>1, <1>2, QueuesStay DEF IdsOf
<1>5. HandGood' /\ IdsOf(Taken)' = IdsOf(Taken)
  BY <1>1, HandsFree
<1>6. SlotsGood' /\ SlotsApart' /\ Early' = Early /\ Owned' = Owned
  BY <1>1, <1>2, <1>4, <1>5, SlotsStay
<1>7. Progress' = Progress
  BY <1>1 DEF Progress, Idle, Processing
<1>8. failures' # 0
  BY <1>1, <1>2 DEF LoopInv, LoopTypes
<1>9. Quiet
  BY <1>1, <1>6, <1>7, <1>8 DEF Quiet, Frame
<1> QED  BY <1>3, <1>4, <1>5, <1>6, <1>9 DEF StepOK, TasksInv

\* A slot's task goes to an error, or its last task gets a stray one.
LEMMA FailSlotOK ==
    ASSUME IInv, FailSlot
    PROVE  StepOK
<1> DEFINE id == slots[turn].id_task
           r == Error(id, 0)
<1>1. /\ main = "fail" /\ Frame
      /\ UNCHANGED <<hand, batched, batch, n_tokens, failures, refusals, misfired>>
      /\ IF Processing(turn) THEN Release(turn) ELSE UNCHANGED <<slots, tasks_vars>>
      /\ IF id = NoTask THEN UNCHANGED results_vars ELSE Send(r)
      /\ \/ turn < NSlots /\ turn' = turn + 1 /\ main' = main
         \/ turn' = 0 /\ main' = "wait"
  BY DEF FailSlot, Frame, client_vars, history
<1>2. /\ LoopInv /\ TasksInv /\ request \in Loads /\ StagesGrow /\ turn \in Slots
      /\ NSlots \in Nat \ {0} /\ failures > 0 /\ batch = {}
  BY <1>1, FrameGrows, ServerAssumption DEF IInv, ClientTypes, LoopInv, LoopKnows
<1>3. /\ main' \in {"fail", "wait"} /\ turn' \in 0 .. NSlots /\ (main' = "fail" => turn' \in Slots)
  BY <1>1, <1>2 DEF Slots
<1>4. id # NoTask => id \in Clients \X Nat
  BY <1>2, SlotFacts
<1>5. id # NoTask => r \in Results /\ r.id = id /\ r.kind = "error"
  BY <1>4 DEF Results, Error, Result
<1> HIDE DEF r
<1>6. CASE Processing(turn)
  <2>1. id # NoTask
    BY <1>2, <1>6, SlotFacts
  <2>2. /\ TasksInv' /\ Answers(r) /\ slots' \in [Slots -> SlotRecords]
        /\ slots'[turn].state = "idle" /\ slots'[turn].n_decoded = 0 /\ slots'[turn].n_sent = 0
        /\ \A k \in Slots \ {turn} : slots'[k] = slots[k]
    BY <1>1, <1>2, <1>3, <1>5, <1>6, <2>1, ReleaseAnswers
  <2>3. LoopTypes'
    BY <1>1, <1>2, <1>3, <2>2 DEF LoopInv, LoopTypes, SlotRecords
  <2>4. LoopKnows'
    BY <1>1, <1>2, <1>3, <2>2 DEF LoopInv, LoopKnows
  <2> QED  BY <1>5, <2>1, <2>2, <2>3, <2>4 DEF StepOK, LoopInv
<1>7. CASE ~ Processing(turn)
  <2>1. UNCHANGED <<slots, tasks_vars>>
    BY <1>1, <1>7
  <2>2. LoopInv'
    BY <1>1, <1>2, <1>3, <2>1 DEF LoopInv, LoopTypes, LoopKnows
  <2>3. QueuesGood' /\ QueuesApart' /\ IdsOf(Queued)' = IdsOf(Queued)
    BY <1>2, <2>1, QueuesStay DEF IdsOf
  <2>4. HandGood' /\ IdsOf(Taken)' = IdsOf(Taken)
    BY <1>1, <1>3, HandsFree
  <2>5. SlotsGood' /\ SlotsApart' /\ Early' = Early /\ Owned' = Owned
    BY <1>2, <2>1, <2>3, <2>4, SlotsStay
  <2>6. Progress' = Progress
    BY <2>1 DEF Progress, Idle, Processing
  <2>7. CASE id = NoTask
    <3>1. Quiet
      BY <1>1, <2>5, <2>6, <2>7 DEF Quiet, Frame
    <3> QED  BY <2>2, <2>3, <2>4, <2>5, <3>1 DEF StepOK, TasksInv
  <2>8. CASE id # NoTask
    <3>1. Posted(id) /\ id \notin Owned
      BY <1>2, <1>7, <2>8, SlotFacts
    <3>2. Answers(r)
      BY <1>1, <1>2, <1>5, <2>5, <2>6, <2>8, <3>1 DEF Answers, Frame
    <3> QED  BY <1>5, <2>2, <2>3, <2>4, <2>5, <2>8, <3>2 DEF StepOK, TasksInv
  <2> QED  BY <2>7, <2>8
<1> QED  BY <1>6, <1>7

\* Every step of the main loop is quiet, answers a task or sends a token of one.
LEMMA MainStepOK ==
    ASSUME IInv, MainStep
    PROVE  StepOK /\ Frame
<1>1. CASE TakeTask
  BY <1>1, TakeTaskOK DEF TakeTask, Frame, client_vars, history
<1>2. CASE ProcessTask
  <2>1. Frame
    BY <1>2 DEF ProcessTask, DeferTask, LaunchSlot, AnswerTask, CancelSlot, NextResponse,
                Processed, Frame, client_vars
  <2>2. ASSUME NextResponse PROVE StepOK
    <3>1. hand.type \notin Kinds
      BY <2>2 DEF NextResponse, Kinds
    <3> QED  BY <2>2, <3>1, NextResponseOK DEF NextResponse
  <2> QED  BY <1>2, <2>1, <2>2, DeferTaskOK, LaunchSlotOK, AnswerTaskOK, CancelSlotOK DEF ProcessTask
<1>3. CASE Wake \/ UpdateSlots \/ SkipPrompt \/ RefusePrompt \/ BatchPrompt
  <2>1. Frame
    BY <1>3 DEF Wake, UpdateSlots, SkipPrompt, RefusePrompt, BatchPrompt, PromptStep, Frame,
                client_vars, history
  <2> QED  BY <1>3, <2>1, WakeOK, UpdateSlotsOK, SkipPromptOK, RefusePromptOK, BatchPromptOK
<1>4. CASE \E s \in batch : DecodePrompt(s) \/ DecodeToken(s) \/ StopSlot(s)
  <2>1. PICK s \in batch : DecodePrompt(s) \/ DecodeToken(s) \/ StopSlot(s)
    BY <1>4
  <2>2. Frame
    BY <2>1 DEF DecodePrompt, DecodeToken, StopSlot, DecodeStep, Frame, client_vars, history
  <2> QED  BY <2>1, <2>2, DecodePromptOK, DecodeTokenOK, StopSlotOK
<1>5. CASE DecodeFails \/ FailSlot
  <2>1. Frame
    BY <1>5 DEF DecodeFails, FailSlot, Frame, client_vars, history
  <2> QED  BY <1>5, <2>1, DecodeFailsOK, FailSlotOK
<1> QED  BY <1>1, <1>2, <1>3, <1>4, <1>5 DEF MainStep

-----------------------------------------------------------------------------
(* What a step of the main loop does to the results *)

\* Requests do not change.
LEMMA SameRequests ==
    ASSUME request' = request
    PROVE  /\ Tasks' = Tasks
           /\ \A c : TaskIds(c)' = TaskIds(c)
           /\ \A t : RequestOf(t)' = RequestOf(t)
<1>1. \A c : TaskIds(c)' = TaskIds(c)
  BY DEF TaskIds
<1>2. Tasks' = Tasks
  BY <1>1 DEF Tasks
<1> QED  BY <1>1, <1>2 DEF RequestOf

\* Nor what a request may expect, as long as its stage is the same.
LEMMA SameStages ==
    ASSUME request' = request, stage' = stage
    PROVE  /\ \A c : Waits(c)' = Waits(c)
           /\ \A t : Posted(t)' = Posted(t)
           /\ \A t : Streaming(t)' = Streaming(t)
<1>1. \A c : Waits(c)' = Waits(c)
  BY DEF Waits
<1>2. \A t : Posted(t)' = Posted(t)
  BY SameRequests DEF Posted
<1>3. \A t : Streaming(t)' = Streaming(t)
  BY <1>1, SameRequests DEF Streaming
<1> QED  BY <1>1, <1>2, <1>3

\* The results are what they were.
LEMMA SameResults ==
    ASSUME queue_results' = queue_results, heard' = heard
    PROVE  /\ \A t : PartialsOf(t)' = PartialsOf(t)
           /\ \A t : LastResultOf(t)' = LastResultOf(t)
           /\ \A t : FinalsOf(t)' = FinalsOf(t)
           /\ \A t : InOrder(t)' = InOrder(t)
           /\ \A t, m : AllComing(t, m)' = AllComing(t, m)
<1>1. \A t : PartialsOf(t)' = PartialsOf(t)
  BY DEF PartialsOf
<1>2. \A t : LastResultOf(t)' = LastResultOf(t)
  BY DEF LastResultOf
<1>3. \A t : FinalsOf(t)' = FinalsOf(t)
  BY <1>2 DEF FinalsOf
<1>4. \A t : InOrder(t)' = InOrder(t)
  BY <1>1 DEF InOrder
<1>5. \A t : Coming(t)' = Coming(t)
  BY <1>1 DEF Coming
<1>6. \A t, m : AllComing(t, m)' = AllComing(t, m)
  BY <1>5 DEF AllComing
<1> QED  BY <1>1, <1>2, <1>3, <1>4, <1>6

\* What a quiet step leaves of the results is right.
LEMMA QuietOK ==
    ASSUME IInv, Quiet
    PROVE  ResultsInv'
<1>1. /\ UNCHANGED <<waiting_task_ids, queue_results, stage, request, n_finished, heard, answered>>
      /\ failures' = 0 => failures = 0
      /\ Early' \subseteq Early /\ Owned' \subseteq Owned
      /\ \A t \in Owned \ Owned' : ~ Waits(t[1])
      /\ \A p \in Progress' : \/ p \in Progress
                              \/ p[1] \in Early /\ p[2] = 0
                              \/ ~ Streaming(p[1])
  BY DEF Quiet, results_vars
<1>2. ResultsInv /\ request \in Loads
  BY DEF IInv, ClientTypes
<1>3. /\ Tasks' = Tasks /\ (\A c : TaskIds(c)' = TaskIds(c)) /\ (\A t : RequestOf(t)' = RequestOf(t))
  BY <1>1, SameRequests
<1>4. (\A c : Waits(c)' = Waits(c)) /\ (\A t : Posted(t)' = Posted(t))
      /\ (\A t : Streaming(t)' = Streaming(t))
  BY <1>1, SameStages
<1>5. /\ \A t : PartialsOf(t)' = PartialsOf(t)
      /\ \A t : LastResultOf(t)' = LastResultOf(t)
      /\ \A t : FinalsOf(t)' = FinalsOf(t)
      /\ \A t : InOrder(t)' = InOrder(t)
      /\ \A t, m : AllComing(t, m)' = AllComing(t, m)
  BY <1>1, SameResults
<1>6. ResultTypes'
  BY <1>1, <1>2, <1>3, <1>4 DEF ResultsInv, ResultTypes, Results, Elements
<1>7. OwnedOpen'
  BY <1>1, <1>2, <1>5 DEF ResultsInv, OwnedOpen
<1>8. FinalFirst' /\ PartialsFirst' /\ LastOnce'
  BY <1>1, <1>2, <1>3, <1>5 DEF ResultsInv, FinalFirst, PartialsFirst, LastOnce
<1>9. WaitedFor'
  <2>1. ASSUME NEW c \in Clients, Waits(c), NEW t \in TaskIds(c), t \in Owned PROVE t \in Owned'
    BY <1>1, <1>2, <2>1, TasksOfClients
  <2> QED  BY <1>1, <1>2, <1>3, <1>4, <1>5, <2>1 DEF ResultsInv, WaitedFor
<1>10. StagesKnow' /\ NoneStray'
  BY <1>1, <1>2, <1>3 DEF ResultsInv, StagesKnow, NoneStray, Elements
<1>11. StreamsRight'
  <2>1. \A p \in Progress' : Streaming(p[1]) => AllComing(p[1], p[2])
    BY <1>1, <1>2 DEF ResultsInv, StreamsRight
  <2>2. \A p \in Progress' : Streaming(p[1])' => AllComing(p[1], p[2])'
    BY <1>4, <1>5, <2>1
  <2> QED  BY <1>1, <1>2, <1>3, <1>4, <1>5, <2>2 DEF ResultsInv, StreamsRight, Elements
<1> QED  BY <1>6, <1>7, <1>8, <1>9, <1>10, <1>11 DEF ResultsInv

\* A result that nobody waits for changes nothing; else it comes last.
LEMMA Sent ==
    ASSUME queue_results \in Seq(Results), NEW r \in Results, Send(r), r.id \in waiting_task_ids
    PROVE  /\ waiting_task_ids' = waiting_task_ids /\ queue_results' \in Seq(Results)
           /\ Elements(queue_results') = Elements(queue_results) \cup {r}
           /\ \E N \in Nat :
                 /\ \A t : \A i \in PartialsOf(t) \cup LastResultOf(t) :
                       i < N /\ queue_results'[i] = queue_results[i]
                 /\ queue_results'[N] = r
                 /\ \A t : PartialsOf(t)' = PartialsOf(t) \cup
                       (IF r.id = t /\ r.kind = "partial" THEN {N} ELSE {})
                 /\ \A t : LastResultOf(t)' = LastResultOf(t) \cup
                       (IF r.id = t /\ r.kind # "partial" THEN {N} ELSE {})
<1> DEFINE q == queue_results
           n == Len(q)
           N == n + 1
<1>1. queue_results' = Append(q, r) /\ waiting_task_ids' = waiting_task_ids
  BY DEF Send
<1>2. /\ n \in Nat /\ Append(q, r) \in Seq(Results)
      /\ Elements(Append(q, r)) = Elements(q) \cup {r}
  BY Appended, LenProperties
<1>3. /\ DOMAIN q = 1 .. n /\ DOMAIN queue_results' = 1 .. N
      /\ \A i \in 1 .. n : queue_results'[i] = q[i]
      /\ queue_results'[N] = r
  BY <1>1, <1>2, AppendProperties, LenProperties
<1>4. /\ \A i \in 1 .. N : i \in 1 .. n \/ i = N
      /\ \A i \in 1 .. n : i \in 1 .. N /\ i < N
      /\ N \in 1 .. N /\ N \in Nat
  BY <1>2
<1>5. \A t : PartialsOf(t) \subseteq 1 .. n /\ LastResultOf(t) \subseteq 1 .. n
  BY <1>3 DEF PartialsOf, LastResultOf
<1> HIDE DEF N, n
<1>6. ASSUME NEW t
      PROVE  PartialsOf(t)' = PartialsOf(t) \cup (IF r.id = t /\ r.kind = "partial" THEN {N} ELSE {})
  BY <1>3, <1>4 DEF PartialsOf
<1>7. ASSUME NEW t
      PROVE  LastResultOf(t)' = LastResultOf(t) \cup (IF r.id = t /\ r.kind # "partial" THEN {N} ELSE {})
  BY <1>3, <1>4 DEF LastResultOf
<1>8. \A t : \A i \in PartialsOf(t) \cup LastResultOf(t) : i < N /\ queue_results'[i] = q[i]
  BY <1>3, <1>4, <1>5
<1> QED  BY <1>1, <1>2, <1>3, <1>4, <1>6, <1>7, <1>8

\* What the places of the results are.
LEMMA Places ==
    ASSUME queue_results \in Seq(Results), NEW t
    PROVE  /\ PartialsOf(t) \subseteq 1 .. Len(queue_results) /\ PartialsOf(t) \subseteq Nat
           /\ LastResultOf(t) \subseteq 1 .. Len(queue_results) /\ LastResultOf(t) \subseteq Nat
           /\ FinalsOf(t) \subseteq LastResultOf(t)
           /\ \A i \in PartialsOf(t) \cup LastResultOf(t) :
                 queue_results[i] \in Results /\ queue_results[i] \in Elements(queue_results)
           /\ \A i \in 1 .. Len(queue_results) : queue_results[i].id = t =>
                 i \in PartialsOf(t) \/ i \in LastResultOf(t)
<1>1. DOMAIN queue_results = 1 .. Len(queue_results) /\ Len(queue_results) \in Nat
  BY LenProperties
<1>2. \A i \in 1 .. Len(queue_results) : queue_results[i] \in Results
  BY ElementOfSeq
<1> QED  BY <1>1, <1>2 DEF PartialsOf, LastResultOf, FinalsOf, Elements

\* A task that is somebody's and waited for has a client that takes its results.
LEMMA OwnedWaited ==
    ASSUME ResultsInv, request \in Loads, ClientTypes, NEW t \in Owned, t \in waiting_task_ids, Posted(t)
    PROVE  stage[t[1]] \in {"open", "recv", "cancel", "drop"}
<1>1. t \in Tasks /\ t \notin answered /\ t[1] \in Clients
  BY TaskParts DEF Posted, ResultsInv, OwnedOpen
<1>2. stage[t[1]] \in Stages \ {"new", "added", "forgotten", "dropped", "done", "remove"}
  BY <1>1 DEF ResultsInv, StagesKnow, Posted, ClientTypes
<1> QED  BY <1>2 DEF Stages

\* So are they after the last result of a task that was somebody's.
LEMMA AnswersOK ==
    ASSUME IInv, NEW r \in Results, Answers(r)
    PROVE  ResultsInv'
<1>1. /\ Send(r) /\ UNCHANGED <<stage, request, n_finished, heard, answered, failures>>
      /\ r.kind # "partial" /\ Posted(r.id)
      /\ r.id \in Owned \/ (r.kind = "error" /\ failures > 0)
      /\ Early' \subseteq Early /\ Owned' = Owned \ {r.id} /\ Progress' \subseteq Progress
      /\ r.kind = "final" /\ Streaming(r.id) => AllComing(r.id, r.n)
  BY DEF Answers
<1>2. ResultsInv /\ request \in Loads /\ ClientTypes
  BY DEF IInv, ClientTypes
<1>3. r.id \in Tasks /\ r.id[1] \in Clients /\ r.id \in TaskIds(r.id[1])
  BY <1>1, <1>2, TaskParts DEF Posted
<1>4. CASE r.id \notin waiting_task_ids
  <2>1. ~ Waits(r.id[1])
    BY <1>2, <1>3, <1>4 DEF ResultsInv, WaitedFor
  <2>2. UNCHANGED results_vars
    BY <1>1, <1>4 DEF Send, results_vars
  <2>3. Quiet
    BY <1>1, <2>1, <2>2 DEF Quiet
  <2> QED  BY <2>3, QuietOK
<1>5. CASE r.id \in waiting_task_ids
  <2>0. queue_results \in Seq(Results) /\ failures \in Nat
    BY <1>2 DEF ResultsInv, ResultTypes, IInv, LoopInv, LoopTypes
  <2>1. /\ waiting_task_ids' = waiting_task_ids /\ queue_results' \in Seq(Results)
        /\ Elements(queue_results') = Elements(queue_results) \cup {r}
    BY <1>1, <1>5, <2>0, Sent
  <2>2. PICK N \in Nat :
           /\ \A t : \A i \in PartialsOf(t) \cup LastResultOf(t) :
                 i < N /\ queue_results'[i] = queue_results[i]
           /\ queue_results'[N] = r
           /\ \A t : PartialsOf(t)' = PartialsOf(t) \cup
                 (IF r.id = t /\ r.kind = "partial" THEN {N} ELSE {})
           /\ \A t : LastResultOf(t)' = LastResultOf(t) \cup
                 (IF r.id = t /\ r.kind # "partial" THEN {N} ELSE {})
    BY <1>1, <1>5, <2>0, Sent
  <2>3. /\ Tasks' = Tasks /\ (\A c : TaskIds(c)' = TaskIds(c)) /\ (\A t : RequestOf(t)' = RequestOf(t))
    BY <1>1, SameRequests
  <2>4. (\A c : Waits(c)' = Waits(c)) /\ (\A t : Posted(t)' = Posted(t))
        /\ (\A t : Streaming(t)' = Streaming(t))
    BY <1>1, SameStages
  <2>5. /\ \A t : PartialsOf(t)' = PartialsOf(t)
        /\ \A t : t # r.id => LastResultOf(t)' = LastResultOf(t)
        /\ LastResultOf(r.id)' = LastResultOf(r.id) \cup {N}
    BY <1>1, <2>2
  <2>6. /\ \A t : t # r.id => FinalsOf(t)' = FinalsOf(t)
        /\ FinalsOf(r.id)' = FinalsOf(r.id) \cup (IF r.kind = "final" THEN {N} ELSE {})
    BY <2>2, <2>5 DEF FinalsOf
  <2>7. r.id \in Owned => LastResultOf(r.id) = {} /\ r.id \notin answered /\ FinalsOf(r.id) = {}
    BY <1>2 DEF ResultsInv, OwnedOpen, FinalsOf
  <2>8. \A t, m : AllComing(t, m)' = AllComing(t, m)
    <3>1. \A t : Coming(t)' = Coming(t)
      BY <2>2, <2>5 DEF Coming
    <3> QED  BY <1>1, <3>1 DEF AllComing
  <2>9. \A t : InOrder(t) => InOrder(t)'
    BY <2>2, <2>5 DEF InOrder
  <2>10. ResultTypes'
    BY <1>1, <1>2, <2>1, <2>3, <2>4 DEF ResultsInv, ResultTypes, Results
  <2>11. OwnedOpen'
    BY <1>1, <1>2, <2>5 DEF ResultsInv, OwnedOpen
  <2>12. FinalFirst'
    <3>1. ASSUME NEW t \in Tasks, NEW i \in FinalsOf(t)'
          PROVE  t \notin answered /\ \A j \in LastResultOf(t)' : i <= j
      <4>1. CASE t # r.id
        BY <1>2, <2>5, <2>6, <3>1, <4>1 DEF ResultsInv, FinalFirst
      <4>2. CASE t = r.id /\ r.id \in Owned
        BY <2>2, <2>5, <2>6, <2>7, <3>1, <4>2
      <4>3. CASE t = r.id /\ r.kind = "error"
        <5>1. i \in FinalsOf(t)
          BY <2>6, <3>1, <4>3
        <5>2. i < N /\ i \in Nat
          BY <2>0, <2>2, <5>1, Places
        <5> QED  BY <1>2, <2>5, <3>1, <4>3, <5>1, <5>2 DEF ResultsInv, FinalFirst
      <4> QED  BY <1>1, <4>1, <4>2, <4>3
    <3> QED  BY <1>1, <2>3, <3>1 DEF FinalFirst
  <2>13. PartialsFirst'
    <3>1. ASSUME NEW t \in Tasks, NEW i \in PartialsOf(t)
          PROVE  t \notin answered /\ \A j \in LastResultOf(t)' : i < j
      BY <1>2, <2>2, <2>5, <3>1 DEF ResultsInv, PartialsFirst
    <3> QED  BY <1>1, <2>3, <2>5, <3>1 DEF PartialsFirst
  <2>14. LastOnce'
    <3>1. ASSUME failures = 0, NEW t \in Tasks, NEW i \in LastResultOf(t)'
          PROVE  t \notin answered /\ LastResultOf(t)' = {i}
      <4>1. CASE t # r.id
        BY <1>2, <2>5, <3>1, <4>1 DEF ResultsInv, LastOnce
      <4>2. CASE t = r.id
        BY <1>1, <2>0, <2>5, <2>7, <3>1, <4>2
      <4> QED  BY <4>1, <4>2
    <3> QED  BY <1>1, <2>3, <3>1 DEF LastOnce
  <2>15. WaitedFor'
    <3>1. ASSUME NEW c \in Clients, Waits(c), NEW t \in TaskIds(c)
          PROVE  t \in Owned' \/ LastResultOf(t)' # {} \/ t \in answered
      BY <1>1, <1>2, <2>5, <3>1 DEF ResultsInv, WaitedFor
    <3> QED  BY <1>1, <1>2, <2>1, <2>3, <2>4, <3>1 DEF ResultsInv, WaitedFor
  <2>16. StagesKnow'
    BY <1>1, <1>2, <2>1, <2>3 DEF ResultsInv, StagesKnow
  <2>17. NoneStray'
    <3>1. failures = 0 => stage[r.id[1]] \in {"open", "recv", "cancel", "drop"}
      BY <1>1, <1>2, <1>5, <2>0, OwnedWaited
    <3> QED  BY <1>1, <1>2, <2>1, <3>1 DEF ResultsInv, NoneStray
  <2>18. StreamsRight'
    BY <1>1, <1>2, <2>1, <2>3, <2>4, <2>8, <2>9 DEF ResultsInv, StreamsRight
  <2> QED  BY <2>10, <2>11, <2>12, <2>13, <2>14, <2>15, <2>16, <2>17, <2>18 DEF ResultsInv
<1> QED  BY <1>4, <1>5

\* And after a partial result with the next number.
LEMMA StreamsOK ==
    ASSUME IInv, NEW u \in Tasks, NEW m \in Nat, Streams(u, m)
    PROVE  ResultsInv'
<1> DEFINE r == Partial(u, m + 1)
<1>1. /\ Send(r) /\ UNCHANGED <<stage, request, n_finished, heard, answered, failures>>
      /\ Posted(u) /\ RequestOf(u).kind = "stream" /\ <<u, m>> \in Progress
      /\ m + 1 <= MaxTokens
      /\ Early' = Early /\ u \notin Early /\ Owned' = Owned
      /\ \A p \in Progress' : (p \in Progress /\ p[1] # u) \/ p = <<u, m + 1>>
  BY DEF Streams
<1>2. ResultsInv /\ request \in Loads /\ ClientTypes
  BY DEF IInv, ClientTypes
<1>3. u[1] \in Clients /\ u \in TaskIds(u[1]) /\ u \in Clients \X Nat
  BY <1>2, TaskParts
<1>4. r \in Results /\ r.id = u /\ r.kind = "partial" /\ r.n = m + 1
  BY <1>3 DEF Results, Partial, Result
<1>5. u \in Owned /\ LastResultOf(u) = {} /\ u \notin answered
  <2>1. u \in Busy
    BY <1>1 DEF Progress, Busy
  <2> QED  BY <1>2, <2>1 DEF Owned, ResultsInv, OwnedOpen
<1> HIDE DEF r
<1>6. CASE r.id \notin waiting_task_ids
  <2>1. ~ Waits(u[1])
    BY <1>2, <1>3, <1>4, <1>6 DEF ResultsInv, WaitedFor
  <2>2. UNCHANGED results_vars
    BY <1>1, <1>6 DEF Send, results_vars
  <2>3. \A p \in Progress' : p \in Progress \/ ~ Streaming(p[1])
    <3>1. ~ Streaming(u)
      BY <2>1 DEF Streaming
    <3>2. \A p : p = <<u, m + 1>> => p[1] = u
      OBVIOUS
    <3> QED  BY <1>1, <3>1, <3>2
  <2>4. Quiet
    BY <1>1, <2>2, <2>3 DEF Quiet
  <2> QED  BY <2>4, QuietOK
<1>7. CASE r.id \in waiting_task_ids
  <2>0. queue_results \in Seq(Results) /\ failures \in Nat /\ MaxTokens \in Nat
    BY <1>2, ServerAssumption DEF ResultsInv, ResultTypes, IInv, LoopInv, LoopTypes
  <2>1. /\ waiting_task_ids' = waiting_task_ids /\ queue_results' \in Seq(Results)
        /\ Elements(queue_results') = Elements(queue_results) \cup {r}
    BY <1>1, <1>4, <1>7, <2>0, Sent
  <2>2. PICK N \in Nat :
           /\ \A t : \A i \in PartialsOf(t) \cup LastResultOf(t) :
                 i < N /\ queue_results'[i] = queue_results[i]
           /\ queue_results'[N] = r
           /\ \A t : PartialsOf(t)' = PartialsOf(t) \cup
                 (IF r.id = t /\ r.kind = "partial" THEN {N} ELSE {})
           /\ \A t : LastResultOf(t)' = LastResultOf(t) \cup
                 (IF r.id = t /\ r.kind # "partial" THEN {N} ELSE {})
    BY <1>1, <1>4, <1>7, <2>0, Sent
  <2>3. /\ Tasks' = Tasks /\ (\A c : TaskIds(c)' = TaskIds(c)) /\ (\A t : RequestOf(t)' = RequestOf(t))
    BY <1>1, SameRequests
  <2>4. (\A c : Waits(c)' = Waits(c)) /\ (\A t : Posted(t)' = Posted(t))
        /\ (\A t : Streaming(t)' = Streaming(t))
    BY <1>1, SameStages
  <2>5. /\ \A t : LastResultOf(t)' = LastResultOf(t)
        /\ \A t : t # u => PartialsOf(t)' = PartialsOf(t)
        /\ PartialsOf(u)' = PartialsOf(u) \cup {N}
    BY <1>4, <2>2
  <2>6. \A t : FinalsOf(t)' = FinalsOf(t)
    BY <2>2, <2>5 DEF FinalsOf
  <2>7. \A t : t # u => Coming(t)' = Coming(t)
    BY <2>2, <2>5 DEF Coming
  <2>8. Coming(u)' = Coming(u) \cup {m + 1}
    <3>1. Coming(u)' = {queue_results'[i].n : i \in PartialsOf(u) \cup {N}}
      BY <2>5 DEF Coming
    <3>2. \A i \in PartialsOf(u) : queue_results'[i] = queue_results[i]
      BY <2>2
    <3> QED  BY <1>4, <2>2, <3>1, <3>2 DEF Coming
  <2>9. \A t, k : t # u => AllComing(t, k)' = AllComing(t, k)
    BY <1>1, <2>7 DEF AllComing
  <2>10. ASSUME AllComing(u, m) PROVE AllComing(u, m + 1)'
    <3> DEFINE taken == heard[u[1]][u[2]]
    <3>1. taken \in Nat
      BY <1>2, <1>3, TaskParts DEF ClientTypes
    <3>2. taken <= m /\ Coming(u) = taken + 1 .. m
      BY <2>10 DEF AllComing
    <3> HIDE DEF taken
    <3>3. taken <= m + 1 /\ taken + 1 .. m + 1 = (taken + 1 .. m) \cup {m + 1}
      BY <3>1, <3>2
    <3> QED  BY <1>1, <2>8, <3>2, <3>3 DEF AllComing, taken
  <2>11. Streaming(u) => AllComing(u, m)
    <3>1. <<u, m>>[1] = u /\ <<u, m>>[2] = m
      OBVIOUS
    <3> QED  BY <1>1, <1>2, <3>1 DEF ResultsInv, StreamsRight
  <2>12. ASSUME NEW t \in Tasks, Streaming(t) PROVE InOrder(t)'
    <3>1. InOrder(t)
      BY <1>2, <2>12 DEF ResultsInv, StreamsRight
    <3>2. CASE t # u
      BY <2>2, <2>5, <3>1, <3>2 DEF InOrder
    <3>3. CASE t = u
      <4> DEFINE taken == heard[u[1]][u[2]]
      <4>1. taken \in Nat
        BY <1>2, <1>3, TaskParts DEF ClientTypes
      <4>2. Coming(u) = taken + 1 .. m
        BY <2>11, <2>12, <3>3 DEF AllComing
      <4> HIDE DEF taken
      <4>3. \A j \in PartialsOf(u) : queue_results[j].n \in taken + 1 .. m
        BY <4>2 DEF Coming
      <4>4. \A j \in PartialsOf(u) : /\ queue_results'[j].n < queue_results'[N].n
                                     /\ j < N /\ j \in Nat
        BY <1>4, <2>0, <2>2, <4>1, <4>3, Places
      <4>5. ASSUME NEW j \in PartialsOf(u)', NEW k \in PartialsOf(u)', j < k
            PROVE  queue_results'[j].n < queue_results'[k].n
        <5>1. CASE j \in PartialsOf(u) /\ k \in PartialsOf(u)
          BY <2>2, <3>1, <3>3, <4>5, <5>1 DEF InOrder
        <5>2. CASE j \in PartialsOf(u) /\ k = N
          BY <4>4, <5>2
        <5>3. CASE j = N
          BY <2>5, <4>4, <4>5, <5>3
        <5> QED  BY <2>5, <4>5, <5>1, <5>2, <5>3
      <4> QED  BY <3>3, <4>5 DEF InOrder
    <3> QED  BY <3>2, <3>3
  <2>13. ResultTypes'
    BY <1>1, <1>2, <1>4, <2>1, <2>3, <2>4 DEF ResultsInv, ResultTypes, Results
  <2>14. OwnedOpen'
    BY <1>1, <1>2, <2>5 DEF ResultsInv, OwnedOpen
  <2>15. FinalFirst' /\ LastOnce'
    BY <1>1, <1>2, <2>3, <2>5, <2>6 DEF ResultsInv, FinalFirst, LastOnce
  <2>16. PartialsFirst'
    BY <1>1, <1>2, <1>5, <2>3, <2>5 DEF ResultsInv, PartialsFirst
  <2>17. WaitedFor'
    BY <1>1, <1>2, <2>1, <2>3, <2>4, <2>5 DEF ResultsInv, WaitedFor
  <2>18. StagesKnow'
    BY <1>1, <1>2, <2>1, <2>3 DEF ResultsInv, StagesKnow
  <2>19. NoneStray'
    <3>1. stage[u[1]] \in {"open", "recv", "cancel", "drop"}
      BY <1>1, <1>2, <1>4, <1>5, <1>7, OwnedWaited
    <3> QED  BY <1>1, <1>2, <1>4, <2>1, <3>1 DEF ResultsInv, NoneStray
  <2>20. StreamsRight'
    <3>1. ASSUME NEW p \in Progress', Streaming(p[1]) PROVE AllComing(p[1], p[2])'
      <4>1. CASE p \in Progress /\ p[1] # u
        BY <1>2, <2>9, <3>1, <4>1 DEF ResultsInv, StreamsRight
      <4>2. CASE p = <<u, m + 1>>
        <5>1. p[1] = u /\ p[2] = m + 1
          BY <4>2
        <5> QED  BY <2>10, <2>11, <3>1, <5>1
      <4> QED  BY <1>1, <4>1, <4>2
    <3>2. ASSUME NEW x \in Elements(queue_results)', x.kind = "final", Streaming(x.id)
          PROVE  AllComing(x.id, x.n)'
      <4>1. x \in Elements(queue_results)
        BY <1>4, <2>1, <3>2
      <4>2. x.id # u
        <5>1. PICK i \in 1 .. Len(queue_results) : x = queue_results[i]
          BY <4>1 DEF Elements
        <5>2. DOMAIN queue_results = 1 .. Len(queue_results)
          BY <2>0, LenProperties
        <5> QED  BY <1>5, <3>2, <5>1, <5>2 DEF LastResultOf
      <4> QED  BY <1>2, <2>9, <3>2, <4>1, <4>2 DEF ResultsInv, StreamsRight
    <3>3. ASSUME NEW t \in Early, Streaming(t) PROVE AllComing(t, 0)'
      BY <1>1, <1>2, <2>9, <3>3 DEF ResultsInv, StreamsRight
    <3>4. ASSUME NEW t \in Tasks, Streaming(t) PROVE \E k \in 0 .. MaxTokens : AllComing(t, k)'
      <4>1. CASE t = u
        <5>1. m + 1 \in 0 .. MaxTokens
          BY <1>1, <2>0
        <5> QED  BY <2>10, <2>11, <3>4, <4>1, <5>1
      <4>2. CASE t # u
        BY <1>2, <2>9, <3>4, <4>2 DEF ResultsInv, StreamsRight
      <4> QED  BY <4>1, <4>2
    <3> QED  BY <1>1, <2>3, <2>4, <2>12, <3>1, <3>2, <3>3, <3>4 DEF StreamsRight
  <2> QED  BY <2>13, <2>14, <2>15, <2>16, <2>17, <2>18, <2>19, <2>20 DEF ResultsInv
<1> QED  BY <1>6, <1>7

\* A step of the main loop.
LEMMA MainStepKeeps ==
    ASSUME IInv, MainStep
    PROVE  IInv'
<1>1. StepOK /\ Frame
  BY MainStepOK
<1>2. ClientTypes'
  BY <1>1 DEF IInv, ClientTypes, Frame
<1>3. ResultsInv'
  BY <1>1, QuietOK, AnswersOK, StreamsOK DEF StepOK
<1> QED  BY <1>1, <1>2, <1>3 DEF StepOK, IInv

-----------------------------------------------------------------------------
(* The steps of the HTTP threads *)

\* They leave the main loop alone.
LEMMA LoopStays ==
    ASSUME IInv, StagesGrow, UNCHANGED main_vars, UNCHANGED <<failures, refusals, misfired>>
    PROVE  /\ LoopInv' /\ HandGood' /\ Taken' = Taken /\ Progress' = Progress /\ Busy' = Busy
           /\ \A s \in Slots : /\ slots'[s].id_task = slots[s].id_task
                               /\ slots'[s].state = "idle" <=> slots[s].state = "idle"
<1>1. /\ UNCHANGED <<slots, main, hand, turn, batched, batch, n_tokens, failures, refusals, misfired>>
      /\ TasksInv /\ LoopInv /\ request \in Loads
  BY DEF main_vars, IInv, ClientTypes
<1>2. LoopInv'
  BY <1>1 DEF LoopInv, LoopTypes, LoopKnows
<1>3. Taken' = Taken
  BY <1>1 DEF Taken
<1>4. HandGood'
  <2>1. \A e \in Taken' : GoodEntry(e)'
    BY <1>1, <1>3, GoodGrows DEF TasksInv, HandGood
  <2> QED  BY <1>1, <2>1 DEF TasksInv, HandGood
<1>5. Progress' = Progress /\ Busy' = Busy
  BY <1>1 DEF Progress, Busy, Idle, Processing
<1> QED  BY <1>1, <1>2, <1>3, <1>4, <1>5

\* Most of them leave the tasks alone.
LEMMA TasksStay ==
    ASSUME IInv, StagesGrow, UNCHANGED tasks_vars, UNCHANGED main_vars,
           UNCHANGED <<failures, refusals, misfired>>
    PROVE  LoopInv' /\ TasksInv' /\ Early' = Early /\ Owned' = Owned /\ Progress' = Progress
<1>1. TasksInv /\ request \in Loads
  BY DEF IInv, ClientTypes
<1>2. /\ LoopInv' /\ HandGood' /\ Taken' = Taken /\ Progress' = Progress
      /\ \A s \in Slots : /\ slots'[s].id_task = slots[s].id_task
                          /\ slots'[s].state = "idle" <=> slots[s].state = "idle"
  BY LoopStays
<1>3. QueuesGood' /\ QueuesApart' /\ Queued' = Queued
  BY <1>1, QueuesStay
<1>4. IdsOf(Queued)' = IdsOf(Queued) /\ IdsOf(Taken)' = IdsOf(Taken)
  BY <1>2, <1>3 DEF IdsOf
<1>5. SlotsGood' /\ SlotsApart' /\ Early' = Early /\ Owned' = Owned
  BY <1>1, <1>2, <1>4, SlotsStay
<1> QED  BY <1>2, <1>3, <1>5 DEF TasksInv

\* What changes for the client c is its stage.
Moves(c, x) == /\ stage' = [stage EXCEPT ![c] = x]
               /\ UNCHANGED <<request, heard, answered>>
               /\ UNCHANGED main_vars /\ UNCHANGED <<failures, refusals, misfired>>

\* Such a step takes no request back.
LEMMA MovesGrow ==
    ASSUME ClientTypes, NEW c \in Clients, NEW x \in Stages, Moves(c, x),
           stage[c] \notin {"new", "added"} => x \notin {"new", "added"},
           stage[c] = "done" => x = "done"
    PROVE  /\ StagesGrow
           /\ stage'[c] = x /\ \A d \in Clients \ {c} : stage'[d] = stage[d]
           /\ n_finished' = n_finished /\ closed' \in [Clients -> BOOLEAN] => ClientTypes'
<1>1. stage'[c] = x /\ \A d \in Clients \ {c} : stage'[d] = stage[d]
  BY DEF ClientTypes, Moves
<1>2. StagesGrow
  BY <1>1 DEF StagesGrow, Moves
<1>3. stage' \in [Clients -> Stages]
  BY DEF ClientTypes, Moves
<1>4. n_finished' = n_finished /\ closed' \in [Clients -> BOOLEAN] => ClientTypes'
  BY <1>3 DEF ClientTypes, Moves
<1> QED  BY <1>1, <1>2, <1>4

\* Whether the connection is there matters to the client's next steps only.
LEMMA CloseConnectionKeeps ==
    ASSUME IInv, NEW c \in Clients, CloseConnection(c)
    PROVE  IInv'
<1>1. /\ UNCHANGED tasks_vars /\ UNCHANGED results_vars /\ UNCHANGED main_vars
      /\ UNCHANGED <<request, stage, n_finished, heard, answered, failures, refusals, misfired>>
      /\ closed' = [closed EXCEPT ![c] = TRUE]
  BY DEF CloseConnection, history
<1>2. ClientTypes /\ StagesGrow
  BY <1>1 DEF IInv, StagesGrow
<1>3. LoopInv' /\ TasksInv' /\ Early' = Early /\ Owned' = Owned /\ Progress' = Progress
  BY <1>1, <1>2, TasksStay
<1>4. ClientTypes'
  BY <1>1, <1>2 DEF ClientTypes
<1>5. Quiet
  BY <1>1, <1>3 DEF Quiet
<1>6. ResultsInv'
  BY <1>5, QuietOK
<1> QED  BY <1>3, <1>4, <1>6 DEF IInv

\* Nothing is known of a request that is not posted.
LEMMA UnpostedFacts ==
    ASSUME IInv, NEW c \in Clients, stage[c] \in {"new", "added"}, NEW t \in TaskIds(c)
    PROVE  /\ t \in Tasks /\ t[1] = c /\ ~ Posted(t)
           /\ t \notin Owned /\ t \notin answered
           /\ PartialsOf(t) = {} /\ LastResultOf(t) = {}
           /\ heard[t[1]][t[2]] = 0 /\ n_finished[c] = 0
           /\ \A s \in Slots : slots[s].id_task # t
<1>1. ResultsInv /\ TasksInv /\ request \in Loads
  BY DEF IInv, ClientTypes
<1>2. t \in Tasks /\ t[1] = c
  BY <1>1, TasksOfClients
<1>3. ~ Posted(t)
  BY <1>2 DEF Posted
<1>4. t \notin answered /\ heard[t[1]][t[2]] = 0 /\ n_finished[c] = 0
  BY <1>1, <1>2, <1>3 DEF ResultsInv, ResultTypes
<1>5. PartialsOf(t) = {} /\ LastResultOf(t) = {}
  <2>1. DOMAIN queue_results = 1 .. Len(queue_results)
    BY <1>1, LenProperties DEF ResultsInv, ResultTypes
  <2>2. \A i \in DOMAIN queue_results : queue_results[i].id # t
    BY <1>1, <1>3, <2>1 DEF ResultsInv, ResultTypes, Elements
  <2> QED  BY <2>2 DEF PartialsOf, LastResultOf
<1>6. t # NoTask
  BY <1>1, <1>2, TaskParts
<1>7. \A s \in Slots : slots[s].id_task # t
  BY <1>1, <1>3, <1>6 DEF TasksInv, SlotsGood
<1>8. t \notin Owned
  <2>1. \A e \in Queued \cup Taken : e.id # t
    BY <1>1, <1>3, <1>6 DEF TasksInv, QueuesGood, HandGood, GoodEntry
  <2> QED  BY <1>7, <2>1 DEF Owned, Early, IdsOf, Busy, Idle
<1> QED  BY <1>2, <1>3, <1>4, <1>5, <1>7, <1>8

\* The ids are waited for before anybody has the tasks.
LEMMA AnnounceKeeps ==
    ASSUME IInv, NEW c \in Clients, Announce(c)
    PROVE  IInv'
<1>1. /\ stage[c] = "new" /\ waiting_task_ids' = waiting_task_ids \cup TaskIds(c)
      /\ UNCHANGED <<queue_results, n_finished, closed, failures>>
      /\ UNCHANGED tasks_vars /\ Moves(c, "added")
  BY DEF Announce, AddWaiting, Moves, history
<1>2. request' = request /\ heard' = heard /\ answered' = answered
      /\ UNCHANGED main_vars /\ UNCHANGED <<failures, refusals, misfired>>
  BY <1>1 DEF Moves
<1>3. ClientTypes /\ ResultsInv /\ request \in Loads /\ "added" \in Stages
  BY DEF IInv, ClientTypes, Stages
<1>4. /\ StagesGrow /\ stage'[c] = "added" /\ \A d \in Clients \ {c} : stage'[d] = stage[d]
      /\ ClientTypes'
  BY <1>1, <1>3, MovesGrow DEF ClientTypes
<1>5. LoopInv' /\ TasksInv' /\ Early' = Early /\ Owned' = Owned /\ Progress' = Progress
  BY <1>1, <1>2, <1>4, TasksStay
<1>6. /\ Tasks' = Tasks /\ (\A d : TaskIds(d)' = TaskIds(d)) /\ (\A t : RequestOf(t)' = RequestOf(t))
  BY <1>2, SameRequests
<1>7. /\ \A t : PartialsOf(t)' = PartialsOf(t)
      /\ \A t : LastResultOf(t)' = LastResultOf(t)
      /\ \A t : FinalsOf(t)' = FinalsOf(t)
      /\ \A t : InOrder(t)' = InOrder(t)
      /\ \A t, m : AllComing(t, m)' = AllComing(t, m)
  BY <1>1, <1>2, SameResults
<1>8. \A t \in Tasks : t[1] \in Clients /\ t \in TaskIds(t[1])
  BY <1>3, TaskParts
<1>9. \A d \in Clients : Waits(d)' <=> Waits(d)
  BY <1>1, <1>4 DEF Waits
<1>10. \A t : Posted(t)' <=> Posted(t)
  BY <1>1, <1>4, <1>6, <1>8 DEF Posted
<1>11. \A t : Streaming(t)' <=> Streaming(t)
  BY <1>6, <1>8, <1>9 DEF Streaming
<1>12. \A t \in TaskIds(c) : t \in Tasks /\ t[1] = c /\ ~ Posted(t)
  BY <1>1, UnpostedFacts
<1>13. ResultTypes'
  <2>1. \A d \in Clients : stage'[d] \in {"new", "added"} => n_finished[d] = 0
    BY <1>1, <1>3, <1>4 DEF ResultsInv, ResultTypes
  <2> QED  BY <1>1, <1>2, <1>3, <1>6, <1>10, <1>12, <2>1 DEF ResultsInv, ResultTypes, Results, Elements
<1>14. OwnedOpen'
  BY <1>2, <1>3, <1>5, <1>7 DEF ResultsInv, OwnedOpen
<1>15. FinalFirst' /\ PartialsFirst' /\ LastOnce'
  BY <1>1, <1>2, <1>3, <1>6, <1>7 DEF ResultsInv, FinalFirst, PartialsFirst, LastOnce
<1>16. WaitedFor'
  BY <1>1, <1>2, <1>3, <1>5, <1>6, <1>7, <1>9 DEF ResultsInv, WaitedFor
<1>17. StagesKnow'
  <2>1. ASSUME NEW t \in Tasks, t[1] = c
        PROVE  t \in waiting_task_ids'
    BY <1>1, <1>8, <2>1
  <2>2. ASSUME NEW t \in Tasks, t[1] # c
        PROVE  stage'[t[1]] = stage[t[1]] /\ (t \in waiting_task_ids' <=> t \in waiting_task_ids)
    BY <1>1, <1>4, <1>8, <1>12, <2>2
  <2> QED  BY <1>2, <1>3, <1>4, <1>6, <2>1, <2>2 DEF ResultsInv, StagesKnow
<1>18. NoneStray'
  <2>1. \A r \in Elements(queue_results) : r.id[1] \in Clients \ {c}
    BY <1>1, <1>3, <1>8 DEF ResultsInv, ResultTypes, Posted
  <2> QED  BY <1>1, <1>3, <1>4, <2>1 DEF ResultsInv, NoneStray, Elements
<1>19. StreamsRight'
  BY <1>1, <1>3, <1>5, <1>6, <1>7, <1>11 DEF ResultsInv, StreamsRight, Elements
<1> QED  BY <1>4, <1>5, <1>13, <1>14, <1>15, <1>16, <1>17, <1>18, <1>19 DEF IInv, ResultsInv

\* The tasks of a request, as they are posted.
LEMMA RequestEntries ==
    ASSUME request \in Loads, NEW c \in Clients, NEW q,
           q = [i \in 1 .. request[c].n |-> Entry(request[c].kind, <<c, i>>, NoTask)]
    PROVE  /\ q \in Seq(Entries) /\ Apart(q) /\ IdsOf(Elements(q)) = TaskIds(c)
           /\ \A e \in Elements(q) : /\ e \in Entries /\ e.id \in TaskIds(c)
                                     /\ e.type = request[c].kind /\ e.id_target = NoTask
<1> DEFINE n == request[c].n
           E(i) == Entry(request[c].kind, <<c, i>>, NoTask)
<1>1. n \in Nat /\ request[c].kind \in Kinds
  BY ServerAssumption
<1>2. \A i \in 1 .. n : <<c, i>> \in Clients \X Nat /\ <<c, i>> # NoTask
  BY <1>1, ServerAssumption
<1>3. \A i \in 1 .. n : /\ E(i) \in Entries /\ E(i).id = <<c, i>>
                        /\ E(i).type = request[c].kind /\ E(i).id_target = NoTask
  BY <1>1, <1>2 DEF Entry, Entries, Ids
<1> HIDE DEF n
<1>4. q = [i \in 1 .. n |-> E(i)]
  BY DEF n
<1> HIDE DEF E
<1>5. q \in [1 .. n -> Entries]
  BY <1>3, <1>4
<1>6. q \in Seq(Entries) /\ Len(q) = n
  <2>1. q \in Seq(Entries)
    BY <1>1, <1>5, SeqDef
  <2>2. Len(q) \in Nat /\ DOMAIN q = 1 .. Len(q) /\ DOMAIN q = 1 .. n
    BY <1>5, <2>1, LenProperties
  <2>3. \A k \in Nat : 1 .. k = 1 .. n => k = n
    BY <1>1
  <2> QED  BY <2>1, <2>2, <2>3
<1>7. Elements(q) = {E(i) : i \in 1 .. n}
  BY <1>4, <1>6 DEF Elements
<1>8. Apart(q)
  <2>1. \A i, j \in 1 .. n : q[i].id = q[j].id => i = j
    <3>1. \A i \in 1 .. n : q[i].id = <<c, i>>
      BY <1>3, <1>4
    <3> QED  BY <3>1, SMTT(30)
  <2> QED  BY <1>6, <2>1 DEF Apart
<1>9. TaskIds(c) = {<<c, i>> : i \in 1 .. n}
  BY DEF TaskIds, n
<1>10. IdsOf(Elements(q)) = TaskIds(c)
  <2>1. ASSUME NEW t PROVE t \in {e.id : e \in Elements(q)} <=> \E i \in 1 .. n : t = <<c, i>>
    <3>1. ASSUME NEW e \in Elements(q) PROVE \E i \in 1 .. n : e.id = <<c, i>>
      <4>1. PICK i \in 1 .. n : e = E(i)
        BY <1>7, <3>1
      <4> QED  BY <1>3, <4>1
    <3>2. ASSUME NEW i \in 1 .. n PROVE \E e \in Elements(q) : e.id = <<c, i>>
      <4>1. E(i) \in Elements(q)
        BY <1>7
      <4> QED  BY <1>3, <4>1
    <3> QED  BY <3>1, <3>2, ZenonT(40)
  <2>2. \A t : t \in TaskIds(c) <=> \E i \in 1 .. n : t = <<c, i>>
    BY <1>9
  <2>3. \A t : t \in TaskIds(c) <=> t \in {e.id : e \in Elements(q)}
    BY <2>1, <2>2
  <2>4. NoTask \notin TaskIds(c)
    BY <1>2, <2>2
  <2>5. \A X, Y : (\A t : t \in X <=> t \in Y) /\ NoTask \notin X => Y \ {NoTask} = X
    OBVIOUS
  <2> QED  BY <2>3, <2>4, <2>5 DEF IdsOf
<1> QED  BY <1>3, <1>6, <1>7, <1>8, <1>9, <1>10, ZenonT(40)

\* The tasks come into the queue: all are the client's, and new.
LEMMA PostRequestKeeps ==
    ASSUME IInv, NEW c \in Clients, PostRequest(c)
    PROVE  IInv'
<1> DEFINE q == [i \in 1 .. request[c].n |-> Entry(request[c].kind, <<c, i>>, NoTask)]
           front == request[c].kind = "metrics"
           x == IF request[c].kind = "stream" THEN "open" ELSE "recv"
<1>1. /\ stage[c] = "added" /\ Post(q, front)
      /\ UNCHANGED <<waiting_task_ids, queue_results, n_finished, closed, failures>>
      /\ Moves(c, x)
  BY DEF PostRequest, Moves, results_vars, history
<1> HIDE DEF q, front
<1>2. request' = request /\ heard' = heard /\ answered' = answered
      /\ UNCHANGED main_vars /\ UNCHANGED <<failures, refusals, misfired>>
  BY <1>1 DEF Moves
<1>3. ClientTypes /\ ResultsInv /\ TasksInv /\ request \in Loads /\ x \in Stages /\ x \in {"open", "recv"}
  BY DEF IInv, ClientTypes, Stages
<1> HIDE DEF x
<1>4. /\ StagesGrow /\ stage'[c] = x /\ \A d \in Clients \ {c} : stage'[d] = stage[d]
      /\ ClientTypes'
  BY <1>1, <1>3, MovesGrow DEF ClientTypes
<1>5. /\ LoopInv' /\ HandGood' /\ Taken' = Taken /\ Progress' = Progress /\ Busy' = Busy
      /\ \A s \in Slots : slots'[s].id_task = slots[s].id_task
  BY <1>1, <1>2, <1>4, LoopStays
<1>6. /\ Tasks' = Tasks /\ (\A d : TaskIds(d)' = TaskIds(d)) /\ (\A t : RequestOf(t)' = RequestOf(t))
  BY <1>2, SameRequests
<1>7. \A t \in Tasks : t[1] \in Clients /\ t \in TaskIds(t[1])
  BY <1>3, TaskParts
<1>8. \A t \in TaskIds(c) :
           /\ t \in Tasks /\ t[1] = c /\ ~ Posted(t) /\ t \notin Owned /\ t \notin answered
           /\ PartialsOf(t) = {} /\ LastResultOf(t) = {}
           /\ heard[t[1]][t[2]] = 0 /\ n_finished[c] = 0
           /\ \A s \in Slots : slots[s].id_task # t
  BY <1>1, UnpostedFacts
<1>9. /\ q \in Seq(Entries) /\ Apart(q) /\ IdsOf(Elements(q)) = TaskIds(c)
      /\ \A e \in Elements(q) : /\ e \in Entries /\ e.id \in TaskIds(c)
                                /\ e.type = request[c].kind /\ e.id_target = NoTask
  BY <1>3, RequestEntries DEF q
<1>10. \A t \in TaskIds(c) : Posted(t)' /\ t # NoTask
  BY <1>3, <1>4, <1>6, <1>8, TaskParts DEF Posted
<1>11. \A e \in Elements(q) : GoodEntry(e)'
  <2>1. ASSUME NEW e \in Elements(q) PROVE GoodEntry(e)'
    <3>1. e.id \in TaskIds(c) /\ e.type = RequestOf(e.id).kind /\ e.id_target = NoTask
      BY <1>8, <1>9 DEF RequestOf
    <3>2. e.type = RequestOf(e.id)'.kind
      BY <1>6, <3>1
    <3> QED  BY <1>9, <1>10, <3>1, <3>2 DEF GoodEntry, Entries, Ids
  <2> QED  BY <2>1
<1>12. TaskIds(c) \cap Early = {}
  BY <1>8 DEF Owned
<1>13. /\ QueuesGood' /\ QueuesApart' /\ IdsOf(Queued)' = IdsOf(Queued) \cup TaskIds(c)
  <2>1. IdsOf(Elements(q)) \cap IdsOf(Queued) = {} /\ front \in BOOLEAN
    BY <1>9, <1>12 DEF Early, IdsOf, front
  <2> QED  BY <1>1, <1>3, <1>4, <1>9, <1>11, <2>1, PostQueues DEF TasksInv
<1>14. Early = IdsOf(Queued) \cup IdsOf(Taken) /\ IdsOf(Taken)' = IdsOf(Taken)
  BY <1>5 DEF Early, IdsOf
<1>15. Early' = Early \cup TaskIds(c) /\ Owned' = Owned \cup TaskIds(c)
  <2>1. Early' = IdsOf(Queued)' \cup IdsOf(Taken)'
    BY DEF Early, IdsOf
  <2>2. Early' = Early \cup TaskIds(c)
    BY <1>13, <1>14, <2>1
  <2> QED  BY <1>5, <2>2 DEF Owned
<1>16. SlotsApart'
  BY <1>3, <1>5, <1>8, <1>12, <1>13, <1>14, <1>15 DEF TasksInv, SlotsApart
<1>17. SlotsGood'
  <2>1. \A t \in {slots'[s].id_task : s \in Slots} \ {NoTask} : Posted(t)'
    BY <1>3, <1>4, <1>5, GoodGrows DEF TasksInv, SlotsGood
  <2>2. slots' = slots
    BY <1>2 DEF main_vars
  <2> QED  BY <1>3, <2>1, <2>2 DEF TasksInv, SlotsGood
<1>18. /\ \A t : PartialsOf(t)' = PartialsOf(t)
       /\ \A t : LastResultOf(t)' = LastResultOf(t)
       /\ \A t : FinalsOf(t)' = FinalsOf(t)
       /\ \A t : InOrder(t)' = InOrder(t)
       /\ \A t, m : AllComing(t, m)' = AllComing(t, m)
  BY <1>1, <1>2, SameResults
<1>19. \A t : Posted(t) => Posted(t)'
  BY <1>3, <1>4, GoodGrows
<1>20. \A d \in Clients \ {c} : Waits(d)' <=> Waits(d)
  BY <1>4 DEF Waits
<1>21. \A t \in Tasks \ TaskIds(c) : t[1] \in Clients \ {c}
  <2>1. ASSUME NEW t \in Tasks, t[1] = c PROVE t \in TaskIds(c)
    BY <1>7, <2>1
  <2> QED  BY <1>7, <2>1
<1>22. \A t : Streaming(t)' => Streaming(t) \/ t \in TaskIds(c)
  BY <1>6, <1>20, <1>21 DEF Streaming
<1>23. ResultTypes'
  <2>1. \A d \in Clients : stage'[d] \in {"new", "added"} => n_finished[d] = 0
    BY <1>3, <1>4 DEF ResultsInv, ResultTypes
  <2> QED  BY <1>1, <1>2, <1>3, <1>6, <1>19, <2>1 DEF ResultsInv, ResultTypes, Results, Elements
<1>24. OwnedOpen'
  BY <1>2, <1>3, <1>8, <1>15, <1>18 DEF ResultsInv, OwnedOpen
<1>25. FinalFirst' /\ PartialsFirst' /\ LastOnce'
  BY <1>1, <1>2, <1>3, <1>6, <1>18 DEF ResultsInv, FinalFirst, PartialsFirst, LastOnce
<1>26. WaitedFor'
  <2>1. ASSUME NEW d \in Clients, d # c, Waits(d)
        PROVE  /\ TaskIds(d) \subseteq waiting_task_ids
               /\ \A t \in TaskIds(d) : t \in Owned' \/ LastResultOf(t) # {} \/ t \in answered
               /\ n_finished[d] = Cardinality({t \in TaskIds(d) : t \in answered})
    BY <1>3, <1>15, <2>1 DEF ResultsInv, WaitedFor
  <2>2. /\ TaskIds(c) \subseteq waiting_task_ids
        /\ \A t \in TaskIds(c) : t \in Owned'
    BY <1>1, <1>3, <1>8, <1>15 DEF ResultsInv, StagesKnow
  <2>3. n_finished[c] = Cardinality({t \in TaskIds(c) : t \in answered})
    <3>1. {t \in TaskIds(c) : t \in answered} = {}
      BY <1>8
    <3>2. n_finished[c] = 0
      BY <1>1, <1>3 DEF ResultsInv, ResultTypes
    <3> QED  BY <3>1, <3>2, FS_EmptySet
  <2> QED  BY <1>1, <1>2, <1>6, <1>18, <1>20, <2>1, <2>2, <2>3 DEF WaitedFor
<1>27. StagesKnow'
  <2>1. ASSUME NEW t \in Tasks, t[1] = c
        PROVE  stage'[t[1]] \in {"open", "recv"}
    BY <1>3, <1>4, <2>1
  <2>2. ASSUME NEW t \in Tasks, t[1] # c
        PROVE  stage'[t[1]] = stage[t[1]]
    BY <1>4, <1>7, <2>2
  <2> QED  BY <1>1, <1>2, <1>3, <1>6, <2>1, <2>2 DEF ResultsInv, StagesKnow
<1>28. NoneStray'
  <2>1. \A r \in Elements(queue_results) : r.id[1] \in Clients \ {c}
    BY <1>1, <1>3, <1>7 DEF ResultsInv, ResultTypes, Posted
  <2> QED  BY <1>1, <1>3, <1>4, <2>1 DEF ResultsInv, NoneStray, Elements
<1>29. StreamsRight'
  <2>1. ASSUME NEW t \in TaskIds(c) PROVE AllComing(t, 0) /\ InOrder(t)
    <3>1. Coming(t) = {} /\ heard[t[1]][t[2]] = 0
      BY <1>8 DEF Coming
    <3>2. AllComing(t, 0)
      BY <3>1 DEF AllComing
    <3> QED  BY <1>8, <3>2 DEF InOrder
  <2>2. \A t \in Early' : Streaming(t)' => AllComing(t, 0)'
    BY <1>3, <1>15, <1>18, <1>22, <2>1 DEF ResultsInv, StreamsRight
  <2>3. \A p \in Progress' : p[1] \notin TaskIds(c)
    <3>1. \A p \in Progress : p[1] \in Owned
      BY DEF Progress, Owned, Busy
    <3> QED  BY <1>5, <1>8, <3>1
  <2>4. \A p \in Progress' : Streaming(p[1])' => AllComing(p[1], p[2])'
    BY <1>3, <1>5, <1>18, <1>22, <2>3 DEF ResultsInv, StreamsRight
  <2>5. \A r \in Elements(queue_results) : r.id \notin TaskIds(c)
    BY <1>3, <1>8 DEF ResultsInv, ResultTypes
  <2>6. \A r \in Elements(queue_results)' :
           r.kind = "final" /\ Streaming(r.id)' => AllComing(r.id, r.n)'
    BY <1>1, <1>3, <1>18, <1>22, <2>5 DEF ResultsInv, StreamsRight, Elements
  <2>7. \A t \in Tasks : Streaming(t)' => (\E m \in 0 .. MaxTokens : AllComing(t, m)) /\ InOrder(t)
    <3>1. 0 \in 0 .. MaxTokens
      BY ServerAssumption
    <3> QED  BY <1>3, <1>22, <2>1, <3>1 DEF ResultsInv, StreamsRight
  <2> QED  BY <1>6, <1>18, <2>2, <2>4, <2>6, <2>7 DEF StreamsRight
<1> QED  BY <1>4, <1>5, <1>13, <1>16, <1>17, <1>23, <1>24, <1>25, <1>26, <1>27, <1>28, <1>29
         DEF IInv, TasksInv, ResultsInv

\* One element less.
LEMMA RemovedThins ==
    ASSUME NEW S, NEW q \in Seq(S), NEW i \in 1 .. Len(q)
    PROVE  /\ RemoveAt(q, i) \in Seq(S)
           /\ \E h : Thins(h, RemoveAt(q, i), q, (1 .. Len(q)) \ {i})
<1> DEFINE n == Len(q)
           a == SubSeq(q, 1, i - 1)
           b == SubSeq(q, i + 1, n)
           r == a \o b
           h == [k \in 1 .. n - 1 |-> IF k < i THEN k ELSE k + 1]
<1>1. n \in Nat /\ i \in 1 .. n /\ i \in Nat /\ \A k \in 1 .. n : q[k] \in S
  BY LenProperties, ElementOfSeq
<1>2. /\ a \in Seq(S) /\ Len(a) = i - 1 /\ \A k \in 1 .. i - 1 : a[k] = q[k]
  <2>1. 1 \in Int /\ i - 1 \in Int /\ \A k \in 1 .. i - 1 : q[k] \in S
    BY <1>1
  <2>2. /\ a \in Seq(S) /\ Len(a) = IF 1 <= i - 1 THEN (i - 1 - 1) + 1 ELSE 0
        /\ \A k \in 1 .. ((i - 1 - 1) + 1) : a[k] = q[(1 + k) - 1]
    BY <2>1, SubSeqProperties
  <2>3. (IF 1 <= i - 1 THEN (i - 1 - 1) + 1 ELSE 0) = i - 1 /\ (i - 1 - 1) + 1 = i - 1
        /\ \A k \in 1 .. i - 1 : (1 + k) - 1 = k
    BY <1>1, SMTT(30)
  <2> HIDE DEF a
  <2> QED  BY <2>2, <2>3
<1>3. /\ b \in Seq(S) /\ Len(b) = n - i /\ \A k \in 1 .. n - i : b[k] = q[i + k]
  <2>1. i + 1 \in Int /\ n \in Int /\ \A k \in i + 1 .. n : q[k] \in S
    BY <1>1
  <2>2. /\ b \in Seq(S) /\ Len(b) = IF i + 1 <= n THEN (n - (i + 1)) + 1 ELSE 0
        /\ \A k \in 1 .. ((n - (i + 1)) + 1) : b[k] = q[((i + 1) + k) - 1]
    BY <2>1, SubSeqProperties
  <2>3. (IF i + 1 <= n THEN (n - (i + 1)) + 1 ELSE 0) = n - i /\ (n - (i + 1)) + 1 = n - i
        /\ \A k \in 1 .. n - i : ((i + 1) + k) - 1 = i + k
    BY <1>1
  <2> HIDE DEF b
  <2> QED  BY <2>2, <2>3
<1>4. RemoveAt(q, i) = r
  BY DEF RemoveAt
<1> HIDE DEF a, b, n
<1>5. /\ r \in Seq(S) /\ Len(r) = n - 1
      /\ \A k \in 1 .. n - 1 : r[k] = IF k <= i - 1 THEN a[k] ELSE b[k - (i - 1)]
  <2>1. /\ r \in Seq(S) /\ Len(r) = Len(a) + Len(b)
        /\ \A k \in 1 .. Len(a) + Len(b) : r[k] = IF k <= Len(a) THEN a[k] ELSE b[k - Len(a)]
    BY <1>2, <1>3, ConcatProperties
  <2>2. Len(a) + Len(b) = n - 1
    BY <1>1, <1>2, <1>3
  <2> QED  BY <1>2, <2>1, <2>2
<1> HIDE DEF r
<1>6. ASSUME NEW k \in 1 .. n - 1 PROVE r[k] = q[h[k]]
  <2>1. CASE k < i
    <3>1. k \in 1 .. i - 1 /\ k <= i - 1
      BY <1>1, <2>1
    <3> QED  BY <1>2, <1>5, <2>1, <3>1
  <2>2. CASE ~ (k < i)
    <3>1. /\ ~ (k <= i - 1) /\ k - (i - 1) \in 1 .. n - i /\ i + (k - (i - 1)) = k + 1
      BY <1>1, <2>2
    <3>2. b[k - (i - 1)] = q[k + 1]
      BY <1>3, <3>1
    <3> QED  BY <1>5, <2>2, <3>1, <3>2
  <2> QED  BY <2>1, <2>2
<1>7. \A k \in 1 .. n - 1 : h[k] \in (1 .. n) \ {i}
  BY <1>1
<1>8. \A j, k \in 1 .. n - 1 : j < k <=> h[j] < h[k]
  BY <1>1
<1>9. ASSUME NEW m \in (1 .. n) \ {i} PROVE \E k \in 1 .. n - 1 : h[k] = m
  <2>1. CASE m < i
    <3>1. m \in 1 .. n - 1
      BY <1>1, <2>1
    <3> QED  BY <2>1, <3>1
  <2>2. CASE ~ (m < i)
    <3>1. m - 1 \in 1 .. n - 1 /\ ~ (m - 1 < i) /\ (m - 1) + 1 = m
      BY <1>1, <2>2
    <3> QED  BY <3>1
  <2> QED  BY <2>1, <2>2
<1>10. h \in [1 .. n - 1 -> (1 .. n) \ {i}]
  BY <1>7
<1> HIDE DEF h
<1>11. Thins(h, r, q, (1 .. n) \ {i})
  BY <1>5, <1>6, <1>8, <1>9, <1>10 DEF Thins
<1> QED  BY <1>4, <1>5, <1>11 DEF n

\* Nothing less.
LEMMA SameThins ==
    ASSUME NEW S, NEW q \in Seq(S)
    PROVE  \E h : Thins(h, q, q, 1 .. Len(q))
<1>1. Thins([k \in 1 .. Len(q) |-> k], q, q, 1 .. Len(q))
  BY DEF Thins
<1> QED  BY <1>1

\* The results of a task when some results are gone.
LEMMA Thinned ==
    ASSUME queue_results \in Seq(Results), queue_results' \in Seq(Results),
           NEW I \in SUBSET (1 .. Len(queue_results)), NEW h,
           Thins(h, queue_results', queue_results, I), NEW t
    PROVE  /\ LastResultOf(t) \cap I # {} => LastResultOf(t)' # {}
           /\ LastResultOf(t) \cap I = {} => LastResultOf(t)' = {}
           /\ PartialsOf(t) \cap I = {} => PartialsOf(t)' = {}
           /\ FinalsOf(t) \cap I = {} => FinalsOf(t)' = {}
           /\ (\A i \in FinalsOf(t), j \in LastResultOf(t) : i <= j)
                 => \A i \in FinalsOf(t)', j \in LastResultOf(t)' : i <= j
           /\ (\A i \in PartialsOf(t), j \in LastResultOf(t) : i < j)
                 => \A i \in PartialsOf(t)', j \in LastResultOf(t)' : i < j
           /\ (\A i, j \in LastResultOf(t) : i = j) => \A i, j \in LastResultOf(t)' : i = j
           /\ InOrder(t) => InOrder(t)'
           /\ Coming(t)' = {queue_results[i].n : i \in PartialsOf(t) \cap I}
<1> DEFINE q == queue_results
           n == Len(q)
           m == Len(queue_results')
<1>1. /\ DOMAIN q = 1 .. n /\ DOMAIN queue_results' = 1 .. m /\ n \in Nat /\ m \in Nat
  BY LenProperties
<1>2. /\ \A k \in 1 .. m : h[k] \in I /\ h[k] \in 1 .. n /\ queue_results'[k] = q[h[k]]
      /\ \A j, k \in 1 .. m : j < k <=> h[j] < h[k]
      /\ \A i \in I : \E k \in 1 .. m : h[k] = i
  BY DEF Thins
<1> HIDE DEF n, m
<1>3. \A j, k \in 1 .. m : /\ h[j] <= h[k] => j <= k
                           /\ h[j] = h[k] => j = k
  <2>1. ASSUME NEW j \in 1 .. m, NEW k \in 1 .. m
        PROVE  (h[j] <= h[k] => j <= k) /\ (h[j] = h[k] => j = k)
    <3>1. j \in Nat /\ k \in Nat /\ h[j] \in Nat /\ h[k] \in Nat
      BY <1>1, <1>2
    <3>2. (j < k <=> h[j] < h[k]) /\ (k < j <=> h[k] < h[j])
      BY <1>2
    <3> QED  BY <3>1, <3>2
  <2> QED  BY <2>1
<1>4. /\ PartialsOf(t) = {i \in 1 .. n : q[i].id = t /\ q[i].kind = "partial"}
      /\ LastResultOf(t) = {i \in 1 .. n : q[i].id = t /\ q[i].kind # "partial"}
      /\ FinalsOf(t) = {i \in LastResultOf(t) : q[i].kind = "final"}
  BY <1>1 DEF PartialsOf, LastResultOf, FinalsOf
<1>5. /\ PartialsOf(t)' = {k \in 1 .. m : queue_results'[k].id = t /\ queue_results'[k].kind = "partial"}
      /\ LastResultOf(t)' = {k \in 1 .. m : queue_results'[k].id = t /\ queue_results'[k].kind # "partial"}
      /\ FinalsOf(t)' = {k \in LastResultOf(t)' : queue_results'[k].kind = "final"}
  BY <1>1 DEF PartialsOf, LastResultOf, FinalsOf
<1>6. \A k \in 1 .. m : /\ k \in PartialsOf(t)' <=> h[k] \in PartialsOf(t)
                        /\ k \in LastResultOf(t)' <=> h[k] \in LastResultOf(t)
                        /\ k \in FinalsOf(t)' <=> h[k] \in FinalsOf(t)
  BY <1>2, <1>4, <1>5
<1>7. /\ PartialsOf(t)' \subseteq 1 .. m /\ LastResultOf(t)' \subseteq 1 .. m
      /\ FinalsOf(t)' \subseteq 1 .. m
  BY <1>5
<1>8. /\ LastResultOf(t) \cap I # {} => LastResultOf(t)' # {}
      /\ LastResultOf(t) \cap I = {} => LastResultOf(t)' = {}
      /\ PartialsOf(t) \cap I = {} => PartialsOf(t)' = {}
      /\ FinalsOf(t) \cap I = {} => FinalsOf(t)' = {}
  <2>1. LastResultOf(t) \cap I # {} => LastResultOf(t)' # {}
    BY <1>2, <1>6
  <2>2. LastResultOf(t) \cap I = {} => LastResultOf(t)' = {}
    BY <1>2, <1>6, <1>7
  <2>3. PartialsOf(t) \cap I = {} => PartialsOf(t)' = {}
    BY <1>2, <1>6, <1>7
  <2>4. FinalsOf(t) \cap I = {} => FinalsOf(t)' = {}
    BY <1>2, <1>6, <1>7
  <2> QED  BY <2>1, <2>2, <2>3, <2>4
<1>9. (\A i \in FinalsOf(t), j \in LastResultOf(t) : i <= j)
         => \A i \in FinalsOf(t)', j \in LastResultOf(t)' : i <= j
  BY <1>3, <1>6, <1>7
<1>10. (\A i \in PartialsOf(t), j \in LastResultOf(t) : i < j)
         => \A i \in PartialsOf(t)', j \in LastResultOf(t)' : i < j
  BY <1>2, <1>6, <1>7
<1>11. (\A i, j \in LastResultOf(t) : i = j) => \A i, j \in LastResultOf(t)' : i = j
  BY <1>3, <1>6, <1>7
<1>12. InOrder(t) => InOrder(t)'
  BY <1>2, <1>6, <1>7, SMTT(30) DEF InOrder
<1>13. Coming(t)' = {q[i].n : i \in PartialsOf(t) \cap I}
  <2>1. Coming(t)' = {queue_results'[k].n : k \in PartialsOf(t)'}
    BY DEF Coming
  <2>2. ASSUME NEW k \in PartialsOf(t)'
        PROVE  \E i \in PartialsOf(t) \cap I : queue_results'[k].n = q[i].n
    BY <1>2, <1>6, <1>7
  <2>3. ASSUME NEW i \in PartialsOf(t) \cap I
        PROVE  \E k \in PartialsOf(t)' : queue_results'[k].n = q[i].n
    <3>1. PICK k \in 1 .. m : h[k] = i
      BY <1>2
    <3>2. k \in PartialsOf(t)' /\ queue_results'[k] = q[i]
      BY <1>2, <1>6, <3>1
    <3> QED  BY <3>2
  <2> QED  BY <2>1, <2>2, <2>3
<1> QED  BY <1>8, <1>9, <1>10, <1>11, <1>12, <1>13

\* What is left are results there were.
LEMMA ThinnedElements ==
    ASSUME queue_results \in Seq(Results), queue_results' \in Seq(Results),
           NEW I \in SUBSET (1 .. Len(queue_results)), NEW h,
           Thins(h, queue_results', queue_results, I)
    PROVE  \A r \in Elements(queue_results') :
              r \in Elements(queue_results) /\ \E i \in I : r = queue_results[i]
<1>1. ASSUME NEW r \in Elements(queue_results')
      PROVE  r \in Elements(queue_results) /\ \E i \in I : r = queue_results[i]
  <2>1. PICK k \in 1 .. Len(queue_results') : r = queue_results'[k]
    BY DEF Elements
  <2>2. h[k] \in I /\ r = queue_results[h[k]]
    BY <2>1 DEF Thins
  <2> QED  BY <2>2 DEF Elements
<1> QED  BY <1>1

\* A client goes on, and may have forgotten its results.
LEMMA Leaves ==
    ASSUME IInv, NEW c \in Clients, NEW x \in Stages \ {"new", "added", "remove"}, Moves(c, x),
           stage[c] \notin {"new", "added", "done"}, n_finished' = n_finished,
           waiting_task_ids' \subseteq waiting_task_ids,
           waiting_task_ids \ TaskIds(c) \subseteq waiting_task_ids',
           Early' = Early, Owned' = Owned, Progress' = Progress,
           queue_results' \in Seq(Results), NEW I \in SUBSET (1 .. Len(queue_results)), NEW h,
           Thins(h, queue_results', queue_results, I),
           \A i \in (1 .. Len(queue_results)) \ I : queue_results[i].id \in TaskIds(c),
           x \in {"open", "recv"} =>
              Waits(c) /\ waiting_task_ids' = waiting_task_ids /\ I = 1 .. Len(queue_results),
           \/ x \in {"open", "recv", "cancel", "drop", "dropped"}
           \/ failures = 0 => \A i \in I : queue_results[i].id \notin TaskIds(c),
           x \in {"forgotten", "dropped", "done"} => waiting_task_ids' \cap TaskIds(c) = {}
    PROVE  ResultsInv'
<1>1. ResultsInv /\ request \in Loads /\ ClientTypes /\ queue_results \in Seq(Results)
  BY DEF IInv, ClientTypes, ResultsInv, ResultTypes
<1>2. request' = request /\ heard' = heard /\ answered' = answered /\ failures' = failures
  BY DEF Moves
<1>3. /\ StagesGrow /\ stage'[c] = x /\ \A d \in Clients \ {c} : stage'[d] = stage[d]
  BY <1>1, MovesGrow
<1>4. /\ Tasks' = Tasks /\ (\A d : TaskIds(d)' = TaskIds(d)) /\ (\A t : RequestOf(t)' = RequestOf(t))
  BY <1>2, SameRequests
<1>5. \A t \in Tasks : t[1] \in Clients /\ t \in TaskIds(t[1])
  BY <1>1, TaskParts
<1>6. \A t \in TaskIds(c) : t \in Tasks /\ t[1] = c
  BY <1>1, TasksOfClients
<1>7. \A d \in Clients : Waits(d)' => Waits(d)
  BY <1>3 DEF Waits
<1>8. \A t : Streaming(t)' => Streaming(t)
  BY <1>4, <1>5, <1>7 DEF Streaming
<1>9. \A t : Posted(t) <=> Posted(t)'
  <2>1. \A d \in Clients : stage[d] \in {"new", "added"} <=> stage'[d] \in {"new", "added"}
    BY <1>3
  <2> QED  BY <1>4, <1>5, <2>1 DEF Posted
<1>10. \A r \in Elements(queue_results') :
          r \in Elements(queue_results) /\ \E i \in I : r = queue_results[i]
  BY <1>1, ThinnedElements
<1>11. ASSUME NEW d \in Clients, Waits(d)', NEW t \in TaskIds(d)
       PROVE  PartialsOf(t) \subseteq I /\ LastResultOf(t) \subseteq I
  <2>1. CASE d = c
    <3>1. I = 1 .. Len(queue_results)
      BY <1>3, <1>11, <2>1 DEF Waits
    <3> QED  BY <1>1, <3>1, Places
  <2>2. CASE d # c
    <3>1. t[1] = d /\ t \notin TaskIds(c)
      BY <1>1, <1>6, <2>2, TasksOfClients
    <3>2. \A i \in PartialsOf(t) \cup LastResultOf(t) : i \in 1 .. Len(queue_results) /\ queue_results[i].id = t
      BY <1>1, Places DEF PartialsOf, LastResultOf
    <3> QED  BY <3>1, <3>2
  <2> QED  BY <2>1, <2>2
<1>12. ResultTypes'
  <2>1. \A d \in Clients : stage'[d] \in {"new", "added"} => n_finished[d] = 0
    BY <1>1, <1>3 DEF ResultsInv, ResultTypes
  <2>2. /\ waiting_task_ids' \subseteq Tasks'
        /\ \A t \in answered' : Posted(t)'
        /\ \A t \in Tasks : ~ Posted(t)' => heard[t[1]][t[2]] = 0
    BY <1>1, <1>2, <1>4, <1>9 DEF ResultsInv, ResultTypes
  <2>3. \A r \in Elements(queue_results') :
           /\ Posted(r.id)'
           /\ r.kind = "partial" => RequestOf(r.id)'.kind = "stream"
    BY <1>1, <1>4, <1>9, <1>10 DEF ResultsInv, ResultTypes
  <2> QED  BY <1>2, <1>4, <2>1, <2>2, <2>3 DEF ResultTypes, Results
<1>13. OwnedOpen'
  <2>1. ASSUME NEW t \in Owned PROVE LastResultOf(t)' = {} /\ t \notin answered
    <3>1. LastResultOf(t) = {} /\ t \notin answered
      BY <1>1 DEF ResultsInv, OwnedOpen
    <3>2. LastResultOf(t) \cap I = {}
      BY <3>1
    <3> QED  BY <1>1, <3>1, <3>2, Thinned
  <2> QED  BY <1>2, <2>1 DEF OwnedOpen
<1>14. FinalFirst' /\ PartialsFirst' /\ LastOnce'
  <2>1. ASSUME NEW t \in Tasks
        PROVE  /\ \A i \in FinalsOf(t)' : t \notin answered /\ \A j \in LastResultOf(t)' : i <= j
               /\ \A i \in PartialsOf(t)' : t \notin answered /\ \A j \in LastResultOf(t)' : i < j
               /\ failures = 0 => \A i \in LastResultOf(t)' : t \notin answered /\ LastResultOf(t)' = {i}
    <3>1. /\ \A i \in FinalsOf(t) : t \notin answered /\ \A j \in LastResultOf(t) : i <= j
          /\ \A i \in PartialsOf(t) : t \notin answered /\ \A j \in LastResultOf(t) : i < j
          /\ failures = 0 => \A i \in LastResultOf(t) : t \notin answered /\ LastResultOf(t) = {i}
      BY <1>1 DEF ResultsInv, FinalFirst, PartialsFirst, LastOnce
    <3>2. \A i \in FinalsOf(t)' : t \notin answered /\ \A j \in LastResultOf(t)' : i <= j
      <4>1. \A i \in FinalsOf(t)', j \in LastResultOf(t)' : i <= j
        BY <1>1, <3>1, Thinned
      <4>2. FinalsOf(t)' # {} => FinalsOf(t) # {}
        BY <1>1, Thinned, SMTT(30)
      <4> QED  BY <3>1, <4>1, <4>2
    <3>3. \A i \in PartialsOf(t)' : t \notin answered /\ \A j \in LastResultOf(t)' : i < j
      <4>1. \A i \in PartialsOf(t)', j \in LastResultOf(t)' : i < j
        BY <1>1, <3>1, Thinned
      <4>2. PartialsOf(t)' # {} => PartialsOf(t) # {}
        <5>1. PartialsOf(t) = {} => PartialsOf(t) \cap I = {}
          OBVIOUS
        <5> QED  BY <1>1, <5>1, Thinned
      <4> QED  BY <3>1, <4>1, <4>2
    <3>4. failures = 0 => \A i \in LastResultOf(t)' : t \notin answered /\ LastResultOf(t)' = {i}
      <4>1. failures = 0 => \A i, j \in LastResultOf(t) : i = j
        BY <3>1
      <4>2. failures = 0 => \A i, j \in LastResultOf(t)' : i = j
        BY <1>1, <4>1, Thinned
      <4>3. LastResultOf(t)' # {} => LastResultOf(t) # {}
        <5>1. LastResultOf(t) = {} => LastResultOf(t) \cap I = {}
          OBVIOUS
        <5> QED  BY <1>1, <5>1, Thinned
      <4> QED  BY <3>1, <4>2, <4>3
    <3> QED  BY <3>2, <3>3, <3>4
  <2> QED  BY <1>2, <1>4, <2>1 DEF FinalFirst, PartialsFirst, LastOnce
<1>15. WaitedFor'
  <2>1. ASSUME NEW d \in Clients, Waits(d)'
        PROVE  /\ TaskIds(d) \subseteq waiting_task_ids'
               /\ \A t \in TaskIds(d) : t \in Owned \/ LastResultOf(t)' # {} \/ t \in answered
               /\ n_finished[d] = Cardinality({t \in TaskIds(d) : t \in answered})
    <3>1. /\ TaskIds(d) \subseteq waiting_task_ids
          /\ \A t \in TaskIds(d) : t \in Owned \/ LastResultOf(t) # {} \/ t \in answered
          /\ n_finished[d] = Cardinality({t \in TaskIds(d) : t \in answered})
      BY <1>1, <1>7, <2>1 DEF ResultsInv, WaitedFor
    <3>2. ASSUME NEW t \in TaskIds(d), LastResultOf(t) # {} PROVE LastResultOf(t)' # {}
      <4>1. LastResultOf(t) \cap I # {}
        BY <1>11, <2>1, <3>2
      <4> QED  BY <1>1, <4>1, Thinned
    <3>3. TaskIds(d) \subseteq waiting_task_ids'
      <4>1. CASE d = c
        BY <1>3, <2>1, <3>1, <4>1 DEF Waits
      <4>2. CASE d # c
        <5>1. \A t \in TaskIds(d) : t \notin TaskIds(c)
          BY <1>1, <1>6, <4>2, TasksOfClients
        <5> QED  BY <3>1, <5>1
      <4> QED  BY <4>1, <4>2
    <3> QED  BY <3>1, <3>2, <3>3
  <2> QED  BY <1>2, <1>4, <2>1 DEF WaitedFor
<1>16. StagesKnow'
  <2>1. ASSUME NEW t \in Tasks
        PROVE  /\ stage'[t[1]] = "added" => t \in waiting_task_ids'
               /\ stage'[t[1]] = "remove" => t \in answered
               /\ t \in waiting_task_ids' =>
                     /\ stage'[t[1]] \notin {"new", "forgotten", "dropped"}
                     /\ stage'[t[1]] = "done" => t \in answered /\ RequestOf(t).kind = "rerank"
    <3>1. CASE t[1] = c
      <4>1. t \in TaskIds(c)
        BY <1>5, <3>1
      <4> QED  BY <1>3, <3>1, <4>1
    <3>2. CASE t[1] # c
      <4>1. stage'[t[1]] = stage[t[1]] /\ t \notin TaskIds(c)
        BY <1>3, <1>5, <1>6, <3>2
      <4> QED  BY <1>1, <4>1 DEF ResultsInv, StagesKnow
    <3> QED  BY <3>1, <3>2
  <2> QED  BY <1>2, <1>4, <2>1 DEF StagesKnow
<1>17. NoneStray'
  <2>1. ASSUME failures = 0, NEW r \in Elements(queue_results')
        PROVE  stage'[r.id[1]] \in {"open", "recv", "cancel", "drop", "dropped"}
    <3>1. /\ r \in Elements(queue_results) /\ Posted(r.id)
          /\ stage[r.id[1]] \in {"open", "recv", "cancel", "drop", "dropped"}
      BY <1>1, <1>10, <2>1 DEF ResultsInv, ResultTypes, NoneStray
    <3>2. CASE r.id[1] = c
      <4>1. r.id \in TaskIds(c)
        BY <1>5, <3>1, <3>2 DEF Posted
      <4>2. x \in {"open", "recv", "cancel", "drop", "dropped"}
        BY <1>10, <2>1, <4>1
      <4> QED  BY <1>3, <3>2, <4>2
    <3>3. CASE r.id[1] # c
      <4>1. stage'[r.id[1]] = stage[r.id[1]]
        BY <1>3, <1>5, <3>1, <3>3 DEF Posted
      <4> QED  BY <3>1, <4>1
    <3> QED  BY <3>2, <3>3
  <2> QED  BY <1>2, <2>1 DEF NoneStray
<1>18. StreamsRight'
  <2>1. ASSUME NEW t, Streaming(t)'
        PROVE  /\ Streaming(t) /\ t \in Tasks
               /\ \A m : AllComing(t, m)' <=> AllComing(t, m)
    <3>1. Streaming(t) /\ t \in Tasks /\ t[1] \in Clients /\ t \in TaskIds(t[1]) /\ Waits(t[1])'
      BY <1>5, <1>8, <2>1 DEF Streaming
    <3>2. PartialsOf(t) \cap I = PartialsOf(t)
      BY <1>11, <3>1
    <3>3. Coming(t)' = Coming(t)
      BY <1>1, <3>2, Thinned DEF Coming
    <3> QED  BY <1>2, <3>1, <3>3 DEF AllComing
  <2>2. \A t : InOrder(t) => InOrder(t)'
    BY <1>1, Thinned
  <2>3. \A r \in Elements(queue_results') :
           r.kind = "final" /\ Streaming(r.id)' => AllComing(r.id, r.n)'
    BY <1>1, <1>10, <2>1 DEF ResultsInv, StreamsRight
  <2>4. \A t \in Early : Streaming(t)' => AllComing(t, 0)'
    BY <1>1, <2>1 DEF ResultsInv, StreamsRight
  <2>5. \A p \in Progress : Streaming(p[1])' => AllComing(p[1], p[2])'
    BY <1>1, <2>1 DEF ResultsInv, StreamsRight
  <2>6. \A t \in Tasks : Streaming(t)' =>
           (\E m \in 0 .. MaxTokens : AllComing(t, m)') /\ InOrder(t)'
    BY <1>1, <2>1, <2>2 DEF ResultsInv, StreamsRight
  <2> QED  BY <1>4, <2>3, <2>4, <2>5, <2>6 DEF StreamsRight
<1> QED  BY <1>12, <1>13, <1>14, <1>15, <1>16, <1>17, <1>18 DEF ResultsInv

\* A stream is opened or dropped; what was sent stays.
LEMMA OpenStreamKeeps ==
    ASSUME IInv, NEW c \in Clients, OpenStream(c)
    PROVE  IInv'
<1> DEFINE x == IF closed[c] THEN "drop" ELSE "recv"
<1>1. /\ stage[c] = "open" /\ Moves(c, x)
      /\ UNCHANGED <<waiting_task_ids, queue_results, n_finished, closed>> /\ UNCHANGED tasks_vars
  BY DEF OpenStream, Moves, results_vars, history
<1>2. /\ x \in Stages \ {"new", "added", "remove"} /\ x \in {"drop", "recv"} /\ Waits(c)
      /\ ClientTypes /\ queue_results \in Seq(Results)
  BY <1>1 DEF Stages, Waits, IInv, ResultsInv, ResultTypes
<1> HIDE DEF x
<1>3. StagesGrow /\ ClientTypes'
  BY <1>1, <1>2, MovesGrow DEF ClientTypes
<1>4. LoopInv' /\ TasksInv' /\ Early' = Early /\ Owned' = Owned /\ Progress' = Progress
  BY <1>1, <1>3, TasksStay DEF Moves
<1>5. PICK h : Thins(h, queue_results, queue_results, 1 .. Len(queue_results))
  BY <1>2, SameThins
<1>6. ResultsInv'
  <2> DEFINE I == 1 .. Len(queue_results)
  <2>1. I \in SUBSET (1 .. Len(queue_results)) /\ \A i \in (1 .. Len(queue_results)) \ I : FALSE
    OBVIOUS
  <2>2. Thins(h, queue_results', queue_results, I)
    BY <1>1, <1>5
  <2>3. x \in {"open", "recv"} =>
           Waits(c) /\ waiting_task_ids' = waiting_task_ids /\ I = 1 .. Len(queue_results)
    BY <1>1, <1>2
  <2> HIDE DEF I
  <2> QED  BY <1>1, <1>2, <1>4, <2>1, <2>2, <2>3, Leaves
<1> QED  BY <1>3, <1>4, <1>6 DEF IInv

\* A client gives up; what was sent stays.
LEMMA TimeoutKeeps ==
    ASSUME IInv, NEW c \in Clients, Timeout(c)
    PROVE  IInv'
<1>1. /\ stage[c] = "recv" /\ Moves(c, "cancel")
      /\ UNCHANGED <<waiting_task_ids, queue_results, n_finished, closed>> /\ UNCHANGED tasks_vars
  BY DEF Timeout, Moves, results_vars, history
<1>2. /\ "cancel" \in Stages \ {"new", "added", "remove"}
      /\ ClientTypes /\ queue_results \in Seq(Results)
  BY DEF Stages, IInv, ResultsInv, ResultTypes
<1>3. StagesGrow /\ ClientTypes'
  BY <1>1, <1>2, MovesGrow DEF ClientTypes
<1>4. LoopInv' /\ TasksInv' /\ Early' = Early /\ Owned' = Owned /\ Progress' = Progress
  BY <1>1, <1>3, TasksStay DEF Moves
<1>5. PICK h : Thins(h, queue_results, queue_results, 1 .. Len(queue_results))
  BY <1>2, SameThins
<1>6. ResultsInv'
  <2> DEFINE I == 1 .. Len(queue_results)
  <2>1. I \in SUBSET (1 .. Len(queue_results)) /\ \A i \in (1 .. Len(queue_results)) \ I : FALSE
    OBVIOUS
  <2>2. Thins(h, queue_results', queue_results, I)
    BY <1>1, <1>5
  <2> HIDE DEF I
  <2> QED  BY <1>1, <1>2, <1>4, <2>1, <2>2, Leaves
<1> QED  BY <1>3, <1>4, <1>6 DEF IInv

\* What RemoveWaiting leaves.
LEMMA Forgotten ==
    ASSUME queue_results \in Seq(Results), NEW ids, RemoveWaiting(ids)
    PROVE  /\ waiting_task_ids' = waiting_task_ids \ ids
           /\ queue_results' \in Seq(Results)
           /\ \E h : Thins(h, queue_results', queue_results,
                           {i \in 1 .. Len(queue_results) : queue_results[i].id \notin ids})
<1> DEFINE gone == {r \in ToSet(queue_results) : r.id \in ids}
<1>1. /\ waiting_task_ids' = waiting_task_ids \ ids
      /\ queue_results' = Without(queue_results, gone)
  BY DEF RemoveWaiting
<1>2. \A i \in 1 .. Len(queue_results) : queue_results[i] \notin gone <=> queue_results[i].id \notin ids
  <2>1. DOMAIN queue_results = 1 .. Len(queue_results)
    BY LenProperties
  <2> QED  BY <2>1 DEF ToSet
<1> HIDE DEF gone
<1>3. {i \in 1 .. Len(queue_results) : queue_results[i] \notin gone}
         = {i \in 1 .. Len(queue_results) : queue_results[i].id \notin ids}
  BY <1>2
<1> QED  BY <1>1, <1>3, WithoutThins, ZenonT(40)

\* The ids and the results of the client are forgotten.
LEMMA CancelTasksKeeps ==
    ASSUME IInv, NEW c \in Clients, CancelTasks(c)
    PROVE  IInv'
<1>1. /\ stage[c] = "cancel" /\ Moves(c, "forgotten") /\ RemoveWaiting(TaskIds(c))
      /\ UNCHANGED <<n_finished, closed>> /\ UNCHANGED tasks_vars
  BY DEF CancelTasks, Moves, history
<1>2. /\ "forgotten" \in Stages \ {"new", "added", "remove"}
      /\ ClientTypes /\ queue_results \in Seq(Results)
  BY DEF Stages, IInv, ResultsInv, ResultTypes
<1>3. StagesGrow /\ ClientTypes'
  BY <1>1, <1>2, MovesGrow DEF ClientTypes
<1>4. LoopInv' /\ TasksInv' /\ Early' = Early /\ Owned' = Owned /\ Progress' = Progress
  BY <1>1, <1>3, TasksStay DEF Moves
<1>5. ResultsInv'
  <2> DEFINE I == {i \in 1 .. Len(queue_results) : queue_results[i].id \notin TaskIds(c)}
  <2>1. I \in SUBSET (1 .. Len(queue_results))
        /\ (\A i \in (1 .. Len(queue_results)) \ I : queue_results[i].id \in TaskIds(c))
        /\ \A i \in I : queue_results[i].id \notin TaskIds(c)
    OBVIOUS
  <2>2. /\ waiting_task_ids' = waiting_task_ids \ TaskIds(c)
        /\ queue_results' \in Seq(Results) /\ \E h : Thins(h, queue_results', queue_results, I)
    BY <1>1, <1>2, Forgotten
  <2> HIDE DEF I
  <2>3. PICK h : Thins(h, queue_results', queue_results, I)
    BY <2>2
  <2>4. /\ waiting_task_ids' \subseteq waiting_task_ids
        /\ waiting_task_ids \ TaskIds(c) \subseteq waiting_task_ids'
        /\ waiting_task_ids' \cap TaskIds(c) = {}
    BY <2>2
  <2> QED  BY <1>1, <1>2, <1>4, <2>1, <2>2, <2>3, <2>4, Leaves
<1> QED  BY <1>3, <1>4, <1>5 DEF IInv

\* A client that has left has no results in the queue, but for stray errors.
LEMMA NoneOf ==
    ASSUME IInv, NEW c \in Clients, failures = 0,
           stage[c] \notin {"open", "recv", "cancel", "drop", "dropped"}
    PROVE  \A i \in 1 .. Len(queue_results) : queue_results[i].id \notin TaskIds(c)
<1>1. ResultsInv /\ request \in Loads
  BY DEF IInv, ClientTypes
<1>2. \A t \in TaskIds(c) : t[1] = c
  BY <1>1, TasksOfClients
<1> QED  BY <1>1, <1>2 DEF ResultsInv, NoneStray, Elements

\* A client leaves when all of its tasks are answered, or its stream is dropped.
LEMMA FinishKeeps ==
    ASSUME IInv, NEW c \in Clients, Finish(c)
    PROVE  IInv'
<1> DEFINE x == IF stage[c] = "drop" THEN "dropped" ELSE "done"
<1>1. /\ stage[c] \in {"remove", "drop"} /\ Moves(c, x)
      /\ RemoveWaiting(TaskIds(c)) \/ RemoveWaitingIds(TaskIds(c))
      /\ UNCHANGED <<n_finished, closed>> /\ UNCHANGED tasks_vars
  BY DEF Finish, Moves, history
<1>2. /\ x \in Stages \ {"new", "added", "remove"} /\ x \in {"dropped", "done"}
      /\ x = "done" => stage[c] = "remove"
      /\ ClientTypes /\ queue_results \in Seq(Results)
  BY <1>1 DEF Stages, IInv, ResultsInv, ResultTypes
<1> HIDE DEF x
<1>3. StagesGrow /\ ClientTypes'
  BY <1>1, <1>2, MovesGrow DEF ClientTypes
<1>4. LoopInv' /\ TasksInv' /\ Early' = Early /\ Owned' = Owned /\ Progress' = Progress
  BY <1>1, <1>3, TasksStay DEF Moves
<1>5. ResultsInv'
  <2>1. \E I \in SUBSET (1 .. Len(queue_results)) :
           /\ \A i \in (1 .. Len(queue_results)) \ I : queue_results[i].id \in TaskIds(c)
           /\ waiting_task_ids' = waiting_task_ids \ TaskIds(c)
           /\ queue_results' \in Seq(Results) /\ \E h : Thins(h, queue_results', queue_results, I)
    <3>1. CASE RemoveWaiting(TaskIds(c))
      <4> DEFINE I == {i \in 1 .. Len(queue_results) : queue_results[i].id \notin TaskIds(c)}
      <4>1. I \in SUBSET (1 .. Len(queue_results))
            /\ (\A i \in (1 .. Len(queue_results)) \ I : queue_results[i].id \in TaskIds(c))
        OBVIOUS
      <4>2. /\ waiting_task_ids' = waiting_task_ids \ TaskIds(c)
            /\ queue_results' \in Seq(Results) /\ \E h : Thins(h, queue_results', queue_results, I)
        BY <1>2, <3>1, Forgotten
      <4> HIDE DEF I
      <4> QED  BY <4>1, <4>2
    <3>2. CASE RemoveWaitingIds(TaskIds(c))
      <4> DEFINE I == 1 .. Len(queue_results)
      <4>1. I \in SUBSET (1 .. Len(queue_results)) /\ \A i \in (1 .. Len(queue_results)) \ I : FALSE
        OBVIOUS
      <4>2. \E h : Thins(h, queue_results', queue_results, I)
        BY <1>2, <3>2, SameThins DEF RemoveWaitingIds
      <4>3. waiting_task_ids' = waiting_task_ids \ TaskIds(c) /\ queue_results' \in Seq(Results)
        BY <1>2, <3>2 DEF RemoveWaitingIds
      <4> HIDE DEF I
      <4> QED  BY <4>1, <4>2, <4>3
    <3> QED  BY <1>1, <3>1, <3>2
  <2>2. PICK I \in SUBSET (1 .. Len(queue_results)) :
           /\ \A i \in (1 .. Len(queue_results)) \ I : queue_results[i].id \in TaskIds(c)
           /\ waiting_task_ids' = waiting_task_ids \ TaskIds(c)
           /\ queue_results' \in Seq(Results) /\ \E h : Thins(h, queue_results', queue_results, I)
    BY <2>1
  <2>3. PICK h : Thins(h, queue_results', queue_results, I)
    BY <2>2
  <2>4. x = "done" => (failures = 0 => \A i \in I : queue_results[i].id \notin TaskIds(c))
    BY <1>2, NoneOf
  <2>5. /\ waiting_task_ids' \subseteq waiting_task_ids
        /\ waiting_task_ids \ TaskIds(c) \subseteq waiting_task_ids'
        /\ waiting_task_ids' \cap TaskIds(c) = {}
    BY <2>2
  <2> QED  BY <1>1, <1>2, <1>4, <2>2, <2>3, <2>4, <2>5, Leaves
<1> QED  BY <1>3, <1>4, <1>5 DEF IInv

\* The cancellations of a request, as they are posted.
LEMMA CancelEntries ==
    ASSUME request \in Loads, NEW c \in Clients, NEW q,
           q = [i \in 1 .. request[c].n |-> Entry("cancel", NoTask, <<c, i>>)]
    PROVE  /\ q \in Seq(Entries) /\ Apart(q) /\ IdsOf(Elements(q)) = {}
           /\ \A e \in Elements(q) : /\ e \in Entries /\ e.id = NoTask /\ e.type = "cancel"
                                     /\ e.id_target \in TaskIds(c)
<1> DEFINE n == request[c].n
           E(i) == Entry("cancel", NoTask, <<c, i>>)
<1>1. n \in Nat
  BY ServerAssumption
<1>2. \A i \in 1 .. n : <<c, i>> \in Clients \X Nat
  BY <1>1
<1>3. \A i \in 1 .. n : /\ E(i) \in Entries /\ E(i).id = NoTask
                        /\ E(i).type = "cancel" /\ E(i).id_target = <<c, i>>
  BY <1>1, <1>2 DEF Entry, Entries, Ids
<1> HIDE DEF n
<1>4. q = [i \in 1 .. n |-> E(i)]
  BY DEF n
<1> HIDE DEF E
<1>5. q \in [1 .. n -> Entries]
  BY <1>3, <1>4
<1>6. q \in Seq(Entries) /\ Len(q) = n
  <2>1. q \in Seq(Entries)
    BY <1>1, <1>5, SeqDef
  <2>2. Len(q) \in Nat /\ DOMAIN q = 1 .. Len(q) /\ DOMAIN q = 1 .. n
    BY <1>5, <2>1, LenProperties
  <2>3. \A k \in Nat : 1 .. k = 1 .. n => k = n
    BY <1>1
  <2> QED  BY <2>1, <2>2, <2>3
<1>7. ASSUME NEW e \in Elements(q) PROVE \E i \in 1 .. n : e = E(i)
  BY <1>4, <1>6 DEF Elements
<1>8. Apart(q)
  <2>1. \A i \in 1 .. n : q[i].id = NoTask
    BY <1>3, <1>4
  <2> QED  BY <1>6, <2>1 DEF Apart
<1>9. ASSUME NEW e \in Elements(q)
      PROVE  e \in Entries /\ e.id = NoTask /\ e.type = "cancel" /\ e.id_target \in TaskIds(c)
  <2>1. PICK i \in 1 .. n : e = E(i)
    BY <1>7, <1>9
  <2>2. <<c, i>> \in TaskIds(c)
    BY DEF TaskIds, n
  <2> QED  BY <1>3, <2>1, <2>2
<1>10. IdsOf(Elements(q)) = {}
  BY <1>9 DEF IdsOf
<1> QED  BY <1>6, <1>8, <1>9, <1>10

\* Cancellations come into the queue, for a client that is then done.
LEMMA PostCancelKeeps ==
    ASSUME IInv, NEW c \in Clients, PostCancel(c)
    PROVE  IInv'
<1> DEFINE q == [i \in 1 .. request[c].n |-> Entry("cancel", NoTask, <<c, i>>)]
<1>1. /\ stage[c] = "forgotten" /\ Moves(c, "done") /\ Post(q, TRUE)
      /\ UNCHANGED <<waiting_task_ids, queue_results, n_finished, closed>>
  BY DEF PostCancel, Moves, results_vars, history
<1> HIDE DEF q
<1>2. /\ "done" \in Stages \ {"new", "added", "remove"}
      /\ ClientTypes /\ TasksInv /\ ResultsInv /\ request \in Loads /\ queue_results \in Seq(Results)
  BY DEF Stages, IInv, ClientTypes, ResultsInv, ResultTypes
<1>3. /\ StagesGrow /\ ClientTypes' /\ stage'[c] = "done"
  BY <1>1, <1>2, MovesGrow DEF ClientTypes
<1>4. /\ LoopInv' /\ HandGood' /\ Taken' = Taken /\ Progress' = Progress /\ Busy' = Busy
      /\ \A s \in Slots : /\ slots'[s].id_task = slots[s].id_task
                          /\ slots'[s].state = "idle" <=> slots[s].state = "idle"
  BY <1>1, <1>3, LoopStays DEF Moves
<1>5. /\ q \in Seq(Entries) /\ Apart(q) /\ IdsOf(Elements(q)) = {}
      /\ \A e \in Elements(q) : /\ e \in Entries /\ e.id = NoTask /\ e.type = "cancel"
                                /\ e.id_target \in TaskIds(c)
  BY <1>2, CancelEntries DEF q
<1>6. \A t \in TaskIds(c) : t \in Tasks /\ t[1] = c /\ t # NoTask
  BY <1>2, TasksOfClients, TaskParts
<1>7. \A e \in Elements(q) : GoodEntry(e)'
  <2>1. Tasks' = Tasks
    BY SameRequests, <1>3 DEF StagesGrow
  <2> QED  BY <1>3, <1>5, <1>6, <2>1 DEF GoodEntry, Entries, Ids
<1>8. \A e \in Elements(q), f \in Queued : f.id_target # e.id_target
  <2>1. \A f \in Queued : f.id_target # NoTask => stage[f.id_target[1]] = "done"
    BY <1>2 DEF TasksInv, QueuesGood, GoodEntry
  <2> QED  BY <1>1, <1>5, <1>6, <2>1
<1>9. QueuesGood' /\ QueuesApart' /\ IdsOf(Queued)' = IdsOf(Queued)
  <2>1. IdsOf(Elements(q)) \cap IdsOf(Queued) = {}
    BY <1>5
  <2>2. QueuesGood' /\ QueuesApart' /\ IdsOf(Queued)' = IdsOf(Queued) \cup IdsOf(Elements(q))
    BY <1>1, <1>2, <1>3, <1>5, <1>7, <1>8, <2>1, PostQueues DEF TasksInv
  <2> QED  BY <1>5, <2>2
<1>10. IdsOf(Taken)' = IdsOf(Taken)
  BY <1>4 DEF IdsOf
<1>11. SlotsGood' /\ SlotsApart' /\ Early' = Early /\ Owned' = Owned
  BY <1>2, <1>3, <1>4, <1>9, <1>10, SlotsStay
<1>12. PICK h : Thins(h, queue_results, queue_results, 1 .. Len(queue_results))
  BY <1>2, SameThins
<1>13. ResultsInv'
  <2> DEFINE I == 1 .. Len(queue_results)
  <2>1. I \in SUBSET (1 .. Len(queue_results)) /\ \A i \in (1 .. Len(queue_results)) \ I : FALSE
    OBVIOUS
  <2>2. Thins(h, queue_results', queue_results, I)
    BY <1>1, <1>12
  <2>3. failures = 0 => \A i \in I : queue_results[i].id \notin TaskIds(c)
    BY <1>1, NoneOf
  <2>4. waiting_task_ids' \cap TaskIds(c) = {}
    BY <1>1, <1>2, <1>6 DEF ResultsInv, StagesKnow
  <2> HIDE DEF I
  <2> QED  BY <1>1, <1>2, <1>4, <1>11, <2>1, <2>2, <2>3, <2>4, Leaves
<1> QED  BY <1>3, <1>4, <1>9, <1>11, <1>13 DEF IInv, TasksInv

\* The client c takes the result at place i, the first for one of its tasks.
Takes(c, i, x) ==
    /\ stage[c] = "recv" /\ i \in 1 .. Len(queue_results)
    /\ queue_results[i].id \in TaskIds(c)
    /\ \A j \in 1 .. Len(queue_results) : queue_results[j].id \in TaskIds(c) => i <= j
    /\ queue_results' = RemoveAt(queue_results, i)
    /\ x \in {"remove", "cancel", "done", "recv"} /\ stage' = [stage EXCEPT ![c] = x]
    /\ UNCHANGED <<waiting_task_ids, request, closed, failures>>
    /\ Early' = Early /\ Owned' = Owned /\ Progress' = Progress

\* What is left of the results of the task t, a place less.
Left(t, i) == LET I == (1 .. Len(queue_results)) \ {i} IN
    /\ LastResultOf(t) \cap I # {} => LastResultOf(t)' # {}
    /\ LastResultOf(t) \cap I = {} => LastResultOf(t)' = {}
    /\ PartialsOf(t) \cap I = {} => PartialsOf(t)' = {}
    /\ FinalsOf(t) \cap I = {} => FinalsOf(t)' = {}
    /\ (\A k \in FinalsOf(t), j \in LastResultOf(t) : k <= j)
          => \A k \in FinalsOf(t)', j \in LastResultOf(t)' : k <= j
    /\ (\A k \in PartialsOf(t), j \in LastResultOf(t) : k < j)
          => \A k \in PartialsOf(t)', j \in LastResultOf(t)' : k < j
    /\ (\A k, j \in LastResultOf(t) : k = j) => \A k, j \in LastResultOf(t)' : k = j
    /\ InOrder(t) => InOrder(t)'
    /\ Coming(t)' = {queue_results[k].n : k \in PartialsOf(t) \cap I}

\* Taking a result leaves the tasks where they are, and of the results all others.
LEMMA TakesFacts ==
    ASSUME IInv, NEW c \in Clients, NEW i, NEW x, Takes(c, i, x)
    PROVE  /\ queue_results \in Seq(Results) /\ queue_results' \in Seq(Results)
           /\ StagesGrow /\ stage' \in [Clients -> Stages]
           /\ stage'[c] = x /\ \A d \in Clients \ {c} : stage'[d] = stage[d]
           /\ Tasks' = Tasks /\ (\A d : TaskIds(d)' = TaskIds(d)) /\ (\A t : RequestOf(t)' = RequestOf(t))
           /\ \A t : Posted(t)' <=> Posted(t)
           /\ \A d \in Clients : Waits(d)' => Waits(d)
           /\ \A t : Streaming(t)' => Streaming(t)
           /\ \A r \in Elements(queue_results') : r \in Elements(queue_results)
           /\ \A t : Left(t, i)
<1>1. ClientTypes /\ ResultsInv /\ request \in Loads /\ queue_results \in Seq(Results)
  BY DEF IInv, ClientTypes, ResultsInv, ResultTypes
<1>2. /\ stage[c] = "recv" /\ i \in 1 .. Len(queue_results)
      /\ queue_results' = RemoveAt(queue_results, i)
      /\ x \in {"remove", "cancel", "done", "recv"} /\ stage' = [stage EXCEPT ![c] = x]
      /\ request' = request
  BY DEF Takes
<1>3. /\ stage' \in [Clients -> Stages]
      /\ stage'[c] = x /\ \A d \in Clients \ {c} : stage'[d] = stage[d]
  BY <1>1, <1>2 DEF ClientTypes, Stages
<1>4. StagesGrow
  BY <1>2, <1>3 DEF StagesGrow
<1>5. Tasks' = Tasks /\ (\A d : TaskIds(d)' = TaskIds(d)) /\ (\A t : RequestOf(t)' = RequestOf(t))
  BY <1>2, SameRequests
<1>6. \A t \in Tasks : t[1] \in Clients
  BY <1>1, TaskParts
<1>7. \A t : Posted(t)' <=> Posted(t)
  <2>1. \A d \in Clients : stage[d] \in {"new", "added"} <=> stage'[d] \in {"new", "added"}
    BY <1>2, <1>3
  <2> QED  BY <1>5, <1>6, <2>1 DEF Posted
<1>8. \A d \in Clients : Waits(d)' => Waits(d)
  BY <1>2, <1>3 DEF Waits
<1>9. \A t : Streaming(t)' => Streaming(t)
  BY <1>5, <1>6, <1>8 DEF Streaming
<1> DEFINE I == (1 .. Len(queue_results)) \ {i}
<1>10. queue_results' \in Seq(Results) /\ \E h : Thins(h, queue_results', queue_results, I)
  BY <1>1, <1>2, RemovedThins
<1>11. PICK h : Thins(h, queue_results', queue_results, I)
  BY <1>10
<1>12. I \in SUBSET (1 .. Len(queue_results))
  OBVIOUS
<1> HIDE DEF I
<1>13. \A r \in Elements(queue_results') : r \in Elements(queue_results)
  BY <1>1, <1>10, <1>11, <1>12, ThinnedElements
<1>14. ASSUME NEW t PROVE Left(t, i)
  <2>1. /\ LastResultOf(t) \cap I # {} => LastResultOf(t)' # {}
        /\ LastResultOf(t) \cap I = {} => LastResultOf(t)' = {}
        /\ PartialsOf(t) \cap I = {} => PartialsOf(t)' = {}
        /\ FinalsOf(t) \cap I = {} => FinalsOf(t)' = {}
        /\ (\A k \in FinalsOf(t), j \in LastResultOf(t) : k <= j)
              => \A k \in FinalsOf(t)', j \in LastResultOf(t)' : k <= j
        /\ (\A k \in PartialsOf(t), j \in LastResultOf(t) : k < j)
              => \A k \in PartialsOf(t)', j \in LastResultOf(t)' : k < j
        /\ (\A k, j \in LastResultOf(t) : k = j) => \A k, j \in LastResultOf(t)' : k = j
        /\ InOrder(t) => InOrder(t)'
        /\ Coming(t)' = {queue_results[k].n : k \in PartialsOf(t) \cap I}
    BY <1>1, <1>10, <1>11, <1>12, Thinned
  <2> QED  BY <2>1 DEF Left, I
<1> QED  BY <1>1, <1>3, <1>4, <1>5, <1>7, <1>8, <1>9, <1>10, <1>13, <1>14

\* If the task t has its first result at a place other than i, that stays.
LEMMA LeftOthers ==
    ASSUME queue_results \in Seq(Results), NEW t, NEW i, queue_results[i].id # t, Left(t, i)
    PROVE  /\ LastResultOf(t)' = {} <=> LastResultOf(t) = {}
           /\ Coming(t)' = Coming(t)
<1> DEFINE I == (1 .. Len(queue_results)) \ {i}
<1>1. PartialsOf(t) \cap I = PartialsOf(t) /\ LastResultOf(t) \cap I = LastResultOf(t)
  <2>1. \A j \in PartialsOf(t) \cup LastResultOf(t) : queue_results[j].id = t /\ j # i
    BY DEF PartialsOf, LastResultOf
  <2> QED  BY <2>1, Places
<1>2. /\ LastResultOf(t) \cap I # {} => LastResultOf(t)' # {}
      /\ LastResultOf(t) \cap I = {} => LastResultOf(t)' = {}
      /\ Coming(t)' = {queue_results[k].n : k \in PartialsOf(t) \cap I}
  BY DEF Left
<1> HIDE DEF I
<1> QED  BY <1>1, <1>2 DEF Coming

\* The first partial result has the first number that is to come.
LEMMA FirstComing ==
    ASSUME queue_results \in Seq(Results), NEW t, NEW i \in PartialsOf(t), NEW k \in Nat, NEW m \in Nat,
           \A j \in PartialsOf(t) : i <= j, InOrder(t), Coming(t) = k + 1 .. m, Left(t, i)
    PROVE  k + 1 <= m /\ Coming(t)' = (k + 1) + 1 .. m
<1> DEFINE q == queue_results
           N == q[i].n
           rest == PartialsOf(t) \cap ((1 .. Len(q)) \ {i})
<1>1. rest = PartialsOf(t) \ {i} /\ \A j \in PartialsOf(t) : j \in Nat
  BY Places
<1>2. \A j \in PartialsOf(t) : q[j].n \in k + 1 .. m
  BY DEF Coming
<1>3. \A v \in k + 1 .. m : \E j \in PartialsOf(t) : q[j].n = v
  BY DEF Coming
<1>4. \A j \in PartialsOf(t) : j # i => N < q[j].n
  <2>1. \A j \in PartialsOf(t) : j # i => i < j
    BY <1>1
  <2> QED  BY <2>1 DEF InOrder
<1> HIDE DEF N
<1>5. N \in k + 1 .. m
  BY <1>2 DEF N
<1>6. N = k + 1
  <2>1. PICK j \in PartialsOf(t) : q[j].n = k + 1
    <3>1. k + 1 \in k + 1 .. m
      BY <1>5
    <3> QED  BY <1>3, <3>1
  <2>2. j = i => N = k + 1
    BY <2>1 DEF N
  <2>3. j # i => N < k + 1
    BY <1>4, <2>1
  <2> QED  BY <1>5, <2>2, <2>3
<1>7. Coming(t)' = {q[j].n : j \in rest}
  BY DEF Left
<1>8. ASSUME NEW j \in rest PROVE q[j].n \in (k + 1) + 1 .. m
  BY <1>1, <1>2, <1>4, <1>6, <1>8
<1>9. ASSUME NEW v \in (k + 1) + 1 .. m PROVE \E j \in rest : q[j].n = v
  <2>1. v \in k + 1 .. m /\ v # k + 1
    BY <1>9
  <2>2. PICK j \in PartialsOf(t) : q[j].n = v
    BY <1>3, <2>1
  <2>3. j # i
    BY <1>6, <2>1, <2>2 DEF N
  <2> QED  BY <1>1, <2>2, <2>3
<1> HIDE DEF rest
<1> QED  BY <1>5, <1>7, <1>8, <1>9

\* The order of the results of a task is kept.
LEMMA TaskOrder ==
    ASSUME ResultsInv, NEW i, NEW t \in Tasks, Left(t, i)
    PROVE  /\ \A k \in FinalsOf(t)' : t \notin answered /\ \A j \in LastResultOf(t)' : k <= j
           /\ \A k \in PartialsOf(t)' : t \notin answered /\ \A j \in LastResultOf(t)' : k < j
           /\ failures = 0 => \A k \in LastResultOf(t)' : t \notin answered /\ LastResultOf(t)' = {k}
<1> DEFINE I == (1 .. Len(queue_results)) \ {i}
<1>1. /\ \A k \in FinalsOf(t) : t \notin answered /\ \A j \in LastResultOf(t) : k <= j
      /\ \A k \in PartialsOf(t) : t \notin answered /\ \A j \in LastResultOf(t) : k < j
      /\ failures = 0 => \A k \in LastResultOf(t) : t \notin answered /\ LastResultOf(t) = {k}
  BY DEF ResultsInv, FinalFirst, PartialsFirst, LastOnce
<1>2. /\ LastResultOf(t) \cap I = {} => LastResultOf(t)' = {}
      /\ PartialsOf(t) \cap I = {} => PartialsOf(t)' = {}
      /\ FinalsOf(t) \cap I = {} => FinalsOf(t)' = {}
      /\ (\A k \in FinalsOf(t), j \in LastResultOf(t) : k <= j)
            => \A k \in FinalsOf(t)', j \in LastResultOf(t)' : k <= j
      /\ (\A k \in PartialsOf(t), j \in LastResultOf(t) : k < j)
            => \A k \in PartialsOf(t)', j \in LastResultOf(t)' : k < j
      /\ (\A k, j \in LastResultOf(t) : k = j) => \A k, j \in LastResultOf(t)' : k = j
  BY DEF Left
<1> HIDE DEF I
<1>3. /\ LastResultOf(t) = {} => LastResultOf(t)' = {}
      /\ PartialsOf(t) = {} => PartialsOf(t)' = {}
      /\ FinalsOf(t) = {} => FinalsOf(t)' = {}
  <2>1. {} \cap I = {}
    OBVIOUS
  <2> QED  BY <1>2, <2>1
<1>4. \A k \in FinalsOf(t)' : t \notin answered /\ \A j \in LastResultOf(t)' : k <= j
  BY <1>1, <1>2, <1>3
<1>5. \A k \in PartialsOf(t)' : t \notin answered /\ \A j \in LastResultOf(t)' : k < j
  BY <1>1, <1>2, <1>3
<1>6. failures = 0 => \A k \in LastResultOf(t)' : t \notin answered /\ LastResultOf(t)' = {k}
  BY <1>1, <1>2, <1>3
<1> QED  BY <1>4, <1>5, <1>6

\* So it is for all tasks, if the one in question is not answered thereby.
LEMMA OrderLeft ==
    ASSUME ResultsInv, Tasks' = Tasks, answered' = answered, failures' = failures,
           NEW i, \A t : Left(t, i)
    PROVE  FinalFirst' /\ PartialsFirst' /\ LastOnce'
BY TaskOrder DEF FinalFirst, PartialsFirst, LastOnce

\* A partial result is taken: it is the next one.
LEMMA TakePartialOK ==
    ASSUME IInv, NEW c \in Clients, NEW i, NEW x, Takes(c, i, x),
           queue_results[i].kind = "partial", x \in {"recv", "cancel"},
           n_finished' = n_finished, answered' = answered,
           heard' = [heard EXCEPT ![c][queue_results[i].id[2]] = @ + 1]
    PROVE  ClientTypes' /\ ResultsInv'
<1>0. PICK u, k, taken : u = queue_results[i].id /\ k = u[2] /\ taken = heard[c][k]
  OBVIOUS
<1>1. /\ ClientTypes /\ ResultsInv /\ request \in Loads /\ MaxTokens \in Nat
      /\ slots \in [Slots -> SlotRecords]
  BY ServerAssumption DEF IInv, ClientTypes, LoopInv, LoopTypes, SlotRecords
<1>2. /\ stage[c] = "recv" /\ i \in 1 .. Len(queue_results) /\ u \in TaskIds(c)
      /\ \A j \in 1 .. Len(queue_results) : queue_results[j].id \in TaskIds(c) => i <= j
      /\ UNCHANGED <<waiting_task_ids, request, closed, failures>>
      /\ Early' = Early /\ Owned' = Owned /\ Progress' = Progress
  BY <1>0 DEF Takes
<1>3. /\ queue_results \in Seq(Results) /\ queue_results' \in Seq(Results)
      /\ StagesGrow /\ stage' \in [Clients -> Stages]
      /\ stage'[c] = x /\ \A d \in Clients \ {c} : stage'[d] = stage[d]
      /\ Tasks' = Tasks /\ (\A d : TaskIds(d)' = TaskIds(d)) /\ (\A t : RequestOf(t)' = RequestOf(t))
      /\ \A t : Posted(t)' <=> Posted(t)
      /\ \A d \in Clients : Waits(d)' => Waits(d)
      /\ \A t : Streaming(t)' => Streaming(t)
      /\ \A r \in Elements(queue_results') : r \in Elements(queue_results)
      /\ \A t : Left(t, i)
  BY TakesFacts
<1>4. u \in Tasks /\ u[1] = c /\ k \in 1 .. request[c].n /\ k \in Nat /\ u = <<c, k>>
      /\ request[c].n \in Nat
  BY <1>0, <1>1, <1>2, TasksOfClients, TaskParts, ServerAssumption
<1>5. DOMAIN queue_results = 1 .. Len(queue_results)
  BY <1>3, LenProperties
<1>6. i \in PartialsOf(u)
  BY <1>0, <1>2, <1>5 DEF PartialsOf
<1>7. \A t : LastResultOf(t)' = {} <=> LastResultOf(t) = {}
  <2>1. ASSUME NEW t PROVE LastResultOf(t)' = {} <=> LastResultOf(t) = {}
    <3> DEFINE I == (1 .. Len(queue_results)) \ {i}
    <3>1. LastResultOf(t) \cap I = LastResultOf(t)
      <4>1. i \notin LastResultOf(t)
        BY DEF LastResultOf
      <4> QED  BY <1>3, <4>1, Places
    <3>2. /\ LastResultOf(t) \cap I # {} => LastResultOf(t)' # {}
          /\ LastResultOf(t) \cap I = {} => LastResultOf(t)' = {}
      BY <1>3 DEF Left
    <3> HIDE DEF I
    <3> QED  BY <3>1, <3>2
  <2> QED  BY <2>1
<1>8. /\ heard[c] \in [1 .. request[c].n -> Nat]
      /\ heard'[c] = [heard[c] EXCEPT ![k] = heard[c][k] + 1]
      /\ \A d \in Clients \ {c} : heard'[d] = heard[d]
      /\ heard' = [d \in Clients |-> heard'[d]]
  BY <1>0, <1>1 DEF ClientTypes
<1>9. /\ heard'[c] \in [1 .. request[c].n -> Nat]
      /\ heard'[c][k] = taken + 1 /\ heard[c][k] = taken /\ taken \in Nat
      /\ \A j \in 1 .. request[c].n : j # k => heard'[c][j] = heard[c][j]
  BY <1>0, <1>4, <1>8
<1>10. \A t \in Tasks : t # u => heard'[t[1]][t[2]] = heard[t[1]][t[2]]
  <2>1. ASSUME NEW t \in Tasks, t # u PROVE heard'[t[1]][t[2]] = heard[t[1]][t[2]]
    <3>1. t[1] \in Clients /\ t[2] \in 1 .. request[t[1]].n /\ t = <<t[1], t[2]>>
      BY <1>1, TaskParts
    <3>2. CASE t[1] = c
      <4>1. t[2] # k
        BY <1>4, <2>1, <3>1, <3>2
      <4> QED  BY <1>9, <3>1, <3>2, <4>1
    <3>3. CASE t[1] # c
      BY <1>8, <3>1, <3>3, SMTT(30)
    <3> QED  BY <3>2, <3>3
  <2> QED  BY <2>1
<1>11. ClientTypes'
  BY <1>1, <1>2, <1>3, <1>8, <1>9 DEF ClientTypes
<1>12. Streaming(u)
  <2>1. RequestOf(u).kind = "stream"
    BY <1>0, <1>1, <1>2 DEF ResultsInv, ResultTypes, Elements
  <2> QED  BY <1>2, <1>4, <2>1 DEF Streaming, Waits
<1>13. ASSUME NEW t \in Tasks, NEW m \in Nat, AllComing(t, m) PROVE AllComing(t, m)'
  <2>1. CASE t # u
    <3>1. Coming(t)' = Coming(t)
      BY <1>0, <1>3, <2>1, LeftOthers
    <3> QED  BY <1>10, <1>13, <2>1, <3>1 DEF AllComing
  <2>2. CASE t = u
    <3>1. InOrder(u)
      BY <1>1, <1>4, <1>12 DEF ResultsInv, StreamsRight
    <3>2. \A j \in PartialsOf(u) : i <= j
      BY <1>2, <1>3, <1>5 DEF PartialsOf
    <3>3. taken \in Nat /\ Coming(u) = taken + 1 .. m
      BY <1>0, <1>4, <1>9, <1>13, <2>2 DEF AllComing
    <3>4. Left(u, i) /\ queue_results \in Seq(Results)
      BY <1>3
    <3>5. taken + 1 <= m /\ Coming(u)' = (taken + 1) + 1 .. m
      BY <1>6, <1>13, <3>1, <3>2, <3>3, <3>4, FirstComing
    <3> QED  BY <1>0, <1>4, <1>9, <2>2, <3>5 DEF AllComing
  <2> QED  BY <2>1, <2>2
<1>14. ResultTypes'
  <2>1. \A d \in Clients : stage'[d] \in {"new", "added"} => n_finished[d] = 0
    BY <1>1, <1>3 DEF ResultsInv, ResultTypes
  <2>2. \A t \in Tasks : ~ Posted(t) => heard'[t[1]][t[2]] = 0
    <3>1. Posted(u)
      BY <1>0, <1>1, <1>2 DEF ResultsInv, ResultTypes, Elements
    <3> QED  BY <1>1, <1>10, <3>1 DEF ResultsInv, ResultTypes
  <2>3. waiting_task_ids' \subseteq Tasks' /\ \A t \in answered' : Posted(t)'
    BY <1>1, <1>2, <1>3 DEF ResultsInv, ResultTypes
  <2>4. \A r \in Elements(queue_results') :
           Posted(r.id)' /\ (r.kind = "partial" => RequestOf(r.id)'.kind = "stream")
    BY <1>1, <1>3 DEF ResultsInv, ResultTypes
  <2> QED  BY <1>3, <2>1, <2>2, <2>3, <2>4 DEF ResultTypes, Results
<1>15. OwnedOpen'
  BY <1>1, <1>2, <1>7 DEF ResultsInv, OwnedOpen
<1>16. FinalFirst' /\ PartialsFirst' /\ LastOnce'
  BY <1>1, <1>2, <1>3, OrderLeft
<1>17. WaitedFor'
  <2>1. ASSUME NEW d \in Clients, Waits(d)'
        PROVE  /\ TaskIds(d) \subseteq waiting_task_ids
               /\ \A t \in TaskIds(d) : t \in Owned \/ LastResultOf(t)' # {} \/ t \in answered
               /\ n_finished[d] = Cardinality({t \in TaskIds(d) : t \in answered})
    BY <1>1, <1>3, <1>7, <2>1 DEF ResultsInv, WaitedFor
  <2> QED  BY <1>2, <1>3, <2>1 DEF WaitedFor
<1>18. StagesKnow'
  <2>1. ASSUME NEW t \in Tasks
        PROVE  /\ stage'[t[1]] = "added" => t \in waiting_task_ids
               /\ stage'[t[1]] = "remove" => t \in answered
               /\ t \in waiting_task_ids =>
                     /\ stage'[t[1]] \notin {"new", "forgotten", "dropped"}
                     /\ stage'[t[1]] = "done" => t \in answered /\ RequestOf(t).kind = "rerank"
    <3>1. CASE t[1] = c
      BY <1>3, <3>1
    <3>2. CASE t[1] # c
      <4>1. stage'[t[1]] = stage[t[1]]
        BY <1>1, <1>3, <3>2, TaskParts
      <4> QED  BY <1>1, <4>1 DEF ResultsInv, StagesKnow
    <3> QED  BY <3>1, <3>2
  <2> QED  BY <1>2, <1>3, <2>1 DEF StagesKnow
<1>19. NoneStray'
  <2>1. ASSUME failures = 0, NEW r \in Elements(queue_results')
        PROVE  stage'[r.id[1]] \in {"open", "recv", "cancel", "drop", "dropped"}
    <3>1. stage[r.id[1]] \in {"open", "recv", "cancel", "drop", "dropped"} /\ r.id[1] \in Clients
      BY <1>1, <1>3, <2>1, TaskParts DEF ResultsInv, ResultTypes, NoneStray, Posted
    <3> QED  BY <1>3, <3>1
  <2> QED  BY <1>2, <2>1 DEF NoneStray
<1>20. StreamsRight'
  <2>1. \A t \in Early : Streaming(t)' => AllComing(t, 0)'
    <3>1. \A t \in Early : Streaming(t)' => t \in Tasks /\ AllComing(t, 0)
      BY <1>1, <1>3 DEF ResultsInv, StreamsRight, Streaming
    <3> QED  BY <1>13, <3>1
  <2>2. \A p \in Progress : Streaming(p[1])' => AllComing(p[1], p[2])'
    <3>1. \A p \in Progress : Streaming(p[1])' => p[1] \in Tasks /\ AllComing(p[1], p[2])
      BY <1>1, <1>3 DEF ResultsInv, StreamsRight, Streaming
    <3>2. \A p \in Progress : p[2] \in Nat
      BY <1>1 DEF Progress, SlotRecords
    <3> QED  BY <1>13, <3>1, <3>2
  <2>3. \A r \in Elements(queue_results') :
           r.kind = "final" /\ Streaming(r.id)' => AllComing(r.id, r.n)'
    <3>1. \A r \in Elements(queue_results') : r \in Results
      BY <1>3, ElementOfSeq DEF Elements
    <3>2. \A r \in Elements(queue_results') : r.n \in Nat
      BY <3>1 DEF Results
    <3>3. \A r \in Elements(queue_results') :
             r.kind = "final" /\ Streaming(r.id)' => r.id \in Tasks /\ AllComing(r.id, r.n)
      BY <1>1, <1>3 DEF ResultsInv, StreamsRight, Streaming
    <3> QED  BY <1>13, <3>2, <3>3
  <2>4. \A t \in Tasks : Streaming(t)' =>
           (\E m \in 0 .. MaxTokens : AllComing(t, m)') /\ InOrder(t)'
    <3>1. \A t \in Tasks : Streaming(t)' =>
             (\E m \in 0 .. MaxTokens : AllComing(t, m)) /\ InOrder(t)
      BY <1>1, <1>3 DEF ResultsInv, StreamsRight
    <3>2. \A t : InOrder(t) => InOrder(t)'
      BY <1>3 DEF Left
    <3> QED  BY <1>1, <1>13, <3>1, <3>2
  <2> QED  BY <1>2, <1>3, <2>1, <2>2, <2>3, <2>4 DEF StreamsRight
<1> QED  BY <1>11, <1>14, <1>15, <1>16, <1>17, <1>18, <1>19, <1>20 DEF ResultsInv

\* A request has as many tasks as it says.
LEMMA TaskCount ==
    ASSUME request \in Loads, NEW c \in Clients
    PROVE  IsFiniteSet(TaskIds(c)) /\ Cardinality(TaskIds(c)) = request[c].n
<1> DEFINE n == request[c].n
           f == [i \in 1 .. n |-> <<c, i>>]
<1>1. n \in Nat
  BY ServerAssumption
<1>2. TaskIds(c) = {<<c, i>> : i \in 1 .. n}
  BY DEF TaskIds
<1> HIDE DEF n
<1>3. f \in Bijection(1 .. n, TaskIds(c))
  BY <1>2 DEF Bijection, Injection, Surjection, IsInjective
<1>4. IsFiniteSet(1 .. n) /\ Cardinality(1 .. n) = n
  BY <1>1, FS_Interval
<1>5. ExistsBijection(1 .. n, TaskIds(c))
  BY <1>3 DEF ExistsBijection
<1> QED  BY <1>4, <1>5, FS_Bijection DEF n

\* The first result that is taken, if it is the last one of its task u.
LEMMA LastTaken ==
    ASSUME IInv, NEW c \in Clients, NEW i, NEW x, Takes(c, i, x),
           queue_results[i].kind # "partial", NEW u, u = queue_results[i].id
    PROVE  /\ u \in TaskIds(c) /\ u \in Tasks /\ u[1] = c /\ Posted(u)
           /\ u \notin Owned /\ (queue_results[i].kind = "final" => u \notin answered)
           /\ PartialsOf(u) = {} /\ PartialsOf(u)' = {} /\ FinalsOf(u)' = {}
           /\ failures = 0 => LastResultOf(u)' = {}
<1> DEFINE I == (1 .. Len(queue_results)) \ {i}
<1>1. ResultsInv /\ request \in Loads /\ queue_results \in Seq(Results) /\ Left(u, i)
  BY TakesFacts DEF IInv, ClientTypes
<1>2. /\ i \in 1 .. Len(queue_results) /\ u \in TaskIds(c)
      /\ \A j \in 1 .. Len(queue_results) : queue_results[j].id \in TaskIds(c) => i <= j
  BY DEF Takes
<1>3. u \in Tasks /\ u[1] = c /\ Posted(u)
  BY <1>1, <1>2, TasksOfClients DEF ResultsInv, ResultTypes, Elements
<1>4. i \in LastResultOf(u) /\ (queue_results[i].kind = "final" => i \in FinalsOf(u))
  <2>1. DOMAIN queue_results = 1 .. Len(queue_results)
    BY <1>1, LenProperties
  <2> QED  BY <1>2, <2>1 DEF LastResultOf, FinalsOf
<1>5. u \notin Owned /\ (queue_results[i].kind = "final" => u \notin answered)
  BY <1>1, <1>3, <1>4 DEF ResultsInv, OwnedOpen, FinalFirst
<1>6. \A j \in PartialsOf(u) \cup LastResultOf(u) : i <= j /\ j \in Nat /\ i \in Nat
  <2>1. \A j \in PartialsOf(u) \cup LastResultOf(u) :
           j \in 1 .. Len(queue_results) /\ queue_results[j].id = u /\ j \in Nat
    BY <1>1, Places DEF PartialsOf, LastResultOf
  <2>2. i \in Nat
    BY <1>2
  <2> QED  BY <1>2, <2>1, <2>2
<1>7. PartialsOf(u) = {}
  <2>1. \A j \in PartialsOf(u) : j < i
    BY <1>1, <1>3, <1>4 DEF ResultsInv, PartialsFirst
  <2> QED  BY <1>6, <2>1
<1>8. FinalsOf(u) \subseteq {i}
  <2>1. \A j \in FinalsOf(u) : j <= i /\ j \in LastResultOf(u)
    BY <1>1, <1>3, <1>4, Places DEF ResultsInv, FinalFirst
  <2> QED  BY <1>6, <2>1
<1>9. failures = 0 => LastResultOf(u) = {i}
  BY <1>1, <1>3, <1>4 DEF ResultsInv, LastOnce
<1>10. /\ PartialsOf(u) \cap I = {} /\ FinalsOf(u) \cap I = {}
       /\ failures = 0 => LastResultOf(u) \cap I = {}
  BY <1>7, <1>8, <1>9
<1>11. /\ LastResultOf(u) \cap I = {} => LastResultOf(u)' = {}
       /\ PartialsOf(u) \cap I = {} => PartialsOf(u)' = {}
       /\ FinalsOf(u) \cap I = {} => FinalsOf(u)' = {}
  BY <1>1 DEF Left
<1> HIDE DEF I
<1> QED  BY <1>2, <1>3, <1>5, <1>7, <1>10, <1>11

\* The tasks of a client that are answered, one more.
LEMMA OneMore ==
    ASSUME request \in Loads, NEW c \in Clients, NEW u \in TaskIds(c), u \notin answered,
           NEW n, n = Cardinality({t \in TaskIds(c) : t \in answered})
    PROVE  LET A == {t \in TaskIds(c) : t \in answered \cup {u}} IN
           n + 1 = Cardinality(A) /\ (n + 1 = request[c].n => A = TaskIds(c))
<1> DEFINE B == {t \in TaskIds(c) : t \in answered}
           A == {t \in TaskIds(c) : t \in answered \cup {u}}
<1>1. IsFiniteSet(TaskIds(c)) /\ Cardinality(TaskIds(c)) = request[c].n
  BY TaskCount
<1>2. A = B \cup {u} /\ u \notin B /\ B \in SUBSET TaskIds(c) /\ A \in SUBSET TaskIds(c)
  OBVIOUS
<1> HIDE DEF A, B
<1>3. IsFiniteSet(B)
  BY <1>1, <1>2, FS_Subset
<1>4. Cardinality(A) = Cardinality(B) + 1
  BY <1>2, <1>3, FS_AddElement
<1>5. Cardinality(TaskIds(c)) = Cardinality(A) => A = TaskIds(c)
  BY <1>1, <1>2, FS_Subset
<1> QED  BY <1>1, <1>4, <1>5 DEF A, B

\* A last result is taken: of its task nothing but stray errors is left.
LEMMA TakeLastOK ==
    ASSUME IInv, NEW c \in Clients, NEW i, NEW x, Takes(c, i, x),
           queue_results[i].kind # "partial", heard' = heard,
           answered' = answered \cup {queue_results[i].id},
           n_finished' = [n_finished EXCEPT ![c] = IF queue_results[i].kind = "final" THEN @ + 1 ELSE @],
           x = "recv" => queue_results[i].kind = "final",
           x \in {"remove", "done"} =>
              \/ request[c].n = 1
              \/ queue_results[i].kind = "final" /\ n_finished[c] + 1 = request[c].n,
           x = "done" => request[c].kind = "rerank"
    PROVE  ClientTypes' /\ ResultsInv'
<1>0. PICK u : u = queue_results[i].id
  OBVIOUS
<1>1. ClientTypes /\ ResultsInv /\ request \in Loads
  BY DEF IInv, ClientTypes
<1>2. /\ stage[c] = "recv" /\ Waits(c)
      /\ UNCHANGED <<waiting_task_ids, request, closed, failures>>
      /\ Early' = Early /\ Owned' = Owned /\ Progress' = Progress
      /\ answered' = answered \cup {u} /\ heard' = heard
      /\ x \in {"remove", "cancel", "done", "recv"}
  BY <1>0 DEF Takes, Waits
<1>3. /\ queue_results \in Seq(Results) /\ queue_results' \in Seq(Results)
      /\ StagesGrow /\ stage' \in [Clients -> Stages]
      /\ stage'[c] = x /\ \A d \in Clients \ {c} : stage'[d] = stage[d]
      /\ Tasks' = Tasks /\ (\A d : TaskIds(d)' = TaskIds(d)) /\ (\A t : RequestOf(t)' = RequestOf(t))
      /\ \A t : Posted(t)' <=> Posted(t)
      /\ \A d \in Clients : Waits(d)' => Waits(d)
      /\ \A t : Streaming(t)' => Streaming(t)
      /\ \A r \in Elements(queue_results') : r \in Elements(queue_results)
      /\ \A t : Left(t, i)
  BY TakesFacts
<1>4. /\ u \in TaskIds(c) /\ u \in Tasks /\ u[1] = c /\ Posted(u)
      /\ u \notin Owned /\ (queue_results[i].kind = "final" => u \notin answered)
      /\ PartialsOf(u) = {} /\ PartialsOf(u)' = {} /\ FinalsOf(u)' = {}
      /\ failures = 0 => LastResultOf(u)' = {}
  BY <1>0, LastTaken
<1>5. /\ n_finished'[c] = IF queue_results[i].kind = "final" THEN n_finished[c] + 1 ELSE n_finished[c]
      /\ \A d \in Clients \ {c} : n_finished'[d] = n_finished[d]
      /\ n_finished' \in [Clients -> Nat] /\ n_finished[c] \in Nat
  BY <1>1 DEF ClientTypes
<1>6. ClientTypes'
  BY <1>1, <1>2, <1>3, <1>5 DEF ClientTypes
<1>7. n_finished[c] = Cardinality({t \in TaskIds(c) : t \in answered})
  BY <1>1, <1>2 DEF ResultsInv, WaitedFor
<1>8. x \in {"remove", "done"} => \A t \in TaskIds(c) : t \in answered'
  <2>1. CASE request[c].n = 1
    <3>1. TaskIds(c) = {<<c, 1>>}
      BY <2>1 DEF TaskIds
    <3> QED  BY <1>2, <1>4, <3>1
  <2>2. CASE queue_results[i].kind = "final" /\ n_finished[c] + 1 = request[c].n
    <3>1. {t \in TaskIds(c) : t \in answered \cup {u}} = TaskIds(c)
      BY <1>1, <1>4, <1>5, <1>7, <2>2, OneMore
    <3> QED  BY <1>2, <3>1
  <2> QED  BY <2>1, <2>2
<1>9. \A t : t # u => (LastResultOf(t)' = {} <=> LastResultOf(t) = {}) /\ Coming(t)' = Coming(t)
  BY <1>0, <1>3, LeftOthers
<1>10. \A t, m : AllComing(t, m) => AllComing(t, m)'
  <2>1. Coming(u)' = Coming(u)
    BY <1>4 DEF Coming
  <2>2. \A t : Coming(t)' = Coming(t)
    BY <1>9, <2>1
  <2> QED  BY <1>2, <2>2 DEF AllComing
<1>11. ResultTypes'
  <2>1. \A d \in Clients : stage'[d] \in {"new", "added"} => n_finished'[d] = 0
    BY <1>1, <1>2, <1>3, <1>5 DEF ResultsInv, ResultTypes
  <2>2. /\ waiting_task_ids' \subseteq Tasks' /\ (\A t \in answered' : Posted(t)')
        /\ \A t \in Tasks : ~ Posted(t)' => heard[t[1]][t[2]] = 0
    BY <1>1, <1>2, <1>3, <1>4 DEF ResultsInv, ResultTypes
  <2>3. \A r \in Elements(queue_results') :
           Posted(r.id)' /\ (r.kind = "partial" => RequestOf(r.id)'.kind = "stream")
    BY <1>1, <1>3 DEF ResultsInv, ResultTypes
  <2> QED  BY <1>2, <1>3, <2>1, <2>2, <2>3 DEF ResultTypes, Results
<1>12. OwnedOpen'
  <2>1. \A t \in Owned : t # u
    BY <1>4
  <2> QED  BY <1>1, <1>2, <1>9, <2>1 DEF ResultsInv, OwnedOpen
<1>13. FinalFirst' /\ PartialsFirst' /\ LastOnce'
  <2>1. ASSUME NEW t \in Tasks
        PROVE  /\ \A k \in FinalsOf(t)' : t \notin answered' /\ \A j \in LastResultOf(t)' : k <= j
               /\ \A k \in PartialsOf(t)' : t \notin answered' /\ \A j \in LastResultOf(t)' : k < j
               /\ failures = 0 => \A k \in LastResultOf(t)' : t \notin answered' /\ LastResultOf(t)' = {k}
    <3>1. CASE t = u
      BY <1>4, <3>1
    <3>2. CASE t # u
      <4>1. t \in answered' <=> t \in answered
        BY <1>2, <3>2
      <4>2. /\ \A k \in FinalsOf(t)' : t \notin answered /\ \A j \in LastResultOf(t)' : k <= j
            /\ \A k \in PartialsOf(t)' : t \notin answered /\ \A j \in LastResultOf(t)' : k < j
            /\ failures = 0 => \A k \in LastResultOf(t)' : t \notin answered /\ LastResultOf(t)' = {k}
        BY <1>1, <1>3, TaskOrder
      <4> QED  BY <4>1, <4>2
    <3> QED  BY <3>1, <3>2
  <2> QED  BY <1>2, <1>3, <2>1 DEF FinalFirst, PartialsFirst, LastOnce
<1>14. WaitedFor'
  <2>1. ASSUME NEW d \in Clients, Waits(d)'
        PROVE  /\ TaskIds(d) \subseteq waiting_task_ids
               /\ \A t \in TaskIds(d) : t \in Owned \/ LastResultOf(t)' # {} \/ t \in answered'
               /\ n_finished'[d] = Cardinality({t \in TaskIds(d) : t \in answered'})
    <3>1. /\ TaskIds(d) \subseteq waiting_task_ids
          /\ \A t \in TaskIds(d) : t \in Owned \/ LastResultOf(t) # {} \/ t \in answered
          /\ n_finished[d] = Cardinality({t \in TaskIds(d) : t \in answered})
      BY <1>1, <1>3, <2>1 DEF ResultsInv, WaitedFor
    <3>2. \A t \in TaskIds(d) : t \in Owned \/ LastResultOf(t)' # {} \/ t \in answered'
      BY <1>2, <1>9, <3>1
    <3>3. n_finished'[d] = Cardinality({t \in TaskIds(d) : t \in answered'})
      <4>1. CASE d = c
        <5>1. queue_results[i].kind = "final"
          BY <1>2, <1>3, <2>1, <4>1 DEF Waits
        <5>2. n_finished[c] + 1 = Cardinality({t \in TaskIds(c) : t \in answered \cup {u}})
          BY <1>1, <1>4, <1>7, <5>1, OneMore
        <5> QED  BY <1>2, <1>5, <4>1, <5>1, <5>2
      <4>2. CASE d # c
        <5>1. \A t \in TaskIds(d) : t # u
          BY <1>1, <1>4, <4>2, TasksOfClients
        <5>2. {t \in TaskIds(d) : t \in answered'} = {t \in TaskIds(d) : t \in answered}
          BY <1>2, <5>1
        <5> QED  BY <1>5, <3>1, <4>2, <5>2
      <4> QED  BY <4>1, <4>2
    <3> QED  BY <3>1, <3>2, <3>3
  <2> QED  BY <1>2, <1>3, <2>1 DEF WaitedFor
<1>15. StagesKnow'
  <2>1. ASSUME NEW t \in Tasks
        PROVE  /\ stage'[t[1]] = "added" => t \in waiting_task_ids
               /\ stage'[t[1]] = "remove" => t \in answered'
               /\ t \in waiting_task_ids =>
                     /\ stage'[t[1]] \notin {"new", "forgotten", "dropped"}
                     /\ stage'[t[1]] = "done" => t \in answered' /\ RequestOf(t).kind = "rerank"
    <3>1. CASE t[1] = c
      <4>1. t \in TaskIds(c) /\ stage'[t[1]] = x /\ RequestOf(t) = request[c]
        BY <1>1, <1>3, <3>1, TaskParts DEF RequestOf
      <4> QED  BY <1>2, <1>8, <4>1
    <3>2. CASE t[1] # c
      <4>1. stage'[t[1]] = stage[t[1]]
        BY <1>1, <1>3, <3>2, TaskParts
      <4> QED  BY <1>1, <1>2, <4>1 DEF ResultsInv, StagesKnow
    <3> QED  BY <3>1, <3>2
  <2> QED  BY <1>2, <1>3, <2>1 DEF StagesKnow
<1>16. NoneStray'
  <2>1. ASSUME failures = 0, NEW r \in Elements(queue_results')
        PROVE  stage'[r.id[1]] \in {"open", "recv", "cancel", "drop", "dropped"}
    <3>1. /\ stage[r.id[1]] \in {"open", "recv", "cancel", "drop", "dropped"}
          /\ r.id \in Tasks /\ r.id[1] \in Clients
      BY <1>1, <1>3, <2>1, TaskParts DEF ResultsInv, ResultTypes, NoneStray, Posted
    <3>2. r.id \notin answered'
      <4>1. PICK k \in 1 .. Len(queue_results') : r = queue_results'[k]
        BY <2>1 DEF Elements
      <4>2. DOMAIN queue_results' = 1 .. Len(queue_results')
        BY <1>3, LenProperties
      <4>3. k \in PartialsOf(r.id)' \/ k \in LastResultOf(r.id)'
        BY <4>1, <4>2 DEF PartialsOf, LastResultOf
      <4> QED  BY <1>2, <1>3, <1>13, <2>1, <3>1, <4>3 DEF PartialsFirst, LastOnce
    <3>3. CASE r.id[1] = c
      <4>1. r.id \in TaskIds(c)
        BY <1>1, <3>1, <3>3, TaskParts
      <4> QED  BY <1>2, <1>3, <1>8, <3>2, <3>3, <4>1
    <3>4. CASE r.id[1] # c
      BY <1>3, <3>1, <3>4
    <3> QED  BY <3>3, <3>4
  <2> QED  BY <1>2, <2>1 DEF NoneStray
<1>17. StreamsRight'
  <2>1. \A t \in Early : Streaming(t)' => AllComing(t, 0)'
    BY <1>1, <1>3, <1>10 DEF ResultsInv, StreamsRight
  <2>2. \A p \in Progress : Streaming(p[1])' => AllComing(p[1], p[2])'
    BY <1>1, <1>3, <1>10 DEF ResultsInv, StreamsRight
  <2>3. \A r \in Elements(queue_results') :
           r.kind = "final" /\ Streaming(r.id)' => AllComing(r.id, r.n)'
    BY <1>1, <1>3, <1>10 DEF ResultsInv, StreamsRight
  <2>4. \A t \in Tasks : Streaming(t)' =>
           (\E m \in 0 .. MaxTokens : AllComing(t, m)') /\ InOrder(t)'
    <3>1. \A t : InOrder(t) => InOrder(t)'
      BY <1>3 DEF Left
    <3> QED  BY <1>1, <1>3, <1>10, <3>1 DEF ResultsInv, StreamsRight
  <2> QED  BY <1>2, <1>3, <2>1, <2>2, <2>3, <2>4 DEF StreamsRight
<1> QED  BY <1>6, <1>11, <1>12, <1>13, <1>14, <1>15, <1>16, <1>17 DEF ResultsInv


\* A client takes the first of its results.
LEMMA TakeResultKeeps ==
    ASSUME IInv, NEW c \in Clients, TakeResult(c)
    PROVE  IInv'
<1>1. /\ ClientTypes /\ ResultsInv /\ request \in Loads /\ queue_results \in Seq(Results)
      /\ DOMAIN queue_results = 1 .. Len(queue_results)
  BY LenProperties DEF IInv, ClientTypes, ResultsInv, ResultTypes
<1>2. PICK i : i = Recv(TaskIds(c))
  OBVIOUS
<1>3. PICK result : result = queue_results[i]
  OBVIOUS
<1>4. PICK x : x = After(c, result)
  OBVIOUS
<1>5. /\ stage[c] = "recv" /\ ResultsFor(TaskIds(c)) # {}
      /\ queue_results' = RemoveAt(queue_results, i) /\ stage' = [stage EXCEPT ![c] = x]
      /\ n_finished' = [n_finished EXCEPT ![c] = IF result.kind = "final" THEN @ + 1 ELSE @]
      /\ heard' = [heard EXCEPT ![c][result.id[2]] = IF result.kind = "partial" THEN @ + 1 ELSE @]
      /\ answered' = IF result.kind = "partial" THEN answered ELSE answered \cup {result.id}
      /\ UNCHANGED tasks_vars /\ UNCHANGED main_vars
      /\ UNCHANGED <<waiting_task_ids, request, closed, failures, refusals, misfired>>
  BY <1>2, <1>3, <1>4 DEF TakeResult
<1>6. /\ i \in 1 .. Len(queue_results) /\ result.id \in TaskIds(c)
      /\ \A j \in 1 .. Len(queue_results) : queue_results[j].id \in TaskIds(c) => i <= j
  <2> DEFINE P == ResultsFor(TaskIds(c))
  <2>1. P = {j \in 1 .. Len(queue_results) : queue_results[j].id \in TaskIds(c)}
    BY <1>1 DEF ResultsFor
  <2>2. P \in SUBSET Nat
    BY <2>1
  <2>3. i = CHOOSE j \in P : \A k \in P : j <= k
    BY <1>2 DEF Recv
  <2> HIDE DEF P
  <2>4. \E j \in P : \A k \in P : j <= k
    BY <1>5, <2>2, LeastNumber DEF P
  <2>5. i \in P /\ \A k \in P : i <= k
    BY <2>3, <2>4
  <2> QED  BY <1>3, <2>1, <2>5
<1>7. /\ x \in {"remove", "cancel", "done", "recv"}
      /\ result.kind = "partial" => x \in {"recv", "cancel"}
      /\ x = "recv" => result.kind \in {"partial", "final"}
      /\ x \in {"remove", "done"} =>
            request[c].n = 1 \/ (result.kind = "final" /\ n_finished[c] + 1 = request[c].n)
      /\ x = "done" => request[c].kind = "rerank"
  <2>1. result \in Results /\ result \in Elements(queue_results)
    BY <1>1, <1>3, <1>6, ElementOfSeq DEF Elements
  <2>2. result.kind \in {"partial", "final", "error"}
    BY <2>1 DEF Results
  <2>3. result.kind = "partial" => ~ Blocking(c)
    <3>1. result.kind = "partial" => RequestOf(result.id).kind = "stream"
      BY <1>1, <2>1 DEF ResultsInv, ResultTypes
    <3>2. RequestOf(result.id) = request[c]
      BY <1>1, <1>6, TasksOfClients DEF RequestOf
    <3> QED  BY <3>1, <3>2 DEF Blocking, Slotless
  <2>4. Blocking(c) => request[c].n = 1
    BY <1>1, ServerAssumption DEF Blocking
  <2> HIDE DEF Blocking
  <2> QED  BY <1>4, <2>2, <2>3, <2>4 DEF After
<1>8. StagesGrow
  <2>1. stage'[c] = x /\ \A d \in Clients \ {c} : stage'[d] = stage[d]
    BY <1>1, <1>5 DEF ClientTypes
  <2> QED  BY <1>5, <1>7, <2>1 DEF StagesGrow
<1>9. LoopInv' /\ TasksInv' /\ Early' = Early /\ Owned' = Owned /\ Progress' = Progress
  BY <1>5, <1>8, TasksStay
<1>10. Takes(c, i, x)
  BY <1>3, <1>5, <1>6, <1>7, <1>9 DEF Takes
<1>11. CASE result.kind = "partial"
  <2>1. n_finished' = n_finished
    BY <1>1, <1>5, <1>11 DEF ClientTypes
  <2>2. heard' = [heard EXCEPT ![c][queue_results[i].id[2]] = @ + 1]
    BY <1>3, <1>5, <1>11
  <2>3. ClientTypes' /\ ResultsInv'
    BY <1>3, <1>5, <1>7, <1>10, <1>11, <2>1, <2>2, TakePartialOK
  <2> QED  BY <1>9, <2>3 DEF IInv
<1>12. CASE result.kind # "partial"
  <2>1. heard' = heard
    <3>1. heard' = [heard EXCEPT ![c][result.id[2]] = @]
      BY <1>5, <1>12
    <3>2. heard = [d \in Clients |-> heard[d]] /\ heard[c] \in [1 .. request[c].n -> Nat]
      BY <1>1 DEF ClientTypes
    <3>3. [heard[c] EXCEPT ![result.id[2]] = @] = heard[c]
      BY <3>2
    <3> QED  BY <3>1, <3>2, <3>3
  <2>2. answered' = answered \cup {queue_results[i].id}
    BY <1>3, <1>5, <1>12
  <2>3. ClientTypes' /\ ResultsInv'
    BY <1>3, <1>5, <1>7, <1>10, <1>12, <2>1, <2>2, TakeLastOK
  <2> QED  BY <1>9, <2>3 DEF IInv
<1> QED  BY <1>11, <1>12

-----------------------------------------------------------------------------
(* The inductive invariant *)

\* The HTTP threads keep the invariant.
LEMMA ClientStepKeeps ==
    ASSUME IInv, NEW c \in Clients, Announce(c) \/ CloseConnection(c) \/ ClientStep(c)
    PROVE  IInv'
BY AnnounceKeeps, CloseConnectionKeeps, PostRequestKeeps, OpenStreamKeeps, TakeResultKeeps,
   TimeoutKeeps, CancelTasksKeeps, PostCancelKeeps, FinishKeeps DEF ClientStep

\* So does doing nothing.
LEMMA StutterKeeps ==
    ASSUME IInv, UNCHANGED vars
    PROVE  IInv'
<1>1. /\ UNCHANGED tasks_vars /\ UNCHANGED results_vars /\ UNCHANGED main_vars
      /\ UNCHANGED <<request, stage, n_finished, closed, heard, answered, failures, refusals, misfired>>
  BY DEF vars, client_vars, history
<1>2. ClientTypes /\ StagesGrow
  BY <1>1 DEF IInv, StagesGrow
<1>3. LoopInv' /\ TasksInv' /\ Early' = Early /\ Owned' = Owned /\ Progress' = Progress
  BY <1>1, <1>2, TasksStay
<1>4. ClientTypes'
  BY <1>1, <1>2 DEF ClientTypes
<1>5. Quiet
  BY <1>1, <1>3 DEF Quiet
<1>6. ResultsInv'
  BY <1>5, QuietOK
<1> QED  BY <1>3, <1>4, <1>6 DEF IInv

\* At first there are no tasks and no results.
LEMMA InitKeeps == Init => IInv
<1> SUFFICES ASSUME Init PROVE IInv
  OBVIOUS
<1>1. /\ queue_tasks = <<>> /\ queue_tasks_deferred = <<>>
      /\ waiting_task_ids = {} /\ queue_results = <<>>
      /\ slots = [s \in Slots |-> FreeSlot]
      /\ main = "tasks" /\ hand = NoTask /\ turn = 0
      /\ batched = 0 /\ batch = {} /\ n_tokens = 0
      /\ request \in Loads
      /\ stage = [c \in Clients |-> "new"]
      /\ n_finished = [c \in Clients |-> 0]
      /\ closed = [c \in Clients |-> FALSE]
      /\ heard = [c \in Clients |-> [i \in 1 .. request[c].n |-> 0]] /\ answered = {}
      /\ failures = 0 /\ refusals = 0 /\ misfired = FALSE
  BY DEF Init, QueueInit
<1>2. /\ Slots = 1 .. NSlots /\ NSlots \in Nat \ {0} /\ MaxTokens \in Nat /\ NBatch \in Nat
      /\ MaxFailures \in Nat /\ MaxRefusals \in Nat
  BY ServerAssumption DEF Slots
<1>3. \A s \in Slots : slots[s] = FreeSlot /\ slots[s].state = "idle" /\ slots[s].id_task = NoTask
  BY <1>1 DEF FreeSlot
<1>4. LoopInv
  <2>1. FreeSlot \in [state : SlotStates, id_task : Ids, left : Nat,
                      n_decoded : 0 .. MaxTokens, n_sent : 0 .. MaxTokens]
    BY <1>2 DEF FreeSlot, SlotStates, Ids
  <2>2. LoopTypes
    <3>1. slots \in [Slots -> [state : SlotStates, id_task : Ids, left : Nat,
                               n_decoded : 0 .. MaxTokens, n_sent : 0 .. MaxTokens]]
      BY <1>1, <2>1
    <3>2. 0 \in 0 .. NSlots /\ 0 \in 0 .. MaxFailures /\ 0 \in 0 .. MaxRefusals /\ 0 <= NSlots /\ 0 \in Nat
      BY <1>2
    <3>3. /\ turn \in 0 .. NSlots /\ batched \in 0 .. NSlots
          /\ n_tokens \in Nat /\ n_tokens <= NSlots
          /\ failures \in 0 .. MaxFailures /\ refusals \in 0 .. MaxRefusals
      BY <1>1, <3>2
    <3>4. misfired \in BOOLEAN
      BY <1>1
    <3> QED  BY <1>1, <3>1, <3>3, <3>4 DEF LoopTypes
  <2>3. LoopKnows
    <3>1. \A s \in Slots : slots[s].n_sent = 0 /\ slots[s].n_decoded = 0 /\ slots[s].state = "idle"
      BY <1>3 DEF FreeSlot
    <3> QED  BY <1>1, <3>1 DEF LoopKnows
  <2> QED  BY <2>2, <2>3 DEF LoopInv
<1>5. Elements(queue_tasks) = {} /\ Elements(queue_tasks_deferred) = {} /\ Elements(queue_results) = {}
      /\ Apart(queue_tasks) /\ Apart(queue_tasks_deferred)
  BY <1>1, NoElements
<1>6. Queued = {} /\ Taken = {} /\ Early = {} /\ Busy = {} /\ Owned = {} /\ Progress = {}
  <2>1. Queued = {} /\ Taken = {}
    BY <1>1, <1>5 DEF Queued, Taken
  <2>2. Slots \ Idle = {}
    BY <1>3 DEF Idle, Processing
  <2> QED  BY <2>1, <2>2 DEF Early, IdsOf, Busy, Owned, Progress
<1>7. TasksInv
  <2>1. QueuesGood
    BY <1>1, <1>6 DEF QueuesGood
  <2>2. HandGood /\ SlotsGood
    BY <1>1, <1>3, <1>6 DEF HandGood, SlotsGood
  <2>3. QueuesApart /\ SlotsApart
    BY <1>3, <1>5, <1>6 DEF QueuesApart, SlotsApart, IdsOf
  <2> QED  BY <2>1, <2>2, <2>3 DEF TasksInv
<1>8. ClientTypes
  <2>1. heard = [c \in Clients |-> heard[c]]
    BY <1>1
  <2>2. \A c \in Clients : heard[c] \in [1 .. request[c].n -> Nat]
    BY <1>1
  <2>3. "new" \in Stages
    BY DEF Stages
  <2> QED  BY <1>1, <2>1, <2>2, <2>3 DEF ClientTypes
<1>9. DOMAIN queue_results = {}
  BY <1>1
<1>10. \A t : LastResultOf(t) = {} /\ PartialsOf(t) = {} /\ FinalsOf(t) = {}
  BY <1>9 DEF LastResultOf, PartialsOf, FinalsOf
<1>11. \A c \in Clients : stage[c] = "new" /\ ~ Waits(c)
  BY <1>1 DEF Waits
<1>12. \A t \in Tasks : ~ Streaming(t) /\ stage[t[1]] = "new" /\ heard[t[1]][t[2]] = 0
  <2>1. \A t \in Tasks : t[1] \in Clients /\ t[2] \in 1 .. request[t[1]].n
    BY <1>1, TaskParts
  <2> QED  BY <1>1, <1>11, <2>1 DEF Streaming
<1>13. ResultsInv
  <2>1. ResultTypes
    <3>1. \A c \in Clients : n_finished[c] = 0
      BY <1>1
    <3>2. queue_results \in Seq(Results)
      BY <1>1
    <3> QED  BY <1>1, <1>5, <1>12, <3>1, <3>2 DEF ResultTypes
  <2>2. OwnedOpen /\ FinalFirst /\ PartialsFirst /\ LastOnce
    BY <1>6, <1>10 DEF OwnedOpen, FinalFirst, PartialsFirst, LastOnce
  <2>3. WaitedFor /\ StagesKnow /\ NoneStray
    BY <1>1, <1>5, <1>11, <1>12 DEF WaitedFor, StagesKnow, NoneStray
  <2>4. StreamsRight
    BY <1>5, <1>6, <1>12 DEF StreamsRight
  <2> QED  BY <2>1, <2>2, <2>3, <2>4 DEF ResultsInv
<1> QED  BY <1>4, <1>7, <1>8, <1>13 DEF IInv

\* The invariant holds: initially, after a step of the main loop, of a client.
THEOREM Invariant == Spec => []IInv
<1>1. Init => IInv
  BY InitKeeps
<1>2. ASSUME IInv, [Next]_vars PROVE IInv'
  BY <1>2, MainStepKeeps, ClientStepKeeps, StutterKeeps DEF Next
<1> QED  BY <1>1, <1>2, PTL DEF Spec

-----------------------------------------------------------------------------
(* What it says *)

\* Every variable has its type, whatever the requests and however many slots:
\* the batch holds busy slots only, and never more tokens than it has room for.
THEOREM TypeCorrect == Spec => []TypeOK
<1>1. ASSUME IInv PROVE TypeOK
  <2>1. LoopTypes /\ LoopKnows /\ TasksInv /\ ClientTypes /\ ResultTypes /\ request \in Loads
    BY <1>1 DEF IInv, LoopInv, ResultsInv, ClientTypes
  <2>2. queue_tasks \in Seq(Entries) /\ queue_tasks_deferred \in Seq(Entries)
    BY <2>1 DEF TasksInv, QueuesGood
  <2>3. waiting_task_ids \subseteq Clients \X Nat /\ answered \subseteq Clients \X Nat
    <3>1. waiting_task_ids \subseteq Tasks /\ answered \subseteq Tasks
      BY <2>1 DEF ResultTypes, Posted
    <3>2. \A t \in Tasks : t \in Clients \X Nat
      BY <2>1, TaskParts
    <3> QED  BY <3>1, <3>2
  <2>4. queue_results \in Seq([id : Clients \X Nat, kind : {"partial", "final", "error"}, n : Nat])
    BY <2>1 DEF ResultTypes, Results
  <2>5. hand \in Entries \cup {NoTask}
    <3>1. main = "process" => hand \in Taken
      BY DEF Taken
    <3> QED  BY <2>1, <3>1 DEF TasksInv, HandGood, GoodEntry
  <2>6. batch \subseteq Slots \ Idle
    BY <2>1 DEF LoopKnows, Idle, Processing
  <2>7. heard \in [Clients -> Seq(Nat)]
    <3>1. \A c \in Clients : request[c].n \in Nat
      BY <2>1, ServerAssumption
    <3>2. \A c \in Clients : heard[c] \in Seq(Nat)
      <4>1. \A c \in Clients : heard[c] \in UNION {[1 .. n -> Nat] : n \in Nat}
        BY <2>1, <3>1 DEF ClientTypes
      <4>2. Seq(Nat) = UNION {[1 .. n -> Nat] : n \in Nat}
        BY SeqDef, Zenon
      <4> QED  BY <4>1, <4>2
    <3> QED  BY <2>1, <3>2 DEF ClientTypes
  <2>8. /\ main \in {"tasks", "process", "prompts", "decode", "fail", "wait"}
        /\ slots \in [Slots -> [state : SlotStates, id_task : Ids, left : Nat,
                                n_decoded : 0 .. MaxTokens, n_sent : 0 .. MaxTokens]]
        /\ turn \in 0 .. NSlots /\ batched \in 0 .. NSlots
        /\ n_tokens <= NBatch \/ n_tokens <= NSlots
        /\ failures \in 0 .. MaxFailures /\ refusals \in 0 .. MaxRefusals
    BY <2>1 DEF LoopTypes
  <2>9. misfired \in BOOLEAN
    BY <2>1 DEF LoopTypes
  <2>10. /\ request \in Loads /\ stage \in [Clients -> Stages]
         /\ n_finished \in [Clients -> Nat] /\ closed \in [Clients -> BOOLEAN]
    BY <2>1 DEF ClientTypes
  <2> QED  BY <2>2, <2>3, <2>4, <2>5, <2>6, <2>7, <2>8, <2>9, <2>10 DEF TypeOK
<1> QED  BY <1>1, Invariant, PTL

\* A set all of whose elements are the same has none or one.
LEMMA AtMostOne ==
    ASSUME NEW S, \A x, y \in S : x = y
    PROVE  Cardinality(S) = IF S = {} THEN 0 ELSE 1
<1>1. CASE S = {}
  BY <1>1, FS_EmptySet
<1>2. CASE S # {}
  <2>1. PICK x : S = {x}
    BY <1>2
  <2> QED  BY <1>2, <2>1, FS_Singleton
<1> QED  BY <1>1, <1>2

\* A queue whose elements are apart has a task once or not at all.
LEMMA EnteredOnce ==
    ASSUME NEW q \in Seq(Entries), Apart(q), NEW t, t # NoTask
    PROVE  Entered(t, q) = IF t \in IdsOf(Elements(q)) THEN 1 ELSE 0
<1> DEFINE S == {i \in DOMAIN q : q[i].id = t}
<1>1. DOMAIN q = 1 .. Len(q)
  BY LenProperties
<1>2. \A i, j \in S : i = j
  BY <1>1 DEF Apart
<1>3. S = {} <=> t \notin IdsOf(Elements(q))
  BY <1>1 DEF IdsOf, Elements
<1>4. Entered(t, q) = Cardinality(S)
  BY DEF Entered
<1> HIDE DEF S
<1> QED  BY <1>2, <1>3, <1>4, AtMostOne

\* A task has one custodian if it is somebody's, and none otherwise.
LEMMA CustodianOfOwned ==
    ASSUME TasksInv, NEW t, t # NoTask
    PROVE  Custodians(t) = IF t \in Owned THEN 1 ELSE 0
<1> DEFINE A == IdsOf(Elements(queue_tasks))
           B == IdsOf(Elements(queue_tasks_deferred))
           C == IdsOf(Taken)
           S == {s \in Slots \ Idle : slots[s].id_task = t}
<1>1. Early = A \cup B \cup C /\ IdsOf(Queued) = A \cup B
  BY DEF Early, Queued, IdsOf
<1>2. A \cap B = {} /\ (A \cup B) \cap C = {}
  BY <1>1 DEF TasksInv, QueuesApart, SlotsApart
<1>3. Entered(t, queue_tasks) = IF t \in A THEN 1 ELSE 0
  BY EnteredOnce DEF TasksInv, QueuesGood, QueuesApart
<1>4. Entered(t, queue_tasks_deferred) = IF t \in B THEN 1 ELSE 0
  BY EnteredOnce DEF TasksInv, QueuesGood, QueuesApart
<1>5. main = "process" /\ hand.id = t <=> t \in C
  BY DEF Taken, IdsOf
<1>6. \A r, s \in S : r = s
  BY DEF TasksInv, SlotsApart
<1>7. S = {} <=> t \notin Busy
  BY DEF Busy
<1>8. t \in Busy => t \notin Early
  BY DEF Busy, TasksInv, SlotsApart
<1>9. Held(t) = Cardinality(S)
  BY DEF Held
<1>10. /\ t \in Owned <=> t \in A \/ t \in B \/ t \in C \/ t \in Busy
       /\ t \in A => t \notin B /\ t \notin C /\ t \notin Busy
       /\ t \in B => t \notin C /\ t \notin Busy
       /\ t \in C => t \notin Busy
  BY <1>1, <1>2, <1>8 DEF Owned
<1> HIDE DEF A, B, C, S
<1>11. Held(t) = IF t \in Busy THEN 1 ELSE 0
  BY <1>6, <1>7, <1>9, AtMostOne
<1>12. Custodians(t) = (IF t \in A THEN 1 ELSE 0) + (IF t \in B THEN 1 ELSE 0)
                         + (IF t \in Busy THEN 1 ELSE 0) + (IF t \in C THEN 1 ELSE 0)
  BY <1>3, <1>4, <1>5, <1>11 DEF Custodians
<1> QED  BY <1>10, <1>12

\* No task is lost or done twice between the two queues, the deferred tasks,
\* the slots and the results, and a client counts its finished tasks right.
THEOREM OneCustodianHolds == Spec => []OneCustodian
<1>1. ASSUME IInv PROVE OneCustodian
  <2>1. TasksInv /\ OwnedOpen /\ WaitedFor /\ request \in Loads
    BY <1>1 DEF IInv, ClientTypes, ResultsInv
  <2>2. ASSUME NEW c \in Clients, NEW t \in TaskIds(c)
        PROVE  /\ Custodians(t) <= 1
               /\ Waits(c) =>
                     /\ Custodians(t) = 1 <=> (LastResultOf(t) = {} /\ t \notin answered)
                     /\ n_finished[c] = Cardinality({u \in TaskIds(c) : u \in answered})
    <3>1. t # NoTask
      BY <2>1, TasksOfClients, TaskParts
    <3>2. Custodians(t) <= 1 /\ (Custodians(t) = 1 <=> t \in Owned)
      BY <2>1, <3>1, CustodianOfOwned
    <3>3. t \in Owned => LastResultOf(t) = {} /\ t \notin answered
      BY <2>1 DEF OwnedOpen
    <3>4. Waits(c) => /\ t \in Owned \/ LastResultOf(t) # {} \/ t \in answered
                      /\ n_finished[c] = Cardinality({u \in TaskIds(c) : u \in answered})
      BY <2>1 DEF WaitedFor
    <3> QED  BY <3>2, <3>3, <3>4
  <2> QED  BY <2>2 DEF OneCustodian
<1> QED  BY <1>1, Invariant, PTL

\* The client of a stream takes every token once and in order, and its end
\* last: results are appended while the main loop works and removed from the
\* front by the client, and no step of either skips or repeats one.
THEOREM StreamContinuousHolds == Spec => []StreamContinuous
<1>1. ASSUME IInv PROVE StreamContinuous
  <2>1. /\ PartialsFirst /\ LastOnce /\ StreamsRight /\ request \in Loads
        /\ queue_results \in Seq(Results)
    BY <1>1 DEF IInv, ClientTypes, ResultsInv, ResultTypes
  <2>2. ASSUME NEW c \in Clients, Waits(c), request[c].kind = "stream", NEW t \in TaskIds(c)
        PROVE  /\ \E m \in 0 .. MaxTokens : AllComing(t, m)
               /\ \A j, k \in PartialsOf(t) : j < k => queue_results[j].n < queue_results[k].n
               /\ PartialsOf(t) # {} => t \notin answered
               /\ \A k \in LastResultOf(t) :
                     /\ \A j \in PartialsOf(t) : j < k
                     /\ queue_results[k].kind = "final" => AllComing(t, queue_results[k].n)
                     /\ failures = 0 => LastResultOf(t) = {k}
               /\ \A s \in Slots \ Idle :
                     slots[s].id_task = t => AllComing(t, slots[s].n_sent)
    <3>1. t \in Tasks /\ Streaming(t)
      BY <2>1, <2>2, TasksOfClients DEF Streaming, RequestOf
    <3>2. (\E m \in 0 .. MaxTokens : AllComing(t, m)) /\ InOrder(t)
      BY <2>1, <3>1 DEF StreamsRight
    <3>3. PartialsOf(t) # {} => t \notin answered
      BY <2>1, <3>1 DEF PartialsFirst
    <3>4. ASSUME NEW k \in LastResultOf(t)
          PROVE  /\ \A j \in PartialsOf(t) : j < k
                 /\ queue_results[k].kind = "final" => AllComing(t, queue_results[k].n)
                 /\ failures = 0 => LastResultOf(t) = {k}
      <4>1. queue_results[k] \in Elements(queue_results) /\ queue_results[k].id = t
        BY <2>1, Places DEF LastResultOf
      <4>2. queue_results[k].kind = "final" => AllComing(t, queue_results[k].n)
        BY <2>1, <3>1, <4>1 DEF StreamsRight
      <4> QED  BY <2>1, <3>1, <4>2 DEF PartialsFirst, LastOnce
    <3>5. ASSUME NEW s \in Slots \ Idle, slots[s].id_task = t PROVE AllComing(t, slots[s].n_sent)
      <4>1. PICK p : p = <<slots[s].id_task, slots[s].n_sent>>
        OBVIOUS
      <4>2. p \in Progress /\ p[1] = t /\ p[2] = slots[s].n_sent
        BY <3>5, <4>1 DEF Progress
      <4> QED  BY <2>1, <3>1, <4>2 DEF StreamsRight
    <3> QED  BY <3>2, <3>3, <3>4, <3>5 DEF InOrder
  <2> QED  BY <2>2 DEF StreamContinuous
<1> QED  BY <1>1, Invariant, PTL

\* Without a failed decode no result stays in the queue for a request that has
\* ended, and no id in the waiting ones but those of a rerank.
THEOREM ResultsAwaitedHolds == Spec => []ResultsAwaited
<1>1. ASSUME IInv PROVE ResultsAwaited
  <2>1. /\ NoneStray /\ StagesKnow /\ ResultTypes /\ request \in Loads
        /\ DOMAIN queue_results = 1 .. Len(queue_results)
    BY <1>1, LenProperties DEF IInv, ClientTypes, ResultsInv, ResultTypes
  <2>2. failures = 0 => \A i \in DOMAIN queue_results :
           stage[queue_results[i].id[1]] \in {"open", "recv", "cancel", "drop", "dropped"}
    BY <2>1 DEF NoneStray, Elements
  <2>3. \A t \in waiting_task_ids :
           stage[t[1]] \in {"done", "dropped"} => RequestOf(t).kind = "rerank"
    BY <2>1 DEF StagesKnow, ResultTypes
  <2> QED  BY <2>2, <2>3 DEF ResultsAwaited
<1> QED  BY <1>1, Invariant, PTL

-----------------------------------------------------------------------------
(* When the main loop sleeps *)

\* A task that some slot could take, and one that comes from the deferred ones
\* and is not dealt with.
Able(e) == RequestOf(e.id).slot \in {AnySlot} \cup Slots
Returning == \E e \in Elements(queue_tasks) \cup Taken : e.again /\ e.type \in Kinds

\* NEXT_RESPONSE is in the queue while the slots are updated, and as long as
\* one of them works; and whenever a task is deferred a slot works, or one
\* that was deferred is on its way to a slot.
LoopAwake == /\ main \in {"prompts", "decode", "fail"} => queue_tasks # <<>>
             /\ main = "wait" => Idle = Slots \/ queue_tasks # <<>>
DeferredFollowed ==
    /\ \A e \in Elements(queue_tasks_deferred) : e.type \in Kinds
    /\ (\E e \in Elements(queue_tasks_deferred) : Able(e)) =>
          misfired \/ Idle # Slots \/ Returning
SleepInv == LoopAwake /\ DeferredFollowed

\* The elements a queue keeps.
LEMMA WithoutElements ==
    ASSUME NEW S, NEW q \in Seq(S), NEW gone
    PROVE  /\ Without(q, gone) \in Seq(S)
           /\ Elements(Without(q, gone)) = {e \in Elements(q) : e \notin gone}
<1> DEFINE I == {i \in 1 .. Len(q) : q[i] \notin gone}
<1>0. /\ Without(q, gone) \in Seq(S)
      /\ \E h : Thins(h, Without(q, gone), q, {i \in 1 .. Len(q) : q[i] \notin gone})
      /\ (\A i \in 1 .. Len(q) : q[i] \notin gone) => Without(q, gone) = q
  BY WithoutThins, Zenon
<1>1. PICK r : r = Without(q, gone) /\ r \in Seq(S) /\ \E h : Thins(h, r, q, I)
  BY <1>0
<1>2. PICK h : Thins(h, r, q, I)
  BY <1>1
<1>3. ASSUME NEW k \in 1 .. Len(r) PROVE r[k] \in Elements(q) /\ r[k] \notin gone
  BY <1>2 DEF Thins, Elements
<1>4. ASSUME NEW i \in 1 .. Len(q), q[i] \notin gone PROVE q[i] \in Elements(r)
  <2>1. PICK k \in 1 .. Len(r) : h[k] = i
    BY <1>2, <1>4 DEF Thins
  <2>2. r[k] = q[i]
    BY <1>2, <2>1 DEF Thins
  <2> QED  BY <2>2 DEF Elements
<1>5. \A e \in Elements(r) : e \in Elements(q) /\ e \notin gone
  BY <1>3 DEF Elements
<1>6. \A e \in Elements(q) : e \notin gone => e \in Elements(r)
  BY <1>4 DEF Elements
<1> QED  BY <1>1, <1>5, <1>6

\* A queue with an element is not empty.
LEMMA NotEmpty ==
    ASSUME NEW S, NEW q \in Seq(S)
    PROVE  q # <<>> <=> Elements(q) # {}
<1>1. q = <<>> => Elements(q) = {}
  BY NoElements
<1>2. ASSUME q # <<>> PROVE Elements(q) # {}
  <2>1. Elements(q) = Elements(Tail(q)) \cup {Head(q)}
    BY <1>2, Shortened
  <2> QED  BY <2>1
<1> QED  BY <1>1, <1>2

\* Posting takes only cancellations out of the queues.
LEMMA PostAdds ==
    ASSUME QueuesGood, NEW tasks \in Seq(Entries), NEW front \in BOOLEAN, Post(tasks, front)
    PROVE  /\ queue_tasks' \in Seq(Entries) /\ Elements(tasks) \subseteq Elements(queue_tasks')
           /\ \A e \in Elements(queue_tasks) : e.id_target = NoTask => e \in Elements(queue_tasks')
           /\ Elements(queue_tasks_deferred') \subseteq Elements(queue_tasks_deferred)
<1> DEFINE targets == {tasks[i].id_target : i \in DOMAIN tasks} \ {NoTask}
           kept == WithoutTargets(queue_tasks, targets)
<1>1. /\ queue_tasks' = IF front THEN Reverse(tasks) \o kept ELSE kept \o tasks
      /\ queue_tasks_deferred' = WithoutTargets(queue_tasks_deferred, targets)
  BY DEF Post
<1>2. NoTask \notin targets
  OBVIOUS
<1> HIDE DEF targets
<1>3. /\ kept \in Seq(Entries)
      /\ \A e \in Elements(queue_tasks) : e.id_target = NoTask => e \in Elements(kept)
  <2> DEFINE gone == {e \in ToSet(queue_tasks) : e.id_target \in targets}
  <2>1. kept \in Seq(Entries) /\ Elements(kept) = {e \in Elements(queue_tasks) : e \notin gone}
    BY WithoutElements DEF QueuesGood, WithoutTargets
  <2>2. \A e : e.id_target = NoTask => e \notin gone
    BY <1>2
  <2> HIDE DEF gone, kept
  <2> QED  BY <2>1, <2>2
<1> HIDE DEF kept
<1>4. Elements(queue_tasks_deferred') \subseteq Elements(queue_tasks_deferred)
  BY <1>1, WithoutElements DEF QueuesGood, WithoutTargets
<1>5. Reverse(tasks) \in Seq(Entries) /\ Elements(Reverse(tasks)) = Elements(tasks)
  BY Reversed
<1>6. /\ queue_tasks' \in Seq(Entries)
      /\ Elements(queue_tasks') = Elements(kept) \cup Elements(tasks)
  <2>1. CASE front
    BY <1>1, <1>3, <1>5, <2>1, Joined
  <2>2. CASE ~ front
    BY <1>1, <1>3, <2>2, Joined
  <2> QED  BY <2>1, <2>2
<1> QED  BY <1>3, <1>4, <1>6

\* What comes back stays on its way, or did not get a slot, and slots work on.
Follows ==
    /\ request' = request /\ (misfired => misfired')
    /\ Elements(queue_tasks_deferred') \subseteq Elements(queue_tasks_deferred)
    /\ Idle # Slots => Idle' # Slots
    /\ \A e \in Elements(queue_tasks) \cup Taken : e.again /\ e.type \in Kinds =>
          e \in Elements(queue_tasks') \cup Taken' \/ misfired'

\* Then the deferred tasks are followed as before.
LEMMA StillFollowed ==
    ASSUME DeferredFollowed, Follows
    PROVE  DeferredFollowed'
<1> DEFINE d == Elements(queue_tasks_deferred)
           dd == Elements(queue_tasks_deferred')
           on == Elements(queue_tasks) \cup Taken
           onn == Elements(queue_tasks') \cup Taken'
<1>1. /\ \A e \in d : e.type \in Kinds
      /\ (\E e \in d : Able(e)) => misfired \/ Idle # Slots \/ \E e \in on : e.again /\ e.type \in Kinds
  BY DEF DeferredFollowed, Returning
<1>2. \A e : Able(e)' <=> Able(e)
  BY DEF Follows, Able, RequestOf
<1>3. /\ misfired => misfired'
      /\ dd \subseteq d /\ (Idle # Slots => Idle' # Slots)
      /\ \A e \in on : e.again /\ e.type \in Kinds => e \in onn \/ misfired'
  BY DEF Follows
<1> HIDE DEF d, dd, on, onn
<1>4. \A e \in dd : e.type \in Kinds
  BY <1>1, <1>3
<1>5. (\E e \in dd : Able(e)') => misfired' \/ Idle' # Slots \/ \E e \in onn : e.again /\ e.type \in Kinds
  BY <1>1, <1>2, <1>3
<1> QED  BY <1>4, <1>5 DEF DeferredFollowed, Returning, dd, onn

\* A deferred task that is moved is on its way.
LEMMA PopFollowed ==
    ASSUME QueuesGood, DeferredFollowed, PopDeferred
    PROVE  DeferredFollowed' /\ Elements(queue_tasks) \subseteq Elements(queue_tasks')
           /\ queue_tasks' \in Seq(Entries)
<1>1. queue_tasks \in Seq(Entries) /\ queue_tasks_deferred \in Seq(Entries)
  BY DEF QueuesGood
<1>2. CASE queue_tasks_deferred = <<>>
  <2>1. queue_tasks' = queue_tasks /\ queue_tasks_deferred' = <<>>
    BY <1>2 DEF PopDeferred, tasks_vars
  <2>2. Elements(queue_tasks_deferred') = {}
    BY <2>1, NoElements
  <2> QED  BY <1>1, <2>1, <2>2 DEF DeferredFollowed
<1>3. CASE queue_tasks_deferred # <<>>
  <2> DEFINE q == queue_tasks
             d == queue_tasks_deferred
             e == Head(d)
             f == [e EXCEPT !.again = TRUE]
  <2>1. queue_tasks' = Append(q, f) /\ queue_tasks_deferred' = Tail(d)
    BY <1>3 DEF PopDeferred
  <2>2. e \in Entries /\ Elements(d) = Elements(Tail(d)) \cup {e}
    BY <1>1, <1>3, Shortened
  <2>3. \A x \in Elements(d) : x.type \in Kinds
    BY DEF DeferredFollowed
  <2>4. f \in Entries /\ f.again = TRUE /\ f.type = e.type
    BY <2>2 DEF Entries
  <2> HIDE DEF e, f, q
  <2>5. Append(q, f) \in Seq(Entries) /\ Elements(Append(q, f)) = Elements(q) \cup {f}
    BY <1>1, <2>4, Appended DEF q
  <2>6. f \in Elements(queue_tasks') /\ f.type \in Kinds
    BY <2>1, <2>2, <2>3, <2>4, <2>5
  <2>7. Returning'
    BY <2>4, <2>6 DEF Returning
  <2>8. \A x \in Elements(queue_tasks_deferred') : x.type \in Kinds
    BY <2>1, <2>2, <2>3
  <2> QED  BY <2>1, <2>5, <2>7, <2>8 DEF DeferredFollowed, q
<1> QED  BY <1>2, <1>3

\* Facts of the invariant that the steps need.
LEMMA SleepFacts ==
    ASSUME IInv
    PROVE  /\ QueuesGood /\ queue_tasks \in Seq(Entries) /\ misfired \in BOOLEAN
           /\ request \in Loads /\ Slots # {} /\ Idle \subseteq Slots
           /\ queue_tasks # <<>> <=> Elements(queue_tasks) # {}
           /\ main # "process" => Taken = {}
<1>1. QueuesGood /\ queue_tasks \in Seq(Entries) /\ misfired \in BOOLEAN /\ request \in Loads
  BY DEF IInv, TasksInv, QueuesGood, LoopInv, LoopTypes, ClientTypes
<1>2. Slots # {} /\ Idle \subseteq Slots
  <2>1. NSlots \in Nat \ {0}
    BY ServerAssumption
  <2> QED  BY <2>1 DEF Slots, Idle
<1>3. queue_tasks # <<>> <=> Elements(queue_tasks) # {}
  BY <1>1, NotEmpty
<1> QED  BY <1>1, <1>2, <1>3 DEF Taken

\* A step of the loop over the slots that posts nothing.
LEMMA RoundGoesOn ==
    ASSUME IInv, SleepInv, main \in {"prompts", "decode", "fail"},
           main' # "process", request' = request, misfired' = misfired,
           \/ UNCHANGED tasks_vars /\ Idle' = Idle
           \/ PopDeferred
    PROVE  SleepInv'
<1>1. /\ QueuesGood /\ queue_tasks \in Seq(Entries) /\ Taken = {}
      /\ queue_tasks # <<>> /\ Elements(queue_tasks) # {}
  BY SleepFacts DEF SleepInv, LoopAwake
<1>2. /\ DeferredFollowed' /\ queue_tasks' \in Seq(Entries)
      /\ Elements(queue_tasks) \subseteq Elements(queue_tasks')
  <2>1. CASE UNCHANGED tasks_vars /\ Idle' = Idle
    <3>1. queue_tasks' = queue_tasks /\ queue_tasks_deferred' = queue_tasks_deferred
      BY <2>1 DEF tasks_vars
    <3>2. Follows
      BY <1>1, <2>1, <3>1 DEF Follows
    <3> QED  BY <1>1, <3>1, <3>2, StillFollowed DEF SleepInv
  <2>2. CASE PopDeferred
    BY <1>1, <2>2, PopFollowed DEF SleepInv
  <2> QED  BY <2>1, <2>2
<1>3. queue_tasks' # <<>>
  BY <1>1, <1>2, NotEmpty
<1> QED  BY <1>2, <1>3 DEF SleepInv, LoopAwake

\* The first task of the queue is on its way in hand.
LEMMA TakeTaskAwake ==
    ASSUME IInv, SleepInv, TakeTask
    PROVE  SleepInv'
<1>1. /\ main = "tasks" /\ queue_tasks # <<>> /\ main' = "process" /\ hand' = Head(queue_tasks)
      /\ queue_tasks' = Tail(queue_tasks) /\ queue_tasks_deferred' = queue_tasks_deferred
      /\ UNCHANGED <<slots, request, misfired>>
  BY DEF TakeTask, client_vars, history
<1>2. Taken = {} /\ Taken' = {Head(queue_tasks)}
  BY <1>1 DEF Taken
<1>3. queue_tasks \in Seq(Entries)
  BY SleepFacts
<1>4. Elements(queue_tasks) = Elements(Tail(queue_tasks)) \cup {Head(queue_tasks)}
  BY <1>1, <1>3, Shortened
<1>5. Idle' = Idle
  BY <1>1 DEF Idle, Processing
<1>6. Elements(queue_tasks) \cup Taken \subseteq Elements(queue_tasks') \cup Taken'
  BY <1>1, <1>2, <1>4
<1>7. Follows
  BY <1>1, <1>5, <1>6 DEF Follows
<1> QED  BY <1>1, <1>7, StillFollowed DEF SleepInv, LoopAwake

\* The task in hand is deferred: a slot works, or it will never have one, or it
\* was deferred before and goes to the end.
LEMMA DeferTaskAwake ==
    ASSUME IInv, SleepInv, DeferTask
    PROVE  SleepInv'
<1> DEFINE d == queue_tasks_deferred
           task == [hand EXCEPT !.again = FALSE]
<1>1. /\ main = "process" /\ queue_tasks' = queue_tasks /\ queue_tasks_deferred' = Append(d, task)
      /\ Processed /\ hand.type \in Kinds /\ SlotsFor(hand.id) = {}
      /\ UNCHANGED slots
      /\ misfired' = (misfired \/ (hand.again /\ RequestOf(hand.id).slot # AnySlot))
  BY DEF DeferTask, Defer
<1>2. main' = "tasks" /\ request' = request /\ Taken' = {}
  BY <1>1, HandEmpty DEF Frame
<1>3. Taken = {hand} /\ hand \in Entries
  BY <1>1, HandFacts
<1>4. d \in Seq(Entries) /\ misfired \in BOOLEAN /\ Slots # {} /\ hand.again \in BOOLEAN
  BY <1>3, SleepFacts DEF QueuesGood, Entries
<1>5. task \in Entries /\ task.id = hand.id /\ task.type = hand.type
  BY <1>3 DEF Entries
<1> HIDE DEF task, d
<1>6. Elements(Append(d, task)) = Elements(d) \cup {task}
  BY <1>4, <1>5, Appended
<1>7. \A e \in Elements(queue_tasks_deferred') : e.type \in Kinds
  BY <1>1, <1>5, <1>6 DEF SleepInv, DeferredFollowed, d
<1>8. Idle' = Idle
  BY <1>1 DEF Idle, Processing
<1>9. misfired \/ (hand.again /\ RequestOf(hand.id).slot # AnySlot) => misfired'
  BY <1>1, <1>4
<1>10. RequestOf(hand.id).slot \in {AnySlot} \cup Slots => Idle # Slots
  BY <1>1, <1>4 DEF SlotsFor
<1>11. \A e : Able(e)' <=> Able(e)
  BY <1>2 DEF Able, RequestOf
<1>12. ASSUME NEW e \in Elements(queue_tasks_deferred'), Able(e)
       PROVE  misfired' \/ Idle # Slots \/ Returning'
  <2>1. CASE e = task
    BY <1>5, <1>10, <1>12, <2>1 DEF Able
  <2>2. CASE e \in Elements(d)
    <3>1. misfired \/ Idle # Slots \/ Returning
      BY <1>12, <2>2 DEF SleepInv, DeferredFollowed, d
    <3>2. ASSUME Returning PROVE misfired' \/ Idle # Slots \/ Returning'
      <4>1. PICK x \in Elements(queue_tasks) \cup {hand} : x.again /\ x.type \in Kinds
        BY <1>3, <3>2 DEF Returning
      <4>2. CASE x \in Elements(queue_tasks)
        BY <1>1, <4>1, <4>2 DEF Returning
      <4>3. CASE x = hand
        BY <1>9, <1>10, <4>1, <4>3
      <4> QED  BY <4>1, <4>2, <4>3
    <3> QED  BY <1>9, <3>1, <3>2
  <2> QED  BY <1>1, <1>6, <1>12, <2>1, <2>2
<1>13. DeferredFollowed'
  BY <1>7, <1>8, <1>11, <1>12 DEF DeferredFollowed
<1> QED  BY <1>2, <1>13 DEF SleepInv, LoopAwake

\* The task in hand was not deferred before, or is found to have got no slot.
LEMMA HandledAwake ==
    ASSUME IInv, SleepInv, main = "process", Processed, UNCHANGED tasks_vars, Idle' = Idle,
           misfired' = misfired \/ misfired' = TRUE,
           hand.again /\ hand.type \in Kinds => misfired'
    PROVE  SleepInv'
<1>1. main' = "tasks" /\ request' = request /\ Taken' = {}
  BY HandEmpty DEF Frame
<1>2. queue_tasks' = queue_tasks /\ queue_tasks_deferred' = queue_tasks_deferred
  BY DEF tasks_vars
<1>3. Taken = {hand}
  BY HandFacts
<1>4. \A e \in Elements(queue_tasks) \cup Taken : e.again /\ e.type \in Kinds =>
         e \in Elements(queue_tasks') \cup Taken' \/ misfired'
  BY <1>2, <1>3
<1>5. misfired => misfired'
  OBVIOUS
<1>6. Follows
  BY <1>1, <1>2, <1>4, <1>5 DEF Follows
<1> QED  BY <1>1, <1>6, StillFollowed DEF SleepInv, LoopAwake

\* The task in hand got a slot, which works now, or was refused.
LEMMA LaunchSlotAwake ==
    ASSUME IInv, SleepInv, LaunchSlot
    PROVE  SleepInv'
<1>1. main = "process" /\ Processed /\ UNCHANGED tasks_vars
  BY DEF LaunchSlot
<1>2. main' = "tasks" /\ request' = request
  BY <1>1, HandEmpty DEF Frame
<1>3. slots \in [Slots -> SlotRecords] /\ Idle \subseteq Slots
  BY SleepFacts DEF IInv, LoopInv, LoopTypes, SlotRecords
<1>4. SlotsFor(hand.id) \subseteq Idle
  BY DEF SlotsFor
<1>5. PICK s \in SlotsFor(hand.id) :
         \/ slots' = [slots EXCEPT ![s] = [FreeSlot EXCEPT !.state = "started", !.id_task = hand.id]]
         \/ /\ slots' = [slots EXCEPT ![s] = [FreeSlot EXCEPT !.id_task = hand.id]]
            /\ misfired' = (misfired \/ hand.again)
  BY DEF LaunchSlot
<1>6. s \in Slots /\ s \in Idle
  BY <1>3, <1>4
<1>7. CASE slots' = [slots EXCEPT ![s] = [FreeSlot EXCEPT !.state = "started", !.id_task = hand.id]]
  <2>1. slots'[s] = [FreeSlot EXCEPT !.state = "started", !.id_task = hand.id]
    BY <1>3, <1>6, <1>7
  <2>2. slots'[s].state = "started"
    BY <2>1 DEF FreeSlot
  <2>3. Idle' # Slots
    BY <1>6, <2>2 DEF Idle, Processing
  <2>4. queue_tasks_deferred' = queue_tasks_deferred
    BY <1>1 DEF tasks_vars
  <2>5. DeferredFollowed'
    BY <2>3, <2>4 DEF SleepInv, DeferredFollowed
  <2> QED  BY <1>2, <2>5 DEF SleepInv, LoopAwake
<1>8. CASE /\ slots' = [slots EXCEPT ![s] = [FreeSlot EXCEPT !.id_task = hand.id]]
           /\ misfired' = (misfired \/ hand.again)
  <2>1. slots'[s] = [FreeSlot EXCEPT !.id_task = hand.id] /\ \A r \in Slots \ {s} : slots'[r] = slots[r]
    BY <1>3, <1>6, <1>8
  <2>2. slots'[s].state = "idle"
    BY <2>1 DEF FreeSlot
  <2>3. Idle' = Idle
    BY <1>6, <2>1, <2>2 DEF Idle, Processing
  <2>4. hand.again \in BOOLEAN /\ misfired \in BOOLEAN
    BY <1>1, HandFacts, SleepFacts DEF Entries
  <2>5. (misfired' = misfired \/ misfired' = TRUE) /\ (hand.again => misfired')
    BY <1>8, <2>4
  <2> QED  BY <1>1, <2>3, <2>5, HandledAwake
<1> QED  BY <1>5, <1>7, <1>8

\* The task in hand needs no slot of its own.
LEMMA AnswerTaskAwake ==
    ASSUME IInv, SleepInv, AnswerTask
    PROVE  SleepInv'
<1>1. /\ main = "process" /\ Processed /\ UNCHANGED tasks_vars /\ UNCHANGED slots
      /\ misfired' = (misfired \/ hand.again)
  BY DEF AnswerTask
<1>2. Idle' = Idle
  BY <1>1 DEF Idle, Processing
<1>3. hand.again \in BOOLEAN /\ misfired \in BOOLEAN
  BY <1>1, HandFacts, SleepFacts DEF Entries
<1>4. (misfired' = misfired \/ misfired' = TRUE) /\ (hand.again => misfired')
  BY <1>1, <1>3
<1> QED  BY <1>1, <1>2, <1>4, HandledAwake

\* A cancellation moves a deferred task if it releases a slot.
LEMMA CancelSlotAwake ==
    ASSUME IInv, SleepInv, CancelSlot
    PROVE  SleepInv'
<1> DEFINE working == {s \in Slots \ Idle : slots[s].id_task = hand.id_target}
<1>1. /\ main = "process" /\ hand.type = "cancel" /\ Processed /\ misfired' = misfired
      /\ \/ UNCHANGED <<slots, tasks_vars>>
         \/ \E s \in working : Release(s)
  BY DEF CancelSlot
<1>2. hand.type \notin Kinds
  BY <1>1 DEF Kinds
<1>3. CASE UNCHANGED <<slots, tasks_vars>>
  <2>1. Idle' = Idle
    BY <1>3 DEF Idle, Processing
  <2> QED  BY <1>1, <1>2, <1>3, <2>1, HandledAwake
<1>4. CASE \E s \in working : Release(s)
  <2>1. PopDeferred
    BY <1>4 DEF Release
  <2>2. main' = "tasks"
    BY <1>1, HandEmpty
  <2>3. DeferredFollowed'
    BY <2>1, SleepFacts, PopFollowed DEF SleepInv
  <2> QED  BY <2>2, <2>3 DEF SleepInv, LoopAwake
<1> QED  BY <1>1, <1>3, <1>4

\* The loop waits if no slot works; otherwise NEXT_RESPONSE comes into the
\* queue.
LEMMA UpdateSlotsAwake ==
    ASSUME IInv, SleepInv, UpdateSlots
    PROVE  SleepInv'
<1>1. /\ main = "tasks" /\ UNCHANGED <<slots, hand, request, misfired>>
      /\ \/ Idle = Slots /\ main' = "wait" /\ UNCHANGED tasks_vars
         \/ PostNextResponse /\ main' \in {"prompts", "decode"}
  BY DEF UpdateSlots, client_vars, history
<1>2. Idle' = Idle
  BY <1>1 DEF Idle, Processing
<1>3. QueuesGood /\ queue_tasks \in Seq(Entries) /\ Taken = {}
  BY <1>1, SleepFacts
<1>4. CASE Idle = Slots /\ main' = "wait" /\ UNCHANGED tasks_vars
  <2>1. queue_tasks' = queue_tasks /\ queue_tasks_deferred' = queue_tasks_deferred
    BY <1>4 DEF tasks_vars
  <2>2. Follows
    BY <1>1, <1>2, <1>3, <2>1 DEF Follows
  <2> QED  BY <1>2, <1>4, <2>2, StillFollowed DEF SleepInv, LoopAwake
<1>5. CASE PostNextResponse /\ main' \in {"prompts", "decode"}
  <2> DEFINE e == Entry("next", NoTask, NoTask)
             tasks == <<e>>
  <2>1. e \in Entries
    BY DEF Entry, Entries, Ids
  <2>2. tasks \in Seq(Entries) /\ e \in Elements(tasks)
    <3>1. Len(tasks) = 1 /\ tasks[1] = e /\ 1 \in 1 .. 1
      OBVIOUS
    <3> HIDE DEF e
    <3>2. tasks \in Seq(Entries)
      BY <2>1
    <3> HIDE DEF tasks
    <3> QED  BY <3>1, <3>2 DEF Elements
  <2>3. Post(tasks, FALSE)
    BY <1>5 DEF PostNextResponse
  <2> HIDE DEF e, tasks
  <2>4. /\ queue_tasks' \in Seq(Entries) /\ Elements(tasks) \subseteq Elements(queue_tasks')
        /\ \A x \in Elements(queue_tasks) : x.id_target = NoTask => x \in Elements(queue_tasks')
        /\ Elements(queue_tasks_deferred') \subseteq Elements(queue_tasks_deferred)
    BY <1>3, <2>2, <2>3, PostAdds
  <2>5. \A x \in Elements(queue_tasks) : x.type \in Kinds => x.id_target = NoTask
    BY <1>3 DEF QueuesGood, Queued, GoodEntry, Kinds
  <2>6. Follows
    BY <1>1, <1>2, <1>3, <2>4, <2>5 DEF Follows
  <2>7. queue_tasks' # <<>>
    BY <2>2, <2>4, NotEmpty
  <2> QED  BY <1>5, <2>6, <2>7, StillFollowed DEF SleepInv, LoopAwake
<1> QED  BY <1>1, <1>4, <1>5

\* A step of the main loop.
LEMMA MainStepAwake ==
    ASSUME IInv, SleepInv, MainStep
    PROVE  SleepInv'
<1>1. CASE TakeTask
  BY <1>1, TakeTaskAwake
<1>2. CASE ProcessTask
  <2>1. ASSUME NextResponse PROVE SleepInv'
    <3>1. /\ main = "process" /\ Processed /\ UNCHANGED tasks_vars /\ misfired' = misfired
          /\ slots' = slots /\ hand.type \notin Kinds
      BY <2>1 DEF NextResponse, Kinds
    <3>2. Idle' = Idle
      BY <3>1 DEF Idle, Processing
    <3> QED  BY <3>1, <3>2, HandledAwake
  <2> QED  BY <1>2, <2>1, DeferTaskAwake, LaunchSlotAwake, AnswerTaskAwake, CancelSlotAwake DEF ProcessTask
<1>3. CASE Wake
  <2>1. /\ main = "wait" /\ main' = "tasks" /\ UNCHANGED <<slots, hand, request, misfired>>
        /\ queue_tasks' = queue_tasks /\ queue_tasks_deferred' = queue_tasks_deferred
    BY <1>3 DEF Wake, tasks_vars, client_vars, history
  <2>2. Idle' = Idle /\ Taken = {}
    BY <2>1 DEF Idle, Processing, Taken
  <2>3. Follows
    BY <2>1, <2>2 DEF Follows
  <2> QED  BY <2>1, <2>3, StillFollowed DEF SleepInv, LoopAwake
<1>4. CASE UpdateSlots
  BY <1>4, UpdateSlotsAwake
<1>5. CASE SkipPrompt \/ RefusePrompt \/ BatchPrompt
  <2>1. main = "prompts" /\ request' = request /\ misfired' = misfired
    BY <1>5 DEF SkipPrompt, RefusePrompt, BatchPrompt, PromptStep, client_vars
  <2>2. main' # "process"
    BY <1>5 DEF SkipPrompt, RefusePrompt, BatchPrompt, Onwards
  <2>3. (UNCHANGED tasks_vars /\ Idle' = Idle) \/ PopDeferred
    <3>1. ASSUME SkipPrompt PROVE UNCHANGED tasks_vars /\ Idle' = Idle
      BY <3>1 DEF SkipPrompt, Idle, Processing
    <3>2. ASSUME RefusePrompt PROVE PopDeferred
      BY <3>2 DEF RefusePrompt, Release
    <3>3. ASSUME BatchPrompt PROVE UNCHANGED tasks_vars /\ Idle' = Idle
      BY <3>3, BatchPromptOK DEF BatchPrompt
    <3> QED  BY <1>5, <3>1, <3>2, <3>3
  <2> QED  BY <2>1, <2>2, <2>3, RoundGoesOn
<1>6. CASE \E s \in batch : DecodePrompt(s) \/ DecodeToken(s) \/ StopSlot(s)
  <2>1. PICK s \in batch : DecodePrompt(s) \/ DecodeToken(s) \/ StopSlot(s)
    BY <1>6
  <2>2. main = "decode" /\ request' = request /\ misfired' = misfired
    BY <2>1 DEF DecodePrompt, DecodeToken, StopSlot, DecodeStep, client_vars, history
  <2>3. main' # "process"
    <3>1. Decoded(s) => main' # "process"
      BY DEF Decoded
    <3>2. DecodePrompt(s) \/ StopSlot(s) => Decoded(s)
      BY DEF DecodePrompt, StopSlot
    <3>3. DecodeToken(s) => main' = main \/ Decoded(s)
      BY DEF DecodeToken
    <3> QED  BY <2>1, <2>2, <3>1, <3>2, <3>3
  <2>4. (UNCHANGED tasks_vars /\ Idle' = Idle) \/ PopDeferred
    <3>1. ASSUME DecodePrompt(s) PROVE (UNCHANGED tasks_vars /\ Idle' = Idle) \/ PopDeferred
      BY <3>1 DEF DecodePrompt, Release, Idle, Processing
    <3>2. ASSUME DecodeToken(s) PROVE UNCHANGED tasks_vars /\ Idle' = Idle
      BY <3>2, DecodeTokenOK DEF DecodeToken
    <3>3. ASSUME StopSlot(s) PROVE PopDeferred
      BY <3>3 DEF StopSlot, Release
    <3> QED  BY <2>1, <3>1, <3>2, <3>3
  <2> QED  BY <2>2, <2>3, <2>4, RoundGoesOn
<1>7. CASE DecodeFails \/ FailSlot
  <2>1. /\ main \in {"decode", "fail"} /\ main' # "process"
        /\ request' = request /\ misfired' = misfired
    BY <1>7 DEF DecodeFails, FailSlot, client_vars, history
  <2>2. (UNCHANGED tasks_vars /\ Idle' = Idle) \/ PopDeferred
    BY <1>7 DEF DecodeFails, FailSlot, Release, Idle, Processing
  <2> QED  BY <2>1, <2>2, RoundGoesOn
<1> QED  BY <1>1, <1>2, <1>3, <1>4, <1>5, <1>6, <1>7 DEF MainStep

\* A client posts its tasks or their cancellations, which wakes the loop.
LEMMA PostAwake ==
    ASSUME IInv, SleepInv, NEW tasks \in Seq(Entries), Elements(tasks) # {},
           NEW front \in BOOLEAN, Post(tasks, front),
           UNCHANGED main_vars, request' = request, misfired' = misfired
    PROVE  SleepInv'
<1>1. QueuesGood /\ queue_tasks \in Seq(Entries)
  BY SleepFacts
<1>2. /\ queue_tasks' \in Seq(Entries) /\ Elements(tasks) \subseteq Elements(queue_tasks')
      /\ \A x \in Elements(queue_tasks) : x.id_target = NoTask => x \in Elements(queue_tasks')
      /\ Elements(queue_tasks_deferred') \subseteq Elements(queue_tasks_deferred)
  BY <1>1, PostAdds
<1>3. \A x \in Elements(queue_tasks) : x.type \in Kinds => x.id_target = NoTask
  BY <1>1 DEF QueuesGood, Queued, GoodEntry, Kinds
<1>4. Idle' = Idle /\ Taken' = Taken /\ main' = main
  BY DEF main_vars, Idle, Processing, Taken
<1>5. Follows
  BY <1>2, <1>3, <1>4 DEF Follows
<1>6. queue_tasks' # <<>>
  BY <1>2, NotEmpty
<1> QED  BY <1>4, <1>5, <1>6, StillFollowed DEF SleepInv, LoopAwake

\* A step that leaves the loop and the tasks alone.
LEMMA ElsewhereAwake ==
    ASSUME SleepInv, UNCHANGED tasks_vars, UNCHANGED main_vars, request' = request,
           misfired' = misfired
    PROVE  SleepInv'
<1>1. Idle' = Idle /\ Taken' = Taken /\ main' = main
  BY DEF main_vars, Idle, Processing, Taken
<1>2. queue_tasks' = queue_tasks /\ queue_tasks_deferred' = queue_tasks_deferred
  BY DEF tasks_vars
<1>3. Follows
  BY <1>1, <1>2 DEF Follows
<1> QED  BY <1>1, <1>2, <1>3, StillFollowed DEF SleepInv, LoopAwake

\* A step of a client.
LEMMA ClientStepAwake ==
    ASSUME IInv, SleepInv, NEW c \in Clients, Announce(c) \/ CloseConnection(c) \/ ClientStep(c)
    PROVE  SleepInv'
<1>1. request \in Loads /\ request[c].n \in Nat \ {0}
  BY SleepFacts, ServerAssumption
<1>2. UNCHANGED main_vars /\ request' = request /\ misfired' = misfired
  BY DEF Announce, CloseConnection, ClientStep, PostRequest, OpenStream, TakeResult, Timeout,
         CancelTasks, PostCancel, Finish, history
<1>3. \A q \in Seq(Entries) : DOMAIN q = 1 .. request[c].n => Elements(q) # {}
  <2>1. ASSUME NEW q \in Seq(Entries), DOMAIN q = 1 .. request[c].n PROVE q[1] \in Elements(q)
    <3>1. DOMAIN q = 1 .. Len(q) /\ 1 \in DOMAIN q
      BY <1>1, <2>1, LenProperties
    <3> QED  BY <3>1 DEF Elements
  <2> QED  BY <2>1
<1>4. CASE PostRequest(c)
  <2> DEFINE q == [i \in 1 .. request[c].n |-> Entry(request[c].kind, <<c, i>>, NoTask)]
             front == request[c].kind = "metrics"
  <2>1. Post(q, front)
    BY <1>4 DEF PostRequest
  <2>2. q \in Seq(Entries)
    BY <1>1, RequestEntries
  <2>3. DOMAIN q = 1 .. request[c].n /\ front \in BOOLEAN
    OBVIOUS
  <2> HIDE DEF q, front
  <2> QED  BY <1>2, <1>3, <2>1, <2>2, <2>3, PostAwake
<1>5. CASE PostCancel(c)
  <2> DEFINE q == [i \in 1 .. request[c].n |-> Entry("cancel", NoTask, <<c, i>>)]
  <2>1. Post(q, TRUE)
    BY <1>5 DEF PostCancel
  <2>2. q \in Seq(Entries)
    BY <1>1, CancelEntries
  <2>3. DOMAIN q = 1 .. request[c].n
    OBVIOUS
  <2> HIDE DEF q
  <2> QED  BY <1>2, <1>3, <2>1, <2>2, <2>3, PostAwake
<1>6. CASE ~ PostRequest(c) /\ ~ PostCancel(c)
  <2>1. UNCHANGED tasks_vars
    BY <1>6 DEF Announce, CloseConnection, ClientStep, OpenStream, TakeResult, Timeout,
                CancelTasks, Finish
  <2> QED  BY <1>2, <2>1, ElsewhereAwake
<1> QED  BY <1>4, <1>5, <1>6

\* The loop does not fall asleep over work: NEXT_RESPONSE is in the queue while
\* a slot works, and a task is deferred only while a slot works or a deferred
\* task is on its way to one.
THEOREM Awake == Spec => []SleepInv
<1>1. Init => SleepInv
  <2>1. SUFFICES ASSUME Init PROVE SleepInv
    OBVIOUS
  <2>2. main = "tasks" /\ queue_tasks_deferred = <<>>
    BY <2>1 DEF Init, QueueInit
  <2>3. Elements(queue_tasks_deferred) = {}
    BY <2>2, NoElements
  <2> QED  BY <2>2, <2>3 DEF SleepInv, LoopAwake, DeferredFollowed
<1>2. ASSUME IInv, SleepInv, [Next]_vars PROVE SleepInv'
  <2>1. CASE UNCHANGED vars
    BY <1>2, <2>1, ElsewhereAwake DEF vars, client_vars, history
  <2> QED  BY <1>2, <2>1, MainStepAwake, ClientStepAwake DEF Next
<1> QED  BY <1>1, <1>2, Invariant, PTL DEF Spec

\* When the loop waits for a task no slot works and no deferred task could have
\* a slot, unless a deferred task that was moved took none.
THEOREM SleepsIdleHolds == Spec => []SleepsIdle
<1>1. ASSUME IInv, SleepInv PROVE SleepsIdle
  <2>1. SUFFICES ASSUME main = "wait", queue_tasks = <<>>
                 PROVE  /\ Idle = Slots
                        /\ ~ misfired => \A i \in DOMAIN queue_tasks_deferred :
                              RequestOf(queue_tasks_deferred[i].id).slot \notin {AnySlot} \cup Slots
    BY DEF SleepsIdle
  <2>2. Idle = Slots
    BY <1>1, <2>1 DEF SleepInv, LoopAwake
  <2>3. ~ Returning
    <3>1. Elements(queue_tasks) = {} /\ Taken = {}
      BY <2>1, NoElements DEF Taken
    <3> QED  BY <3>1 DEF Returning
  <2>4. ~ misfired => \A e \in Elements(queue_tasks_deferred) : ~ Able(e)
    BY <1>1, <2>2, <2>3 DEF SleepInv, DeferredFollowed
  <2>5. DOMAIN queue_tasks_deferred = 1 .. Len(queue_tasks_deferred)
    BY <1>1, SleepFacts, LenProperties DEF QueuesGood
  <2>6. \A i \in DOMAIN queue_tasks_deferred : queue_tasks_deferred[i] \in Elements(queue_tasks_deferred)
    BY <2>5 DEF Elements
  <2> QED  BY <2>2, <2>4, <2>6 DEF Able
<1> QED  BY <1>1, Invariant, Awake, PTL

-----------------------------------------------------------------------------
(* The batch *)

\* The slots of the batch and those that generate; one that is computed while
\* the loop over the prompts runs may only join if it agrees with slot_batched.
Computed == batch \cup Generating
BatchInv == /\ BatchAgrees
            /\ main = "prompts" =>
                  /\ batched = 0 => Computed = {}
                  /\ batched # 0 => \A s \in Computed : CanBatchWith(batched, s)

\* To agree is a matter of the tasks the slots have the ids of.
LEMMA AgreesLike ==
    ASSUME NEW r, NEW s, request' = request,
           slots'[r].id_task = slots[r].id_task, slots'[s].id_task = slots[s].id_task
    PROVE  CanBatchWith(r, s)' <=> CanBatchWith(r, s)
BY DEF CanBatchWith, TypeOf, LoraOf, RequestOf

\* It is an equivalence.
LEMMA AgreesTogether ==
    ASSUME NEW q, NEW r, NEW s, CanBatchWith(q, r), CanBatchWith(q, s)
    PROVE  CanBatchWith(r, s) /\ CanBatchWith(q, q)
BY DEF CanBatchWith

\* Outside the loop over the prompts no slot joins.
LEMMA NoneJoins ==
    ASSUME BatchInv, request' = request, main' # "prompts", Computed' \subseteq Computed,
           \A s \in Computed : slots'[s].id_task = slots[s].id_task
    PROVE  BatchInv'
<1>1. ASSUME NEW r \in Computed', NEW s \in Computed' PROVE CanBatchWith(r, s)'
  <2>1. r \in Computed /\ s \in Computed
    BY <1>1
  <2>2. CanBatchWith(r, s)
    BY <2>1 DEF BatchInv, BatchAgrees, Computed
  <2> QED  BY <2>1, <2>2, AgreesLike
<1> QED  BY <1>1 DEF BatchInv, BatchAgrees, Computed

\* In that loop the slot whose turn it is may join.
LEMMA TurnJoins ==
    ASSUME BatchInv, main = "prompts", request' = request, turn \in Slots,
           \A s \in Slots : slots'[s].id_task = slots[s].id_task,
           Computed \subseteq Slots, batched \in 0 .. NSlots,
           Computed' \subseteq Computed \cup {s \in {turn} : Processing(s) /\ ~ Mismatch(s)},
           main' = "prompts" => batched' = IF batched = 0 /\ Processing(turn) THEN turn ELSE batched
    PROVE  BatchInv'
<1>0. PICK first : first = IF batched = 0 /\ Processing(turn) THEN turn ELSE batched
  OBVIOUS
<1>1. turn # 0 /\ (batched # 0 => batched \in Slots)
  BY DEF Slots
<1>2. ASSUME NEW s \in Computed' PROVE first \in Slots /\ s \in Slots /\ CanBatchWith(first, s)
  <2>1. CASE batched = 0
    <3>1. Computed = {}
      BY <2>1 DEF BatchInv
    <3>2. s = turn /\ Processing(turn)
      BY <1>2, <3>1
    <3> QED  BY <1>0, <2>1, <3>2 DEF CanBatchWith
  <2>2. CASE batched # 0 /\ s \in Computed
    BY <1>0, <1>1, <1>2, <2>2 DEF BatchInv
  <2>3. CASE batched # 0 /\ s \notin Computed
    <3>1. s = turn /\ Processing(turn) /\ ~ Mismatch(turn)
      BY <1>2, <2>3
    <3> QED  BY <1>0, <1>1, <2>3, <3>1 DEF Mismatch
  <2> QED  BY <2>1, <2>2, <2>3
<1>3. ASSUME NEW s \in Computed' PROVE CanBatchWith(first, s)'
  BY <1>2, <1>3, AgreesLike
<1>4. ASSUME NEW r \in Computed', NEW s \in Computed' PROVE CanBatchWith(r, s)'
  <2>1. CanBatchWith(r, s)
    BY <1>2, <1>4, AgreesTogether
  <2> QED  BY <1>2, <1>4, <2>1, AgreesLike
<1>5. BatchAgrees'
  BY <1>4 DEF BatchAgrees, Computed
<1>6. ASSUME main' = "prompts" PROVE /\ batched' = 0 => Computed' = {}
                                     /\ batched' # 0 => \A s \in Computed' : CanBatchWith(batched, s)'
  <2>1. batched' = first
    BY <1>0, <1>6
  <2>2. ASSUME batched' = 0 PROVE Computed' = {}
    BY <1>1, <1>2, <2>1, <2>2 DEF Slots
  <2>3. ASSUME NEW s \in Computed' PROVE CanBatchWith(batched, s)'
    BY <1>3, <2>1, <2>3 DEF CanBatchWith, TypeOf, LoraOf, RequestOf
  <2> QED  BY <2>2, <2>3
<1> QED  BY <1>5, <1>6 DEF BatchInv

\* A slot that is released keeps the id of its task.
LEMMA ReleaseKeepsIds ==
    ASSUME IInv, NEW s \in Slots, Release(s)
    PROVE  /\ \A r \in Slots : slots'[r].id_task = slots[r].id_task
           /\ Generating' \subseteq Generating
<1>1. /\ slots \in [Slots -> SlotRecords] /\ slots' = [slots EXCEPT ![s] = Released(s)]
      /\ Released(s) = [state |-> "idle", id_task |-> slots[s].id_task, left |-> 0,
                        n_decoded |-> 0, n_sent |-> 0]
  BY DEF IInv, LoopInv, LoopTypes, SlotRecords, Release, Released, FreeSlot
<1>2. slots'[s] = Released(s) /\ \A r \in Slots \ {s} : slots'[r] = slots[r]
  BY <1>1
<1> QED  BY <1>1, <1>2 DEF Generating

\* Facts of the invariant that the steps need.
LEMMA BatchFacts ==
    ASSUME IInv
    PROVE  /\ slots \in [Slots -> SlotRecords] /\ Computed \subseteq Slots
           /\ main \in {"tasks", "process", "fail", "wait"} => batch = {}
           /\ main = "prompts" => turn \in Slots
           /\ batched \in 0 .. NSlots
BY DEF IInv, LoopInv, LoopTypes, LoopKnows, SlotRecords, Computed, Generating

\* A slot that is given a task neither generates nor is in the batch.
LEMMA ProcessTaskAgrees ==
    ASSUME IInv, BatchInv, ProcessTask
    PROVE  BatchInv'
<1>1. /\ main = "process" /\ main' = "tasks" /\ request' = request /\ batch = {} /\ batch' = {}
      /\ slots \in [Slots -> SlotRecords]
  BY BatchFacts DEF ProcessTask, DeferTask, LaunchSlot, AnswerTask, CancelSlot, NextResponse,
                    Processed, client_vars
<1>2. CASE DeferTask \/ AnswerTask \/ NextResponse
  <2>1. slots' = slots
    BY <1>2 DEF DeferTask, AnswerTask, NextResponse
  <2> QED  BY <1>1, <2>1, NoneJoins DEF Computed, Generating
<1>3. CASE LaunchSlot
  <2>1. PICK s \in Slots, state \in {"started", "idle"} :
           /\ s \in Idle
           /\ slots' = [slots EXCEPT ![s] = [FreeSlot EXCEPT !.state = state, !.id_task = hand.id]]
    <3>1. \A s \in SlotsFor(hand.id) : s \in Slots /\ s \in Idle
      BY DEF SlotsFor, Idle
    <3>2. /\ FreeSlot.state = "idle"
          /\ FreeSlot = [state |-> "idle", id_task |-> NoTask, left |-> 0, n_decoded |-> 0, n_sent |-> 0]
      BY DEF FreeSlot
    <3>3. [FreeSlot EXCEPT !.id_task = hand.id]
             = [FreeSlot EXCEPT !.state = "idle", !.id_task = hand.id]
      BY <3>2
    <3> QED  BY <1>3, <3>1, <3>3 DEF LaunchSlot
  <2>2. /\ slots'[s] = [FreeSlot EXCEPT !.state = state, !.id_task = hand.id]
        /\ \A r \in Slots \ {s} : slots'[r] = slots[r]
    BY <1>1, <2>1
  <2>3. slots'[s].state # "generating" /\ slots[s].state # "generating"
    BY <2>1, <2>2 DEF FreeSlot, Idle, Processing
  <2>4. Generating' \subseteq Generating /\ \A r \in Generating : slots'[r] = slots[r]
    BY <2>2, <2>3 DEF Generating
  <2> QED  BY <1>1, <2>4, NoneJoins DEF Computed
<1>4. CASE CancelSlot
  <2>1. slots' = slots \/ \E s \in Slots : Release(s)
    BY <1>4 DEF CancelSlot
  <2>2. /\ Generating' \subseteq Generating
        /\ \A r \in Slots : slots'[r].id_task = slots[r].id_task
    BY <2>1, ReleaseKeepsIds DEF Generating
  <2>3. Generating \subseteq Slots
    BY DEF Generating
  <2> QED  BY <1>1, <2>2, <2>3, NoneJoins DEF Computed
<1> QED  BY <1>2, <1>3, <1>4 DEF ProcessTask

\* The first batch is that of the slots that generate: all of them.
LEMMA UpdateSlotsAgrees ==
    ASSUME IInv, BatchInv, UpdateSlots
    PROVE  BatchInv'
<1>1. /\ main = "tasks" /\ request' = request /\ slots' = slots /\ batch = {}
  BY BatchFacts DEF UpdateSlots, client_vars
<1>2. Generating' = Generating
  BY <1>1 DEF Generating
<1>3. batch' \subseteq Generating
  BY <1>1 DEF UpdateSlots, Generating
<1>4. Computed' = Generating /\ Computed = Generating
  BY <1>1, <1>2, <1>3 DEF Computed
<1>5. CASE main' # "prompts"
  BY <1>1, <1>4, <1>5, NoneJoins
<1>6. CASE main' = "prompts"
  <2> DEFINE first == Least(Generating)
  <2>1. batched' = IF Generating = {} THEN 0 ELSE first
    BY <1>6 DEF UpdateSlots, Generating
  <2>2. Generating # {} => first \in Generating
    <3>1. Generating \in SUBSET Nat
      BY DEF Generating, Slots
    <3>2. Generating # {} => \E s \in Generating : \A other \in Generating : s <= other
      BY <3>1, LeastNumber
    <3> QED  BY <3>2 DEF Least
  <2>3. Generating # {} => batched' \in Generating /\ batched' # 0
    BY <2>1, <2>2 DEF Generating, Slots
  <2> HIDE DEF first
  <2>4. ASSUME NEW r \in Generating, NEW s \in Generating PROVE CanBatchWith(r, s)'
    <3>1. CanBatchWith(r, s)
      BY <2>4 DEF BatchInv, BatchAgrees
    <3> QED  BY <1>1, <3>1, AgreesLike
  <2>5. ASSUME NEW s \in Generating PROVE CanBatchWith(batched, s)'
    <3>1. PICK r \in Generating : r = batched'
      BY <2>3, <2>5
    <3>2. CanBatchWith(r, s)'
      BY <2>4, <2>5
    <3> QED  BY <3>1, <3>2 DEF CanBatchWith, TypeOf, LoraOf, RequestOf
  <2> QED  BY <1>4, <2>1, <2>3, <2>4, <2>5 DEF BatchInv, BatchAgrees, Computed
<1> QED  BY <1>5, <1>6

\* A step of the loop over the prompts.
LEMMA PromptAgrees ==
    ASSUME IInv, BatchInv, SkipPrompt \/ RefusePrompt \/ BatchPrompt
    PROVE  BatchInv'
<1>1. /\ main = "prompts" /\ request' = request /\ turn \in Slots
      /\ slots \in [Slots -> SlotRecords] /\ Computed \subseteq Slots /\ batched \in 0 .. NSlots
  BY BatchFacts DEF SkipPrompt, RefusePrompt, BatchPrompt, PromptStep, client_vars
<1>2. main' = "prompts" => batched' = IF batched = 0 /\ Processing(turn) THEN turn ELSE batched
  BY DEF SkipPrompt, RefusePrompt, BatchPrompt, Onwards
<1>3. /\ \A s \in Slots : slots'[s].id_task = slots[s].id_task
      /\ Computed' \subseteq Computed \cup {s \in {turn} : Processing(s) /\ ~ Mismatch(s)}
  <2>1. CASE SkipPrompt
    BY <2>1 DEF SkipPrompt, Computed, Generating
  <2>2. CASE RefusePrompt
    <3>1. Release(turn) /\ batch' = batch
      BY <2>2 DEF RefusePrompt
    <3> QED  BY <1>1, <3>1, ReleaseKeepsIds DEF Computed
  <2>3. CASE BatchPrompt
    <3>1. /\ Processing(turn) /\ ~ Mismatch(turn) /\ batch' \subseteq batch \cup {turn}
      BY <2>3 DEF BatchPrompt, Processing
    <3>2. \E left, state :
             /\ state \in {"done", "prompt"}
             /\ slots' = [slots EXCEPT ![turn].left = left, ![turn].state = state]
      <4>1. PICK len, taken :
               slots' = [slots EXCEPT ![turn].left = len - taken,
                                      ![turn].state = IF taken = len THEN "done" ELSE "prompt"]
        BY <2>3 DEF BatchPrompt
      <4>2. PICK left, state : /\ left = len - taken
                               /\ state = IF taken = len THEN "done" ELSE "prompt"
        OBVIOUS
      <4> QED  BY <4>1, <4>2
    <3> PICK left, state :
             /\ state \in {"done", "prompt"}
             /\ slots' = [slots EXCEPT ![turn].left = left, ![turn].state = state]
      BY <3>2
    <3>3. /\ slots'[turn].id_task = slots[turn].id_task /\ slots'[turn].state = state
          /\ \A s \in Slots \ {turn} : slots'[s] = slots[s]
      BY <1>1 DEF SlotRecords
    <3>4. Generating' \subseteq Generating
      BY <3>3 DEF Generating
    <3> QED  BY <3>1, <3>3, <3>4 DEF Computed
  <2> QED  BY <2>1, <2>2, <2>3
<1> QED  BY <1>1, <1>2, <1>3, TurnJoins

\* A slot generates once its prompt was in the batch.
LEMMA DecodeAgrees ==
    ASSUME IInv, BatchInv, NEW s \in batch, DecodePrompt(s) \/ DecodeToken(s) \/ StopSlot(s)
    PROVE  BatchInv'
<1>1. /\ main = "decode" /\ request' = request /\ s \in Slots
      /\ slots \in [Slots -> SlotRecords] /\ Computed \subseteq Slots
  BY BatchFacts DEF DecodePrompt, DecodeToken, StopSlot, DecodeStep, client_vars, Computed
<1>2. batch' \subseteq batch /\ main' # "prompts"
  <2>1. Decoded(s) => batch' \subseteq batch /\ main' # "prompts"
    BY SMTT(30) DEF Decoded
  <2>2. Decoded(s) \/ (batch' = batch /\ main' = main)
    BY DEF DecodePrompt, DecodeToken, StopSlot
  <2> QED  BY <1>1, <2>1, <2>2
<1>3. /\ Generating' \subseteq Generating \cup {s}
      /\ \A r \in Slots : slots'[r].id_task = slots[r].id_task
  <2>1. CASE DecodeToken(s)
    <3>1. PICK sends \in IF RequestOf(slots[s].id_task).kind = "stream" THEN BOOLEAN ELSE {FALSE},
               last \in IF slots[s].n_decoded + 1 = MaxTokens THEN {TRUE} ELSE BOOLEAN :
             slots' = [slots EXCEPT ![s].state = IF last THEN "stopping" ELSE "generating",
                                    ![s].n_decoded = slots[s].n_decoded + 1,
                                    ![s].n_sent = slots[s].n_sent + (IF sends THEN 1 ELSE 0)]
      BY <2>1 DEF DecodeToken
    <3> DEFINE state == IF last THEN "stopping" ELSE "generating"
               n == slots[s].n_decoded + 1
               sent == slots[s].n_sent + (IF sends THEN 1 ELSE 0)
    <3>2. slots' = [slots EXCEPT ![s].state = state, ![s].n_decoded = n, ![s].n_sent = sent]
      BY <3>1
    <3> HIDE DEF state, n, sent
    <3>3. /\ slots'[s].id_task = slots[s].id_task
          /\ \A r \in Slots \ {s} : slots'[r] = slots[r]
      BY <1>1, <3>2 DEF SlotRecords
    <3> QED  BY <3>3 DEF Generating
  <2>2. CASE slots' = slots \/ Release(s)
    BY <1>1, <2>2, ReleaseKeepsIds DEF Generating
  <2> QED  BY <2>1, <2>2 DEF DecodePrompt, StopSlot
<1> QED  BY <1>1, <1>2, <1>3, NoneJoins DEF Computed

\* Every step of the main loop.
LEMMA MainStepAgrees ==
    ASSUME IInv, BatchInv, MainStep
    PROVE  BatchInv'
<1>1. CASE TakeTask \/ Wake \/ DecodeFails
  <2>1. request' = request /\ slots' = slots /\ batch' \subseteq batch /\ main' # "prompts"
    BY <1>1 DEF TakeTask, Wake, DecodeFails, client_vars
  <2> QED  BY <2>1, NoneJoins DEF Computed, Generating
<1>2. CASE FailSlot
  <2>1. /\ main = "fail" /\ request' = request /\ batch' = batch /\ main' # "prompts"
        /\ slots' = slots \/ Release(turn)
    BY <1>2 DEF FailSlot, client_vars
  <2>2. turn \in Slots /\ Computed \subseteq Slots
    BY <2>1, BatchFacts DEF IInv, LoopInv, LoopKnows
  <2>3. /\ Generating' \subseteq Generating
        /\ \A r \in Slots : slots'[r].id_task = slots[r].id_task
    BY <2>1, <2>2, ReleaseKeepsIds DEF Generating
  <2> QED  BY <2>1, <2>2, <2>3, NoneJoins DEF Computed
<1>3. CASE \E s \in batch : DecodePrompt(s) \/ DecodeToken(s) \/ StopSlot(s)
  BY <1>3, DecodeAgrees, SMTT(30)
<1> QED  BY <1>1, <1>2, <1>3, ProcessTaskAgrees, UpdateSlotsAgrees, PromptAgrees DEF MainStep

\* The threads touch neither the slots nor the batch.
LEMMA ElsewhereAgrees ==
    ASSUME BatchInv, UNCHANGED main_vars, request' = request
    PROVE  BatchInv'
BY DEF main_vars, BatchInv, BatchAgrees, Computed, Generating, CanBatchWith, TypeOf, LoraOf, RequestOf

\* All slots of a batch, and all that generate, are of one type and have the
\* same adapters: no slot is computed with another one's, and the first loop of
\* update_slots leaves no slot out.
THEOREM BatchAgreesHolds == Spec => []BatchAgrees
<1>1. Init => BatchInv
  BY DEF Init, FreeSlot, BatchInv, BatchAgrees, Computed, Generating
<1>2. ASSUME IInv, BatchInv, [Next]_vars PROVE BatchInv'
  <2>1. CASE UNCHANGED vars
    BY <1>2, <2>1, ElsewhereAgrees DEF vars, client_vars
  <2>2. ASSUME NEW c \in Clients, Announce(c) \/ CloseConnection(c) \/ ClientStep(c)
        PROVE  UNCHANGED main_vars /\ request' = request
    BY <2>2 DEF Announce, CloseConnection, ClientStep, PostRequest, OpenStream, TakeResult,
                Timeout, CancelTasks, PostCancel, Finish
  <2> QED  BY <1>2, <2>1, <2>2, MainStepAgrees, ElsewhereAgrees DEF Next
<1>3. BatchInv => BatchAgrees
  BY DEF BatchInv
<1> QED  BY <1>1, <1>2, <1>3, Invariant, PTL DEF Spec

=============================================================================
