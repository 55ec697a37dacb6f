----------------------------- MODULE Emergence -----------------------------
(***************************************************************************)
(* The emergent behaviour analyser of ggml-distributed-cognitive.c and the *)
(* table of dynamic modules it watches.  One process, one thread: a call   *)
(* is one step.  Performance is what distributed_cognitive_benchmark_-     *)
(* performance returns, in percent; everything that function reads belongs *)
(* to other components, so that it is an input here.  The attention        *)
(* history feeds no detection and is left out.                             *)
(***************************************************************************)
EXTENDS Integers, Sequences, FiniteSets, FiniteSetsExt

CONSTANTS Levels,            \* performances that may be measured, in percent
          MaxModules,        \* dynamic_module_capacity, 16
          Names,             \* names a program gives its modules
          Window,            \* sample_capacity, 1000
          MaxBehaviors,      \* behavior_capacity, 100
          MinPattern,        \* min_pattern_length, 5
          SplitSamples,      \* samples before early and late differ, 10
          TrendSamples,      \* samples before an optimisation, 8
          RecentSamples,     \* samples searched for a new module, 5
          Streak,            \* steps that make a phase transition, 5
          Cooldown,          \* by type: 10, 8, 12 and 15 in C
          MaxObservations,   \* bound: analyses
          MaxSwitches        \* bound: changes of the module table or of the
                             \* self-modification flags

Types == {"Convergent", "SpontaneousOptimization", "EmergentCooperation",
          "PhaseTransition"}

\* trend and is_stable are not initialised before the third sample, and every
\* detection waits for more.  A rise has left the recent samples before
\* cooperation may be detected again.
ASSUME EmergenceAssumption ==
    /\ Levels \subseteq 0 .. 100
    /\ Cooldown \in [Types -> Nat \ {0}]
    /\ MinPattern \in Nat /\ MinPattern >= 3
    /\ TrendSamples \in Nat /\ TrendSamples >= 3
    /\ RecentSamples \in Nat /\ RecentSamples - 1 <= Cooldown["EmergentCooperation"]
    /\ \A n \in {MaxModules, Window, MaxBehaviors, SplitSamples, Streak} :
          n \in Nat \ {0}
    /\ MaxObservations \in Nat /\ MaxSwitches \in Nat

VARIABLES dynamic_modules,      \* their names, oldest first
          self_modifying,       \* self_optimization_active or
                                \* recursive_improvement_active
          system_time,          \* of the analyser: analyses so far
          performance_history, module_activity_history,
          last_performance,     \* last_performance_levels[9]
          consecutive_improvements, consecutive_degradations,
          last_detection,       \* by type: last_convergent_detection ..
          behaviors,            \* the records: <<type, system_time>>
          observed,             \* history: what each analysis found
          detections,           \* history: every detection, recorded or not
          switches              \* history: counts towards MaxSwitches

streaks == <<consecutive_improvements, consecutive_degradations>>
analyzer == <<system_time, performance_history, module_activity_history,
              last_performance, streaks, last_detection, behaviors>>
history == <<observed, detections>>
vars == <<dynamic_modules, self_modifying, analyzer, history, switches>>

Init == /\ dynamic_modules = <<>>
        /\ self_modifying = TRUE
        /\ system_time = 0
        /\ performance_history = <<>> /\ module_activity_history = <<>>
        /\ last_performance = 50
        /\ consecutive_improvements = 0 /\ consecutive_degradations = 0
        /\ last_detection = [type \in Types |-> 0]
        /\ behaviors = <<>>
        /\ observed = <<>> /\ detections = {} /\ switches = 0

Switch == /\ switches < MaxSwitches
          /\ switches' = switches + 1
          /\ UNCHANGED <<analyzer, history>>

CreateModule(name) ==
    /\ Len(dynamic_modules) < MaxModules
    /\ \A i \in DOMAIN dynamic_modules : dynamic_modules[i] # name
    /\ dynamic_modules' = Append(dynamic_modules, name)
    /\ Switch /\ UNCHANGED self_modifying

\* The modules behind the removed one move down.
RemoveModule(i) ==
    /\ dynamic_modules' = SubSeq(dynamic_modules, 1, i - 1)
                          \o SubSeq(dynamic_modules, i + 1, Len(dynamic_modules))
    /\ Switch /\ UNCHANGED self_modifying

\* Both flags are public fields that programs set.
SetSelfModification(flag) ==
    /\ flag # self_modifying
    /\ self_modifying' = flag
    /\ Switch /\ UNCHANGED dynamic_modules

-----------------------------------------------------------------------------
(* The metric histories.                                                   *)

AddSample(samples, value) ==
    IF Len(samples) >= Window THEN Append(Tail(samples), value)
    ELSE Append(samples, value)

Total(values) == MapThenSumSet(LAMBDA i : values[i], DOMAIN values)

Squares(values) == [i \in DOMAIN values |-> values[i] * values[i]]

\* n * sum_tv - sum_t * sum_v and n * sum_t2 - sum_t * sum_t: their quotient
\* is the slope of the regression line, in percent per sample.
Ticks(h) == [i \in DOMAIN h |-> i - 1]
TrendNumerator(h) ==
    Len(h) * Total([i \in DOMAIN h |-> (i - 1) * h[i]]) - Total(Ticks(h)) * Total(h)
TrendDenominator(h) ==
    Len(h) * Total(Squares(Ticks(h))) - Total(Ticks(h)) * Total(Ticks(h))

\* A trend above 0.01 (which implies is_trending).
Rising(h) == TrendNumerator(h) > TrendDenominator(h)

\* is_stable: variance below 0.01 and slope below 0.001, either way.
Stable(h) ==
    LET n == Len(h)
        spread == n * Total(Squares(h)) - Total(h) * Total(h)
    IN  /\ spread < 100 * n * (n - 1)
        /\ 10 * TrendNumerator(h) < TrendDenominator(h)
        /\ -10 * TrendNumerator(h) < TrendDenominator(h)

\* was_changing: the means of the two halves differ by more than 0.05.
WasChanging(h) ==
    LET mid == Len(h) \div 2
        early == SubSeq(h, 1, mid)
        late == SubSeq(h, mid + 1, Len(h))
        gap == Len(early) * Total(late) - Len(late) * Total(early)
        limit == 5 * Len(early) * Len(late)
    IN  Len(h) >= SplitSamples /\ (gap > limit \/ -gap > limit)

-----------------------------------------------------------------------------
(* The detections.  ph and mh are the performance and module histories     *)
(* with this analysis's samples, now its system_time.                      *)

Cooled(type, now) == now - last_detection[type] >= Cooldown[type]

DetectConvergent(ph, now) ==
    /\ Len(ph) >= MinPattern
    /\ Cooled("Convergent", now)
    /\ Stable(ph) /\ WasChanging(ph)

DetectOptimization(ph, now) ==
    /\ Len(ph) >= TrendSamples
    /\ Cooled("SpontaneousOptimization", now)
    /\ Rising(ph) /\ ~ self_modifying

\* The positions, among the last RecentSamples, at which the module count is
\* above the one before; the loop stops at the first.
Rises(mh) ==
    LET first == IF Len(mh) > RecentSamples THEN Len(mh) - RecentSamples + 1 ELSE 1
    IN  {i \in first + 1 .. Len(mh) : mh[i] > mh[i - 1]}

\* Mutant: without a cooldown.
DetectCooperationAgain(ph, mh, now) ==
    /\ Len(mh) >= RecentSamples /\ Len(ph) >= RecentSamples
    /\ Rises(mh) # {}
    /\ LET i == Min(Rises(mh)) IN ph[i] - ph[i - 1] > 10

DetectCooperation(ph, mh, now) ==
    /\ Len(mh) >= RecentSamples /\ Len(ph) >= RecentSamples
    /\ Cooled("EmergentCooperation", now)
    /\ Rises(mh) # {}
    /\ LET i == Min(Rises(mh)) IN ph[i] - ph[i - 1] > 10

DetectPhase(up, down, p, now) ==
    /\ \/ up >= Streak /\ p > 80
       \/ down >= Streak /\ p < 30
    /\ Cooled("PhaseTransition", now)

\* The types found, in the order of emergent_behavior_analyze_system.
One(type, found) == IF type \in found THEN <<type>> ELSE <<>>

Ordered(found) == One("Convergent", found) \o One("SpontaneousOptimization", found)
                  \o One("EmergentCooperation", found) \o One("PhaseTransition", found)

\* Mutant: the test for a full table is off by one.
FitOneTooMany(records) ==
    IF Len(records) > MaxBehaviors + 1 THEN SubSeq(records, 1, MaxBehaviors + 1)
    ELSE records

\* Mutant: a full table forgets its oldest records.
FitLatest(records) ==
    IF Len(records) > MaxBehaviors
    THEN SubSeq(records, Len(records) - MaxBehaviors + 1, Len(records))
    ELSE records

\* record_emergent_behavior drops what finds the table full.
Fit(records) ==
    IF Len(records) > MaxBehaviors THEN SubSeq(records, 1, MaxBehaviors) ELSE records

Recorded(found, now) ==
    LET new == Ordered(found)
    IN  Fit(behaviors \o [i \in DOMAIN new |-> <<new[i], now>>])

\* Mutant: a step in one direction does not end the streak of the other.
CountStepsOn(p, now) ==
    /\ consecutive_improvements' = consecutive_improvements +
          IF now > 1 /\ p > last_performance THEN 1 ELSE 0
    /\ consecutive_degradations' = consecutive_degradations +
          IF now > 1 /\ p < last_performance THEN 1 ELSE 0

\* Equal performance leaves both streaks as they are.
CountSteps(p, now) ==
    CASE now > 1 /\ p > last_performance ->
            /\ consecutive_improvements' = consecutive_improvements + 1
            /\ consecutive_degradations' = 0
      [] now > 1 /\ p < last_performance ->
            /\ consecutive_degradations' = consecutive_degradations + 1
            /\ consecutive_improvements' = 0
      [] OTHER -> UNCHANGED streaks

Analyze(p) ==
    LET now == system_time + 1
        ph == AddSample(performance_history, p)
        mh == AddSample(module_activity_history, Len(dynamic_modules))
        found == {type \in Types :
            CASE type = "Convergent" -> DetectConvergent(ph, now)
              [] type = "SpontaneousOptimization" -> DetectOptimization(ph, now)
              [] type = "EmergentCooperation" -> DetectCooperation(ph, mh, now)
              [] type = "PhaseTransition" ->
                    DetectPhase(consecutive_improvements', consecutive_degradations',
                                p, now)}
    IN  /\ system_time < MaxObservations
        /\ system_time' = now
        /\ performance_history' = ph /\ module_activity_history' = mh
        /\ last_performance' = p
        /\ CountSteps(p, now)
        /\ last_detection' = [type \in Types |->
              IF type \in found THEN now ELSE last_detection[type]]
        /\ behaviors' = Recorded(found, now)
        /\ observed' = Append(observed, [performance |-> p,
              modules |-> Len(dynamic_modules), prompted |-> self_modifying])
        /\ detections' = detections \cup
              {[type |-> type, time |-> now,
                rise |-> IF type = "EmergentCooperation"
                         THEN now - Len(mh) + Min(Rises(mh)) ELSE 0] : type \in found}
        /\ UNCHANGED <<dynamic_modules, self_modifying, switches>>

Next == \/ \E name \in Names : CreateModule(name)
        \/ \E i \in DOMAIN dynamic_modules : RemoveModule(i)
        \/ \E flag \in BOOLEAN : SetSelfModification(flag)
        \/ \E p \in Levels : Analyze(p)

Spec == Init /\ [][Next]_vars

-----------------------------------------------------------------------------

TypeOK ==
    /\ dynamic_modules \in Seq(Names) /\ Len(dynamic_modules) <= MaxModules
    /\ self_modifying \in BOOLEAN /\ system_time = Len(observed)
    /\ performance_history \in Seq(Levels) /\ Len(performance_history) <= Window
    /\ Len(module_activity_history) = Len(performance_history)
    /\ last_performance \in Levels \cup {50}
    /\ consecutive_improvements \in Nat /\ consecutive_degradations \in Nat
    /\ last_detection \in [Types -> 0 .. system_time]
    /\ behaviors \in Seq(Types \X (1 .. system_time)) /\ Len(behaviors) <= MaxBehaviors
    /\ \A d \in detections : d.type \in Types /\ d.time \in 1 .. system_time

\* The cooperation search compares positions of two sliding histories and may
\* see one new module for several analyses: each detection stands for a module
\* that was really added while performance rose, and for one no other stands for.
CooperationOnce == \A d \in detections : d.type = "EmergentCooperation" =>
    /\ d.rise \in 2 .. Len(observed)
    /\ observed[d.rise].modules > observed[d.rise - 1].modules
    /\ observed[d.rise].performance > observed[d.rise - 1].performance + 10
    /\ \A e \in detections : e.type = d.type /\ e.rise = d.rise => e = d

\* Of the analyses up to time t: at least Streak rises since the last fall.
Climbed(t) ==
    \E s \in 1 .. t :
        /\ \A i \in s + 1 .. t : observed[i].performance >= observed[i - 1].performance
        /\ Cardinality({i \in s + 1 .. t :
              observed[i].performance > observed[i - 1].performance}) >= Streak

Sank(t) ==
    \E s \in 1 .. t :
        /\ \A i \in s + 1 .. t : observed[i].performance <= observed[i - 1].performance
        /\ Cardinality({i \in s + 1 .. t :
              observed[i].performance < observed[i - 1].performance}) >= Streak

Shift(t) == \/ Climbed(t) /\ observed[t].performance > 80
            \/ Sank(t) /\ observed[t].performance < 30

Times(type) == {d.time : d \in {e \in detections : e.type = type}}

\* The streak counters summarise the whole past: a phase transition is
\* reported when, and only when, the performances observed so far make one and
\* none was reported within its cooldown (counted from 0 at the start).
PhaseTransitionsExact == \A t \in DOMAIN observed :
    t \in Times("PhaseTransition") <=>
        /\ Shift(t)
        /\ \A s \in Times("PhaseTransition") \cup {0} :
              s < t => t - s >= Cooldown["PhaseTransition"]

\* A detection takes effect (its cooldown starts, the analysis returns true)
\* also when the table is full: the records are the first detections, as many
\* as there is room for, and those lost are not older than any kept.
RecordsAreFirst ==
    LET Kept(d) == \E i \in DOMAIN behaviors : behaviors[i] = <<d.type, d.time>>
    IN  /\ \A i \in DOMAIN behaviors : behaviors[i][2] \in Times(behaviors[i][1])
        /\ \A d \in detections : Kept(d) \/
              /\ Len(behaviors) = MaxBehaviors
              /\ \A i \in DOMAIN behaviors : behaviors[i][2] <= d.time

\* The performance rose with sample i, and nobody switched self-modification off
\* on the way: a rise under "explicit optimization commands".
Rise(i) == observed[i].performance > observed[i - 1].performance
PromptedRise(i) == Rise(i) /\ observed[i - 1].prompted /\ observed[i].prompted

\* "System improves without explicit optimization commands": of the improvement
\* that is reported as spontaneous some at least was made without them.
SpontaneousIsUnprompted == \A t \in Times("SpontaneousOptimization") :
    \E i \in (IF t > Window THEN t - Window + 2 ELSE 2) .. t : Rise(i) /\ ~ PromptedRise(i)

=============================================================================
