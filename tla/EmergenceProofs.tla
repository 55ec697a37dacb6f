-------------------------- MODULE EmergenceProofs --------------------------
(***************************************************************************)
(* What the analyser reports is what happened, for every number of samples *)
(* and modules and every choice of its thresholds.                         *)
(***************************************************************************)
EXTENDS Emergence, FiniteSetTheorems, SequenceTheorems, WellFoundedInduction, TLAPS

\* f rose (or fell) at the places in ..., since its last fall, which is at s
\* (or s is the start).
Since(f, s, t) == \A i \in s + 1 .. t : f[i] >= f[i - 1]
RisesOf(f, s, t) == {i \in s + 1 .. t : f[i] > f[i - 1]}

\* n counts the rises of f since its last fall up to t.
Counts(f, t, n) ==
    IF t = 0 THEN n = 0
    ELSE \E s \in 1 .. t : /\ s = 1 \/ f[s] < f[s - 1]
                           /\ Since(f, s, t)
                           /\ n = Cardinality(RisesOf(f, s, t))
LongRun(f, t) ==
    \E s \in 1 .. t : Since(f, s, t) /\ Cardinality(RisesOf(f, s, t)) >= Streak

Performances == [i \in 1 .. Len(observed) |-> observed[i].performance]
Losses == [i \in 1 .. Len(observed) |-> 0 - observed[i].performance]

\* The inductive invariant.  The two histories are the end of what was
\* observed; the counters summarise all of it; each cooldown counts from the
\* last detection of its type.
Observations == [performance : Levels, modules : Nat, prompted : BOOLEAN]
Shed == system_time - Len(performance_history)
HistoriesTrack ==
    /\ observed \in Seq(Observations)
    /\ module_activity_history \in Seq(Nat)
    /\ Len(performance_history) <= system_time
    /\ \A i \in 1 .. Len(performance_history) :
          /\ performance_history[i] = observed[Shed + i].performance
          /\ module_activity_history[i] = observed[Shed + i].modules
    /\ system_time > 0 => last_performance = observed[system_time].performance
CountersSummarise ==
    /\ Counts(Performances, system_time, consecutive_improvements)
    /\ Counts(Losses, system_time, consecutive_degradations)
CooldownsCount ==
    /\ detections \subseteq [type : Types, time : 1 .. system_time, rise : Nat]
    /\ \A type \in Types :
          /\ last_detection[type] \in Times(type) \cup {0}
          /\ \A s \in Times(type) : s <= last_detection[type]
RisesArePast == \A d \in detections : d.type = "EmergentCooperation" => d.rise <= d.time
IInv == /\ TypeOK /\ HistoriesTrack /\ CountersSummarise /\ CooldownsCount
        /\ CooperationOnce /\ RisesArePast /\ PhaseTransitionsExact /\ RecordsAreFirst

-----------------------------------------------------------------------------
(* Numbers *)

\* The least number of a set.
LEMMA MinOfNumbers ==
    ASSUME NEW S \in SUBSET Nat, S # {}
    PROVE  Min(S) \in S /\ \A x \in S : Min(S) <= x
<1> DEFINE R == {ss \in Nat \X Nat : ss[1] < ss[2]}
<1>1. IsWellFoundedOn(R, Nat)
  BY NatLessThanWellFounded DEF OpToRel
<1>2. PICK x \in S : \A y \in S : ~ (<<y, x>> \in R)
  <2> HIDE DEF R
  <2> QED  BY <1>1, WFMin
<1>3. ASSUME NEW y \in S PROVE x <= y
  <2>1. x \in Nat /\ y \in Nat /\ <<y, x>> \in Nat \X Nat /\ <<y, x>>[1] = y /\ <<y, x>>[2] = x
    OBVIOUS
  <2>2. ~ (y < x)
    BY <1>2, <2>1
  <2> QED  BY <2>1, <2>2
<1> QED  BY <1>3 DEF Min

\* Counting rises.
LEMMA RisesCounted ==
    ASSUME NEW f, NEW s \in Nat, NEW t \in Nat
    PROVE  IsFiniteSet(RisesOf(f, s, t)) /\ Cardinality(RisesOf(f, s, t)) \in Nat
<1>1. IsFiniteSet(s + 1 .. t) /\ RisesOf(f, s, t) \subseteq s + 1 .. t
  BY FS_Interval DEF RisesOf
<1> QED  BY <1>1, FS_Subset, FS_CardinalityType

\* The count since the last fall is the longest there is, so that it tells
\* whether there is a long run.
LEMMA CountTells ==
    ASSUME NEW t \in Nat, NEW f \in [1 .. t -> Int], NEW n, Counts(f, t, n)
    PROVE  n \in Nat /\ (LongRun(f, t) <=> n >= Streak)
<1> USE EmergenceAssumption
<1>1. CASE t = 0
  BY <1>1 DEF Counts, LongRun
<1>2. CASE t # 0
  <2>1. PICK s \in 1 .. t : /\ s = 1 \/ f[s] < f[s - 1]
                            /\ Since(f, s, t)
                            /\ n = Cardinality(RisesOf(f, s, t))
    BY <1>2 DEF Counts
  <2>2. n \in Nat
    BY <2>1, RisesCounted
  <2>3. ASSUME NEW r \in 1 .. t, Since(f, r, t), Cardinality(RisesOf(f, r, t)) >= Streak
        PROVE  n >= Streak
    <3>1. s <= r
      <4> SUFFICES ASSUME s > r PROVE FALSE
        OBVIOUS
      <4>1. s \in r + 1 .. t
        OBVIOUS
      <4>3. f[s] >= f[s - 1]
        BY <2>3, <4>1 DEF Since
      <4>2. s - 1 \in 1 .. t /\ f[s] \in Int /\ f[s - 1] \in Int
        BY <4>1
      <4> QED  BY <2>1, <4>1, <4>3, <4>2
    <3>2. RisesOf(f, r, t) \subseteq RisesOf(f, s, t)
      BY <3>1 DEF RisesOf
    <3>3. Cardinality(RisesOf(f, r, t)) <= n
      BY <2>1, <3>2, RisesCounted, FS_Subset
    <3> QED  BY <2>2, <2>3, <3>3, RisesCounted
  <2>4. n >= Streak => LongRun(f, t)
    BY <2>1 DEF LongRun
  <2> QED  BY <2>2, <2>3, <2>4 DEF LongRun
<1> QED  BY <1>1, <1>2

\* One value more.
LEMMA CountOn ==
    ASSUME NEW t \in Nat, NEW f \in [1 .. t -> Int], NEW g \in [1 .. t + 1 -> Int],
           \A i \in 1 .. t : g[i] = f[i],
           NEW n, Counts(f, t, n)
    PROVE  /\ t = 0 => Counts(g, t + 1, 0)
           /\ t > 0 /\ g[t + 1] > g[t] => Counts(g, t + 1, n + 1)
           /\ t > 0 /\ g[t + 1] = g[t] => Counts(g, t + 1, n)
           /\ t > 0 /\ g[t + 1] < g[t] => Counts(g, t + 1, 0)
<1>1. t = 0 \/ g[t + 1] < g[t] => Counts(g, t + 1, 0)
  <2>1. t + 1 \in 1 .. t + 1 /\ t + 1 # 0 /\ t + 1 - 1 = t
    OBVIOUS
  <2>2. RisesOf(g, t + 1, t + 1) = {} /\ Since(g, t + 1, t + 1)
    BY DEF RisesOf, Since
  <2>3. Cardinality(RisesOf(g, t + 1, t + 1)) = 0
    BY <2>2, FS_EmptySet
  <2> QED  BY <2>1, <2>2, <2>3 DEF Counts
<1>2. ASSUME t > 0, g[t + 1] >= g[t]
      PROVE  /\ g[t + 1] > g[t] => Counts(g, t + 1, n + 1)
             /\ g[t + 1] = g[t] => Counts(g, t + 1, n)
  <2>1. PICK s \in 1 .. t : /\ s = 1 \/ f[s] < f[s - 1]
                            /\ Since(f, s, t)
                            /\ n = Cardinality(RisesOf(f, s, t))
    BY <1>2 DEF Counts
  <2>2. s = 1 \/ g[s] < g[s - 1]
    BY <2>1
  <2>3. \A i \in s + 1 .. t : g[i] = f[i] /\ g[i - 1] = f[i - 1]
    OBVIOUS
  <2>4. Since(g, s, t + 1)
    <3>1. ASSUME NEW i \in s + 1 .. t + 1 PROVE g[i] >= g[i - 1]
      <4>1. CASE i = t + 1
        BY <1>2, <4>1
      <4>2. CASE i # t + 1
        BY <2>1, <2>3, <4>2 DEF Since
      <4> QED  BY <4>1, <4>2
    <3> QED  BY <3>1 DEF Since
  <2>5. IsFiniteSet(RisesOf(f, s, t)) /\ t + 1 \notin RisesOf(f, s, t)
    <3>1. s \in Nat /\ t + 1 \notin s + 1 .. t
      OBVIOUS
    <3> QED  BY <3>1, RisesCounted DEF RisesOf
  <2>6. CASE g[t + 1] > g[t]
    <3>1. RisesOf(g, s, t + 1) = RisesOf(f, s, t) \cup {t + 1}
      <4>1. \A i \in s + 1 .. t : i \in s + 1 .. t + 1 /\ (g[i] > g[i - 1] <=> f[i] > f[i - 1])
        BY <2>3
      <4>2. \A i \in s + 1 .. t + 1 : i \in s + 1 .. t \/ i = t + 1
        OBVIOUS
      <4>3. t + 1 \in s + 1 .. t + 1 /\ g[t + 1] > g[t + 1 - 1]
        BY <2>6
      <4>4. RisesOf(g, s, t + 1) \subseteq RisesOf(f, s, t) \cup {t + 1}
        BY <4>1, <4>2 DEF RisesOf
      <4>5. RisesOf(f, s, t) \subseteq RisesOf(g, s, t + 1)
        BY <4>1 DEF RisesOf
      <4>6. t + 1 \in RisesOf(g, s, t + 1)
        BY <4>3 DEF RisesOf
      <4> QED  BY <4>4, <4>5, <4>6
    <3>2. Cardinality(RisesOf(g, s, t + 1)) = n + 1
      BY <2>1, <2>5, <3>1, FS_AddElement
    <3> QED  BY <2>2, <2>4, <2>6, <3>2 DEF Counts
  <2>7. CASE g[t + 1] = g[t]
    <3>1. RisesOf(g, s, t + 1) = RisesOf(f, s, t)
      <4>1. ASSUME NEW i \in s + 1 .. t + 1
            PROVE  i \in RisesOf(g, s, t + 1) <=> i \in RisesOf(f, s, t)
        BY <2>3, <2>7 DEF RisesOf
      <4> QED  BY <4>1 DEF RisesOf
    <3> QED  BY <2>1, <2>2, <2>4, <2>7, <3>1 DEF Counts
  <2> QED  BY <1>2, <2>6, <2>7
<1> QED  BY <1>1, <1>2

-----------------------------------------------------------------------------
(* The operators of the analyser *)

\* How many samples leave a history that gets another.
Leaving(q) == IF Len(q) >= Window THEN 1 ELSE 0

LEMMA SampleAdded ==
    ASSUME NEW S, NEW q \in Seq(S), Len(q) <= Window, NEW v \in S
    PROVE  /\ AddSample(q, v) \in Seq(S)
           /\ Leaving(q) \in {0, 1} /\ Leaving(q) <= Len(q)
           /\ Len(AddSample(q, v)) = Len(q) + 1 - Leaving(q)
           /\ Len(AddSample(q, v)) <= Window /\ Len(AddSample(q, v)) \in Nat \ {0}
           /\ AddSample(q, v)[Len(AddSample(q, v))] = v
           /\ \A i \in 1 .. Len(AddSample(q, v)) - 1 : AddSample(q, v)[i] = q[i + Leaving(q)]
<1>0. Window \in Nat \ {0}
  BY EmergenceAssumption
<1>1. Len(q) \in Nat /\ q \in [1 .. Len(q) -> S]
  BY LenProperties
<1> USE DEF Leaving
<1>2. CASE Len(q) >= Window
  <2>1. q # <<>>
    BY <1>0, <1>2, EmptySeq
  <2>2. /\ Tail(q) \in Seq(S) /\ Len(Tail(q)) = Len(q) - 1
        /\ \A i \in 1 .. Len(q) - 1 : Tail(q)[i] = q[i + 1]
    BY <2>1, HeadTailProperties
  <2>3. /\ Append(Tail(q), v) \in Seq(S)
        /\ Len(Append(Tail(q), v)) = Len(q)
        /\ \A i \in 1 .. Len(q) - 1 : Append(Tail(q), v)[i] = Tail(q)[i]
        /\ Append(Tail(q), v)[Len(q)] = v
    BY <1>1, <2>2, AppendProperties
  <2> QED  BY <1>0, <1>1, <1>2, <2>2, <2>3 DEF AddSample
<1>3. CASE Len(q) < Window
  <2>1. /\ Append(q, v) \in Seq(S)
        /\ Len(Append(q, v)) = Len(q) + 1
        /\ \A i \in 1 .. Len(q) : Append(q, v)[i] = q[i]
        /\ Append(q, v)[Len(q) + 1] = v
    BY AppendProperties
  <2>2. AddSample(q, v) = Append(q, v) /\ ~ (Len(q) >= Window)
    BY <1>0, <1>1, <1>3 DEF AddSample
  <2>3. \A i \in 1 .. Len(q) : i + 0 = i
    OBVIOUS
  <2> QED  BY <1>0, <1>1, <1>3, <2>1, <2>2, <2>3
<1> QED  BY <1>0, <1>1, <1>2, <1>3

\* The types found, each once.
LEMMA OrderedElements ==
    ASSUME NEW found \in SUBSET Types
    PROVE  /\ Ordered(found) \in Seq(Types)
           /\ \A type \in found : \E i \in 1 .. Len(Ordered(found)) : Ordered(found)[i] = type
           /\ \A i \in 1 .. Len(Ordered(found)) : Ordered(found)[i] \in found
<1> DEFINE Has(q, part) == /\ q \in Seq(found)
                           /\ \A type \in part : \E i \in 1 .. Len(q) : q[i] = type
           Of(type) == found \cap {type}
<1>1. ASSUME NEW type \in Types PROVE Has(One(type, found), Of(type))
  <2>1. CASE type \in found
    <3>1. <<type>> \in Seq(found) /\ Len(<<type>>) = 1 /\ <<type>>[1] = type
      BY <2>1
    <3> QED  BY <2>1, <3>1 DEF One
  <2>2. CASE type \notin found
    BY <2>2, EmptySeq DEF One
  <2> QED  BY <2>1, <2>2
<1>2. ASSUME NEW q, NEW r, NEW A, NEW B, Has(q, A), Has(r, B) PROVE Has(q \o r, A \cup B)
  <2>1. /\ q \o r \in Seq(found) /\ Len(q \o r) = Len(q) + Len(r)
        /\ Len(q) \in Nat /\ Len(r) \in Nat
        /\ \A i \in 1 .. Len(q) + Len(r) : (q \o r)[i] = IF i <= Len(q) THEN q[i] ELSE r[i - Len(q)]
    BY <1>2, ConcatProperties, LenProperties
  <2>2. ASSUME NEW type \in A PROVE \E i \in 1 .. Len(q \o r) : (q \o r)[i] = type
    <3>1. PICK i \in 1 .. Len(q) : q[i] = type
      BY <1>2
    <3> QED  BY <2>1, <3>1
  <2>3. ASSUME NEW type \in B PROVE \E i \in 1 .. Len(q \o r) : (q \o r)[i] = type
    <3>1. PICK i \in 1 .. Len(r) : r[i] = type
      BY <1>2
    <3>2. Len(q) + i \in 1 .. Len(q) + Len(r) /\ ~ (Len(q) + i <= Len(q)) /\ Len(q) + i - Len(q) = i
      BY <2>1
    <3> QED  BY <2>1, <3>1, <3>2
  <2> QED  BY <2>1, <2>2, <2>3
<1> HIDE DEF Has
<1>3. /\ "Convergent" \in Types /\ "SpontaneousOptimization" \in Types
      /\ "EmergentCooperation" \in Types /\ "PhaseTransition" \in Types
  BY DEF Types
<1>4. Has(Ordered(found), ((Of("Convergent") \cup Of("SpontaneousOptimization"))
             \cup Of("EmergentCooperation")) \cup Of("PhaseTransition"))
  <2>1. Has(One("Convergent", found) \o One("SpontaneousOptimization", found),
            Of("Convergent") \cup Of("SpontaneousOptimization"))
    BY <1>1, <1>2, <1>3
  <2>2. Has((One("Convergent", found) \o One("SpontaneousOptimization", found))
              \o One("EmergentCooperation", found),
            (Of("Convergent") \cup Of("SpontaneousOptimization"))
              \cup Of("EmergentCooperation"))
    BY <1>1, <1>2, <1>3, <2>1
  <2> QED  BY <1>1, <1>2, <1>3, <2>2 DEF Ordered
<1>5. found = ((Of("Convergent") \cup Of("SpontaneousOptimization"))
             \cup Of("EmergentCooperation")) \cup Of("PhaseTransition")
  <2>1. \A type \in found : \/ type = "Convergent" \/ type = "SpontaneousOptimization"
                             \/ type = "EmergentCooperation" \/ type = "PhaseTransition"
    BY DEF Types
  <2> QED  BY <2>1
<1>6. Has(Ordered(found), found)
  BY <1>4, <1>5
<1>7. Ordered(found) \in Seq(found) /\ \A i \in 1 .. Len(Ordered(found)) : Ordered(found)[i] \in found
  BY <1>6, ElementOfSeq DEF Has
<1>8. Ordered(found) \in Seq(Types)
  BY <1>7, SeqMonotonic
<1> QED  BY <1>6, <1>7, <1>8 DEF Has

\* The table after an analysis: what there was, then what was found, as far as
\* there is room.
AddsTo(r, S, found, now) ==
    /\ r \in Seq(S) /\ Len(r) <= MaxBehaviors /\ Len(behaviors) <= Len(r)
    /\ \A i \in 1 .. Len(behaviors) : r[i] = behaviors[i]
    /\ \A i \in Len(behaviors) + 1 .. Len(r) : r[i][1] \in found /\ r[i][2] = now
    /\ \/ Len(r) = MaxBehaviors
       \/ \A type \in found : \E i \in 1 .. Len(r) : r[i] = <<type, now>>

\* So it is with what record_emergent_behavior does.
LEMMA RecordedElements ==
    ASSUME NEW found \in SUBSET Types, NEW now \in Nat, NEW S, Types \X {now} \subseteq S,
           behaviors \in Seq(S), Len(behaviors) <= MaxBehaviors
    PROVE  AddsTo(Recorded(found, now), S, found, now)
<1> DEFINE new == Ordered(found)
           stamped == [i \in DOMAIN new |-> <<new[i], now>>]
           whole == behaviors \o stamped
           r == Recorded(found, now)
<1>0. MaxBehaviors \in Nat \ {0}
  BY EmergenceAssumption
<1>1. new \in Seq(Types) /\ DOMAIN new = 1 .. Len(new) /\ Len(new) \in Nat
  BY OrderedElements, LenProperties
<1>2. /\ \A i \in 1 .. Len(new) : new[i] \in Types /\ new[i] \in found
      /\ \A type \in found : \E i \in 1 .. Len(new) : new[i] = type
  BY <1>1, OrderedElements, ElementOfSeq
<1> HIDE DEF new
<1>3. \A i \in 1 .. Len(new) : stamped[i] = <<new[i], now>> /\ stamped[i] \in S
  BY <1>1, <1>2
<1>4. stamped \in Seq(S) /\ Len(stamped) = Len(new)
  <2>1. stamped \in [1 .. Len(new) -> S]
    BY <1>1, <1>3
  <2> QED  BY <1>1, <2>1, IsASeq, LenProperties
<1> HIDE DEF stamped
<1>5. /\ Len(behaviors) \in Nat
      /\ whole \in Seq(S) /\ Len(whole) = Len(behaviors) + Len(new)
      /\ \A i \in 1 .. Len(behaviors) + Len(new) :
            whole[i] = IF i <= Len(behaviors) THEN behaviors[i] ELSE stamped[i - Len(behaviors)]
  <2>1. /\ whole \in Seq(S) /\ Len(whole) = Len(behaviors) + Len(stamped)
        /\ \A i \in 1 .. Len(behaviors) + Len(stamped) :
              whole[i] = IF i <= Len(behaviors) THEN behaviors[i] ELSE stamped[i - Len(behaviors)]
    BY <1>4, ConcatProperties
  <2> QED  BY <1>4, <2>1, LenProperties
<1> HIDE DEF whole
<1>6. r = Fit(whole)
  BY DEF Recorded, new, stamped, whole
<1> HIDE DEF r
<1>7. /\ r \in Seq(S) /\ Len(r) \in Nat
      /\ Len(r) = IF Len(whole) > MaxBehaviors THEN MaxBehaviors ELSE Len(whole)
      /\ \A i \in 1 .. Len(r) : r[i] = whole[i]
  <2>1. CASE Len(whole) > MaxBehaviors
    <3>1. /\ SubSeq(whole, 1, MaxBehaviors) \in Seq(S)
          /\ Len(SubSeq(whole, 1, MaxBehaviors)) = MaxBehaviors
          /\ \A i \in 1 .. MaxBehaviors : SubSeq(whole, 1, MaxBehaviors)[i] = whole[i]
      BY <1>0, <1>1, <1>5, <2>1, SubSeqProperties
    <3> QED  BY <1>0, <1>6, <2>1, <3>1 DEF Fit
  <2>2. CASE ~ (Len(whole) > MaxBehaviors)
    BY <1>1, <1>5, <1>6, <2>2 DEF Fit
  <2> QED  BY <2>1, <2>2
<1>8. Len(r) <= MaxBehaviors /\ Len(behaviors) <= Len(r)
  BY <1>0, <1>1, <1>5, <1>7
<1>9. \A i \in 1 .. Len(behaviors) : r[i] = behaviors[i]
  BY <1>1, <1>5, <1>7, <1>8
<1>10. ASSUME NEW i \in Len(behaviors) + 1 .. Len(r)
       PROVE  r[i][1] \in found /\ r[i][2] = now
  <2>1. i - Len(behaviors) \in 1 .. Len(new) /\ r[i] = stamped[i - Len(behaviors)]
    BY <1>0, <1>1, <1>5, <1>7
  <2> QED  BY <1>2, <1>3, <2>1
<1>11. ASSUME Len(r) # MaxBehaviors, NEW type \in found
       PROVE  \E i \in 1 .. Len(r) : r[i] = <<type, now>>
  <2>1. PICK k \in 1 .. Len(new) : new[k] = type
    BY <1>2
  <2>2. Len(r) = Len(behaviors) + Len(new)
    BY <1>0, <1>1, <1>5, <1>7, <1>11
  <2>3. Len(behaviors) + k \in 1 .. Len(r) /\ r[Len(behaviors) + k] = stamped[k]
    <3>1. /\ Len(behaviors) + k \in 1 .. Len(r) /\ ~ (Len(behaviors) + k <= Len(behaviors))
          /\ Len(behaviors) + k - Len(behaviors) = k
      BY <1>1, <1>5, <2>2
    <3> QED  BY <1>5, <1>7, <2>2, <3>1
  <2> QED  BY <1>3, <2>1, <2>3
<1>12. AddsTo(r, S, found, now)
  BY <1>7, <1>8, <1>9, <1>10, <1>11 DEF AddsTo
<1> QED  BY <1>12 DEF r

-----------------------------------------------------------------------------
(* Analyses *)

\* What an analysis does when it finds the types in found; Convergent and
\* SpontaneousOptimization may be any.
Effect(p, found) ==
    LET now == system_time + 1 IN
    /\ system_time' = now
    /\ performance_history' = AddSample(performance_history, p)
    /\ module_activity_history' = AddSample(module_activity_history, Len(dynamic_modules))
    /\ last_performance' = p
    /\ CountSteps(p, now)
    /\ "EmergentCooperation" \in found =>
          DetectCooperation(performance_history', module_activity_history', now)
    /\ "PhaseTransition" \in found
          <=> DetectPhase(consecutive_improvements', consecutive_degradations', p, now)
    /\ last_detection' = [type \in Types |-> IF type \in found THEN now ELSE last_detection[type]]
    /\ behaviors' = Recorded(found, now)
    /\ observed' = Append(observed, [performance |-> p, modules |-> Len(dynamic_modules),
                                     prompted |-> self_modifying])
    /\ detections' = detections \cup
          {[type |-> type, time |-> now,
            rise |-> IF type = "EmergentCooperation"
                     THEN now - Len(module_activity_history') + Min(Rises(module_activity_history'))
                     ELSE 0] : type \in found}
    /\ UNCHANGED <<dynamic_modules, self_modifying, switches>>

LEMMA AnalyzeEffect ==
    ASSUME NEW p \in Levels, Analyze(p)
    PROVE  \E found \in SUBSET Types : Effect(p, found)
<1> DEFINE now == system_time + 1
           ph == AddSample(performance_history, p)
           mh == AddSample(module_activity_history, Len(dynamic_modules))
           found == {type \in Types :
              CASE type = "Convergent" -> DetectConvergent(ph, now)
                [] type = "SpontaneousOptimization" -> DetectOptimization(ph, now)
                [] type = "EmergentCooperation" -> DetectCooperation(ph, mh, now)
                [] type = "PhaseTransition" ->
                      DetectPhase(consecutive_improvements', consecutive_degradations', p, now)}
<1>1. "EmergentCooperation" \in found <=> DetectCooperation(ph, mh, now)
  BY DEF Types
<1>2. "PhaseTransition" \in found
        <=> DetectPhase(consecutive_improvements', consecutive_degradations', p, now)
  BY DEF Types
<1>3. /\ system_time' = now
      /\ performance_history' = ph /\ module_activity_history' = mh
      /\ last_performance' = p
      /\ CountSteps(p, now)
      /\ last_detection' = [type \in Types |-> IF type \in found THEN now ELSE last_detection[type]]
      /\ behaviors' = Recorded(found, now)
      /\ observed' = Append(observed, [performance |-> p, modules |-> Len(dynamic_modules),
                                       prompted |-> self_modifying])
      /\ detections' = detections \cup
            {[type |-> type, time |-> now,
              rise |-> IF type = "EmergentCooperation"
                       THEN now - Len(mh) + Min(Rises(mh)) ELSE 0] : type \in found}
      /\ UNCHANGED <<dynamic_modules, self_modifying, switches>>
  BY DEF Analyze
<1>4. found \in SUBSET Types
  OBVIOUS
<1>5. "EmergentCooperation" \in found =>
        DetectCooperation(performance_history', module_activity_history', now)
  BY <1>1, <1>3
<1> HIDE DEF found, ph, mh
<1>6. detections' = detections \cup
          {[type |-> type, time |-> now,
            rise |-> IF type = "EmergentCooperation"
                     THEN now - Len(module_activity_history') + Min(Rises(module_activity_history'))
                     ELSE 0] : type \in found}
  BY <1>3
<1> QED  BY <1>2, <1>3, <1>4, <1>5, <1>6 DEF Effect, ph, mh

\* The histories and what was observed, after an analysis.
LEMMA ObservedOn ==
    ASSUME IInv, NEW p \in Levels, NEW found \in SUBSET Types, Effect(p, found)
    PROVE  /\ observed' \in Seq(Observations)
           /\ Len(observed') = system_time + 1 /\ system_time \in Nat
           /\ \A i \in 1 .. system_time : observed'[i] = observed[i] /\ observed[i] \in Observations
           /\ observed'[system_time + 1].performance = p
           /\ observed'[system_time + 1].modules = Len(dynamic_modules)
           /\ observed'[system_time + 1] \in Observations
<1>1. /\ observed \in Seq(Observations) /\ system_time = Len(observed)
      /\ dynamic_modules \in Seq(Names) /\ self_modifying \in BOOLEAN
  BY DEF IInv, HistoriesTrack, TypeOK
<1> DEFINE o == [performance |-> p, modules |-> Len(dynamic_modules), prompted |-> self_modifying]
<1>2. o \in Observations /\ o.performance = p /\ o.modules = Len(dynamic_modules)
  BY <1>1, LenProperties DEF Observations
<1>3. observed' = Append(observed, o)
  BY DEF Effect
<1> HIDE DEF o
<1>4. /\ observed' \in Seq(Observations)
      /\ Len(observed') = Len(observed) + 1
      /\ \A i \in 1 .. Len(observed) : observed'[i] = observed[i]
      /\ observed'[Len(observed) + 1] = o
  BY <1>1, <1>2, <1>3, AppendProperties
<1> QED  BY <1>1, <1>2, <1>4, LenProperties, ElementOfSeq

LEMMA AnalyzeHistories ==
    ASSUME IInv, NEW p \in Levels, NEW found \in SUBSET Types, Effect(p, found)
    PROVE  /\ HistoriesTrack'
           /\ performance_history' \in Seq(Levels) /\ Len(performance_history') <= Window
           /\ Len(module_activity_history') = Len(performance_history')
           /\ system_time' = Len(observed')
<1> DEFINE ph == AddSample(performance_history, p)
           m == Len(dynamic_modules)
           mh == AddSample(module_activity_history, m)
           n == Len(performance_history)
           gone == Leaving(performance_history)
<1>1. /\ performance_history \in Seq(Levels) /\ n <= Window
      /\ module_activity_history \in Seq(Nat) /\ Len(module_activity_history) = n
      /\ n \in Nat /\ n <= system_time /\ system_time \in Nat
      /\ Len(dynamic_modules) \in Nat
      /\ Leaving(module_activity_history) = gone
  BY LenProperties, ObservedOn DEF IInv, HistoriesTrack, TypeOK, Leaving
<1>2. /\ ph \in Seq(Levels) /\ Len(ph) = n + 1 - gone /\ Len(ph) <= Window
      /\ ph[Len(ph)] = p /\ \A i \in 1 .. Len(ph) - 1 : ph[i] = performance_history[i + gone]
      /\ gone \in {0, 1} /\ gone <= n
  <2>1. performance_history \in Seq(Levels) /\ Len(performance_history) <= Window /\ p \in Levels
    BY <1>1
  <2>2. /\ ph \in Seq(Levels) /\ Len(ph) = n + 1 - gone
    BY <2>1, SampleAdded
  <2>3. /\ Len(ph) <= Window /\ ph[Len(ph)] = p
    BY <2>1, SampleAdded
  <2>4. /\ gone \in {0, 1} /\ gone <= n
    BY <2>1, SampleAdded
  <2>5. \A i \in 1 .. Len(ph) - 1 : ph[i] = performance_history[i + gone]
    BY <2>1, SampleAdded
  <2> QED  BY <2>2, <2>3, <2>4, <2>5
<1>3. /\ mh \in Seq(Nat) /\ Len(mh) = n + 1 - gone
      /\ mh[Len(mh)] = m
      /\ \A i \in 1 .. Len(mh) - 1 : mh[i] = module_activity_history[i + gone]
  <2>1. /\ module_activity_history \in Seq(Nat) /\ Len(module_activity_history) <= Window
        /\ m \in Nat
    BY <1>1
  <2> DEFINE Counted == Nat
  <2>2. module_activity_history \in Seq(Counted) /\ m \in Counted
    BY <2>1
  <2> HIDE DEF m, Counted
  <2>5. /\ mh \in Seq(Counted)
        /\ Len(mh) = Len(module_activity_history) + 1 - Leaving(module_activity_history)
    BY <2>1, <2>2, SampleAdded
  <2>3. mh[Len(mh)] = m
    BY <2>1, <2>2, SampleAdded
  <2>4. \A i \in 1 .. Len(mh) - 1 :
           mh[i] = module_activity_history[i + Leaving(module_activity_history)]
    BY <2>1, <2>2, SampleAdded
  <2> QED  BY <1>1, <2>5, <2>3, <2>4 DEF Counted
<1>4. performance_history' = ph /\ module_activity_history' = mh /\ system_time' = system_time + 1
      /\ last_performance' = p
  BY DEF Effect
<1> HIDE DEF ph, mh, gone
<1>5. ASSUME NEW i \in 1 .. Len(ph)
      PROVE  /\ ph[i] = observed'[system_time + 1 - Len(ph) + i].performance
             /\ mh[i] = observed'[system_time + 1 - Len(ph) + i].modules
  <2>1. CASE i = Len(ph)
    <3>1. system_time + 1 - Len(ph) + i = system_time + 1
      BY <1>1, <1>2, <2>1
    <3> QED  BY <1>1, <1>2, <1>3, <2>1, <3>1, ObservedOn
  <2>2. CASE i # Len(ph)
    <3>1. /\ i \in 1 .. Len(ph) - 1 /\ i + gone \in 1 .. n
          /\ system_time + 1 - Len(ph) + i = system_time - n + (i + gone)
          /\ system_time - n + (i + gone) \in 1 .. system_time
      <4>1. /\ n \in Nat /\ gone \in {0, 1} /\ Len(ph) = n + 1 - gone /\ i \in Int
            /\ 1 <= i /\ i <= Len(ph) - 1 /\ system_time \in Nat /\ n <= system_time
        BY <1>1, <1>2, <2>2
      <4> QED  BY <4>1
    <3>2. /\ performance_history[i + gone] = observed[system_time - n + (i + gone)].performance
          /\ module_activity_history[i + gone] = observed[system_time - n + (i + gone)].modules
      BY <3>1 DEF IInv, HistoriesTrack, Shed
    <3> QED  BY <1>2, <1>3, <3>1, <3>2, ObservedOn
  <2> QED  BY <2>1, <2>2
<1>6. Len(ph) <= system_time + 1
  BY <1>1, <1>2
<1>7. HistoriesTrack'
  <2>1. observed' \in Seq(Observations) /\ Len(performance_history') <= system_time'
    BY <1>4, <1>6, ObservedOn
  <2>2. module_activity_history' \in Seq(Nat)
    BY <1>3, <1>4
  <2>3. last_performance' = observed'[system_time'].performance
    BY <1>4, ObservedOn
  <2>4. ASSUME NEW i \in 1 .. Len(performance_history')
        PROVE  /\ performance_history'[i] = observed'[Shed' + i].performance
               /\ module_activity_history'[i] = observed'[Shed' + i].modules
    <3>1. i \in 1 .. Len(ph)
      BY <1>4
    <3>2. Shed' = system_time + 1 - Len(ph)
      <4>1. Shed' = system_time' - Len(performance_history')
        BY DEF Shed
      <4> QED  BY <1>1, <1>2, <1>4, <4>1
    <3> QED  BY <1>4, <1>5, <3>1, <3>2
  <2> QED  BY <2>1, <2>2, <2>3, <2>4 DEF HistoriesTrack
<1> QED  BY <1>2, <1>3, <1>4, <1>7, ObservedOn

LEMMA CountStepsTyped ==
    ASSUME consecutive_improvements \in Nat, consecutive_degradations \in Nat,
           NEW p, NEW now, CountSteps(p, now)
    PROVE  consecutive_improvements' \in Nat /\ consecutive_degradations' \in Nat
<1>1. CASE now > 1 /\ p > last_performance
  BY <1>1 DEF CountSteps
<1>2. CASE ~ (now > 1 /\ p > last_performance) /\ now > 1 /\ p < last_performance
  BY <1>2 DEF CountSteps
<1>3. CASE ~ (now > 1 /\ p > last_performance) /\ ~ (now > 1 /\ p < last_performance)
  BY <1>3 DEF CountSteps, streaks
<1> QED  BY <1>1, <1>2, <1>3

\* The counters after an analysis.
LEMMA AnalyzeCounters ==
    ASSUME IInv, NEW p \in Levels, NEW found \in SUBSET Types, Effect(p, found)
    PROVE  /\ CountersSummarise'
           /\ Performances' \in [1 .. system_time + 1 -> Int]
           /\ Losses' \in [1 .. system_time + 1 -> Int]
<1> DEFINE t == system_time
<1>1. /\ t \in Nat /\ t' = t + 1 /\ Len(observed) = t /\ Len(observed') = t + 1
      /\ Levels \subseteq Int
  BY ObservedOn, EmergenceAssumption DEF IInv, TypeOK, Effect
<1>2. /\ \A i \in 1 .. t : observed'[i].performance = observed[i].performance
                           /\ observed[i].performance \in Int
      /\ observed'[t + 1].performance = p /\ p \in Int
  BY <1>1, ObservedOn DEF Observations
<1>3. Performances \in [1 .. t -> Int] /\ Losses \in [1 .. t -> Int]
  BY <1>1, <1>2 DEF Performances, Losses
<1>4. Performances' = [i \in 1 .. t + 1 |-> observed'[i].performance]
  BY <1>1 DEF Performances
<1>5. Losses' = [i \in 1 .. t + 1 |-> 0 - observed'[i].performance]
  BY <1>1 DEF Losses
<1>6. \A i \in 1 .. t + 1 : observed'[i].performance \in Int
  BY <1>1, <1>2
<1>7. Performances' \in [1 .. t + 1 -> Int] /\ Losses' \in [1 .. t + 1 -> Int]
  BY <1>4, <1>5, <1>6
<1>8. /\ \A i \in 1 .. t : Performances'[i] = Performances[i] /\ Losses'[i] = Losses[i]
      /\ Performances'[t + 1] = p /\ Losses'[t + 1] = 0 - p
  <2>1. \A i \in 1 .. t : i \in 1 .. t + 1
    BY <1>1
  <2>2. t + 1 \in 1 .. t + 1
    BY <1>1
  <2>3. \A i \in 1 .. t : /\ Performances[i] = observed[i].performance
                          /\ Losses[i] = 0 - observed[i].performance
    BY <1>1 DEF Performances, Losses
  <2> QED  BY <1>2, <1>4, <1>5, <2>1, <2>2, <2>3
<1>9. t > 0 => /\ Performances'[t] = last_performance /\ Losses'[t] = 0 - last_performance
               /\ last_performance \in Int
  <2>1. ASSUME t > 0 PROVE t \in 1 .. t /\ last_performance = observed[t].performance
    BY <1>1, <2>1 DEF IInv, HistoriesTrack
  <2>2. ASSUME t > 0
        PROVE  Performances[t] = observed[t].performance /\ Losses[t] = 0 - observed[t].performance
    BY <1>1, <2>1, <2>2 DEF Performances, Losses
  <2> QED  BY <1>2, <1>8, <2>1, <2>2
<1>10. /\ Counts(Performances, t, consecutive_improvements)
       /\ Counts(Losses, t, consecutive_degradations)
  BY DEF IInv, CountersSummarise
<1>11. /\ t = 0 => Counts(Performances', t + 1, 0) /\ Counts(Losses', t + 1, 0)
       /\ t > 0 /\ p > last_performance =>
             Counts(Performances', t + 1, consecutive_improvements + 1) /\ Counts(Losses', t + 1, 0)
       /\ t > 0 /\ p = last_performance =>
             /\ Counts(Performances', t + 1, consecutive_improvements)
             /\ Counts(Losses', t + 1, consecutive_degradations)
       /\ t > 0 /\ p < last_performance =>
             Counts(Performances', t + 1, 0) /\ Counts(Losses', t + 1, consecutive_degradations + 1)
  <2> DEFINE g == Performances'
             h == Losses'
  <2>1. /\ g \in [1 .. t + 1 -> Int] /\ h \in [1 .. t + 1 -> Int]
        /\ \A i \in 1 .. t : g[i] = Performances[i] /\ h[i] = Losses[i]
        /\ g[t + 1] = p /\ h[t + 1] = 0 - p
        /\ t > 0 => g[t] = last_performance /\ h[t] = 0 - last_performance
    BY <1>7, <1>8, <1>9
  <2> HIDE DEF g, h, t
  <2>2. /\ t = 0 => Counts(g, t + 1, 0)
        /\ t > 0 /\ g[t + 1] > g[t] => Counts(g, t + 1, consecutive_improvements + 1)
        /\ t > 0 /\ g[t + 1] = g[t] => Counts(g, t + 1, consecutive_improvements)
        /\ t > 0 /\ g[t + 1] < g[t] => Counts(g, t + 1, 0)
    BY <1>1, <1>3, <1>10, <2>1, CountOn
  <2>3. /\ t = 0 => Counts(h, t + 1, 0)
        /\ t > 0 /\ h[t + 1] > h[t] => Counts(h, t + 1, consecutive_degradations + 1)
        /\ t > 0 /\ h[t + 1] = h[t] => Counts(h, t + 1, consecutive_degradations)
        /\ t > 0 /\ h[t + 1] < h[t] => Counts(h, t + 1, 0)
    BY <1>1, <1>3, <1>10, <2>1, CountOn
  <2>4. p \in Int /\ (t > 0 => last_performance \in Int)
    BY <1>2, <1>9
  <2> QED  BY <2>1, <2>2, <2>3, <2>4 DEF g, h
<1>12. t = 0 => consecutive_improvements = 0 /\ consecutive_degradations = 0
  BY <1>10 DEF Counts
<1>13. CountSteps(p, t + 1) /\ (t + 1 > 1 <=> t > 0)
  BY <1>1 DEF Effect
<1>14. CASE t > 0 /\ p > last_performance
  BY <1>1, <1>11, <1>13, <1>14, <1>7 DEF CountSteps, CountersSummarise
<1>15. CASE t > 0 /\ p < last_performance
  <2>1. ~ (p > last_performance)
    BY <1>2, <1>9, <1>15
  <2> QED  BY <1>1, <1>11, <1>13, <1>15, <2>1, <1>7 DEF CountSteps, CountersSummarise
<1>16. CASE t = 0 \/ p = last_performance
  <2>1. ~ (t > 0 /\ p > last_performance) /\ ~ (t > 0 /\ p < last_performance)
    BY <1>1, <1>2, <1>9, <1>16
  <2>2. UNCHANGED streaks
    BY <1>13, <2>1 DEF CountSteps
  <2> QED  BY <1>1, <1>11, <1>12, <1>16, <2>2, <1>7 DEF streaks, CountersSummarise
<1>17. t = 0 \/ p = last_performance \/ p > last_performance \/ p < last_performance
  BY <1>1, <1>2, <1>9
<1>18. t = 0 \/ t > 0
  BY <1>1
<1> QED  BY <1>14, <1>15, <1>16, <1>17, <1>18, <1>7

\* The detections after an analysis.
LEMMA AnalyzeCooldowns ==
    ASSUME IInv, NEW p \in Levels, NEW found \in SUBSET Types, Effect(p, found),
           "EmergentCooperation" \in found =>
              (system_time + 1) - Len(module_activity_history') + Min(Rises(module_activity_history'))
                 \in Nat
    PROVE  /\ CooldownsCount' /\ last_detection' \in [Types -> 0 .. system_time + 1]
           /\ \A type \in Types :
                 Times(type)' = Times(type) \cup (IF type \in found THEN {system_time + 1} ELSE {})
           /\ \A type \in Types : Times(type) \subseteq 1 .. system_time
<1> DEFINE now == system_time + 1
           place == now - Len(module_activity_history') + Min(Rises(module_activity_history'))
           rise(type) == IF type = "EmergentCooperation" THEN place ELSE 0
           new == {[type |-> type, time |-> now, rise |-> rise(type)] : type \in found}
<1>1. /\ system_time \in Nat /\ system_time' = now
      /\ detections' = detections \cup new
      /\ last_detection' = [type \in Types |-> IF type \in found THEN now ELSE last_detection[type]]
  BY ObservedOn DEF Effect
<1>2. /\ detections \subseteq [type : Types, time : 1 .. system_time, rise : Nat]
      /\ last_detection \in [Types -> 0 .. system_time]
  BY DEF IInv, CooldownsCount, TypeOK
<1>place. "EmergentCooperation" \in found => place \in Nat
  OBVIOUS
<1> HIDE DEF place
<1>3. ASSUME NEW type \in found PROVE rise(type) \in Nat
  <2>1. CASE type = "EmergentCooperation"
    BY <1>place, <2>1
  <2>2. CASE type # "EmergentCooperation"
    BY <2>2
  <2> QED  BY <2>1, <2>2
<1> HIDE DEF rise
<1>4. new \subseteq [type : Types, time : 1 .. now, rise : Nat]
  BY <1>1, <1>3
<1>5. detections' \subseteq [type : Types, time : 1 .. now, rise : Nat]
  <2>1. 1 .. system_time \subseteq 1 .. now
    BY <1>1
  <2> QED  BY <1>1, <1>2, <1>4, <2>1
<1>6. last_detection' \in [Types -> 0 .. now]
  BY <1>1, <1>2
<1>7. ASSUME NEW type \in Types PROVE Times(type) \subseteq 1 .. system_time
  BY <1>2 DEF Times
<1>8. ASSUME NEW type \in Types
      PROVE  Times(type)' = Times(type) \cup (IF type \in found THEN {now} ELSE {})
  <2>1. Times(type)' = {d.time : d \in {e \in detections' : e.type = type}}
    BY DEF Times
  <2>2. \A e \in new : e.type \in found /\ e.time = now
    OBVIOUS
  <2>3. Times(type)' \subseteq Times(type) \cup (IF type \in found THEN {now} ELSE {})
    BY <1>1, <2>1, <2>2 DEF Times
  <2>4. Times(type) \subseteq Times(type)'
    BY <1>1, <2>1 DEF Times
  <2>5. ASSUME type \in found PROVE now \in Times(type)'
    <3>1. [type |-> type, time |-> now, rise |-> rise(type)] \in detections'
      BY <1>1, <2>5
    <3> QED  BY <2>1, <3>1
  <2> QED  BY <2>3, <2>4, <2>5
<1>9. ASSUME NEW type \in Types
      PROVE  /\ last_detection'[type] \in Times(type)' \cup {0}
             /\ \A s \in Times(type)' : s <= last_detection'[type]
  <2>1. /\ last_detection[type] \in Times(type) \cup {0}
        /\ \A s \in Times(type) : s <= last_detection[type]
    BY DEF IInv, CooldownsCount
  <2>2. CASE type \in found
    BY <1>1, <1>7, <1>8, <2>2
  <2>3. CASE type \notin found
    BY <1>1, <1>8, <2>1, <2>3
  <2> QED  BY <2>2, <2>3
<1>10. CooldownsCount'
  <2>1. detections' \subseteq [type : Types, time : 1 .. system_time', rise : Nat]
    BY <1>1, <1>5
  <2> QED  BY <1>9, <2>1 DEF CooldownsCount
<1> QED  BY <1>6, <1>7, <1>8, <1>10

\* Climbed and Sank, of any observations, are long runs of the performances and
\* of what is missing of them.
ClimbedIn(o, t) ==
    \E s \in 1 .. t :
        /\ \A i \in s + 1 .. t : o[i].performance >= o[i - 1].performance
        /\ Cardinality({i \in s + 1 .. t : o[i].performance > o[i - 1].performance}) >= Streak
SankIn(o, t) ==
    \E s \in 1 .. t :
        /\ \A i \in s + 1 .. t : o[i].performance <= o[i - 1].performance
        /\ Cardinality({i \in s + 1 .. t : o[i].performance < o[i - 1].performance}) >= Streak

LEMMA RunsObserved ==
    ASSUME NEW o, NEW t \in Nat, NEW f,
           \A i \in 1 .. t : o[i].performance \in Int
    PROVE  /\ (\A i \in 1 .. t : f[i] = o[i].performance) => (ClimbedIn(o, t) <=> LongRun(f, t))
           /\ (\A i \in 1 .. t : f[i] = 0 - o[i].performance) => (SankIn(o, t) <=> LongRun(f, t))
<1>1. ASSUME NEW s \in 1 .. t, NEW i \in s + 1 .. t PROVE i \in 1 .. t /\ i - 1 \in 1 .. t
  OBVIOUS
<1>2. ASSUME \A i \in 1 .. t : f[i] = o[i].performance
      PROVE  ClimbedIn(o, t) <=> LongRun(f, t)
  <2>1. ASSUME NEW s \in 1 .. t
        PROVE  /\ (\A i \in s + 1 .. t : o[i].performance >= o[i - 1].performance) <=> Since(f, s, t)
               /\ {i \in s + 1 .. t : o[i].performance > o[i - 1].performance} = RisesOf(f, s, t)
    BY <1>1, <1>2 DEF Since, RisesOf
  <2> QED  BY <2>1 DEF ClimbedIn, LongRun
<1>3. ASSUME \A i \in 1 .. t : f[i] = 0 - o[i].performance
      PROVE  SankIn(o, t) <=> LongRun(f, t)
  <2>1. ASSUME NEW s \in 1 .. t
        PROVE  /\ (\A i \in s + 1 .. t : o[i].performance <= o[i - 1].performance) <=> Since(f, s, t)
               /\ {i \in s + 1 .. t : o[i].performance < o[i - 1].performance} = RisesOf(f, s, t)
    BY <1>1, <1>3 DEF Since, RisesOf
  <2> QED  BY <2>1 DEF SankIn, LongRun
<1> QED  BY <1>2, <1>3

\* A phase transition is reported exactly when there is one.
LEMMA AnalyzePhase ==
    ASSUME IInv, NEW p \in Levels, NEW found \in SUBSET Types, Effect(p, found),
           CooldownsCount',
           \A type \in Types :
              Times(type)' = Times(type) \cup (IF type \in found THEN {system_time + 1} ELSE {}),
           \A type \in Types : Times(type) \subseteq 1 .. system_time
    PROVE  PhaseTransitionsExact'
<1> DEFINE now == system_time + 1
           last == last_detection["PhaseTransition"]
           reported == Times("PhaseTransition")
           need == Cooldown["PhaseTransition"]
<1>1. /\ system_time \in Nat /\ system_time' = now /\ Len(observed) = system_time
      /\ observed \in Seq(Observations) /\ observed' \in Seq(Observations)
      /\ Len(observed') = now /\ Levels \subseteq Int
      /\ \A i \in 1 .. system_time : observed'[i] = observed[i]
      /\ observed'[now].performance = p
  <2>1. /\ observed' \in Seq(Observations) /\ Len(observed') = now /\ system_time \in Nat
        /\ \A i \in 1 .. system_time : observed'[i] = observed[i]
        /\ observed'[now].performance = p
    BY ObservedOn
  <2>2. system_time' = now
    BY DEF Effect
  <2>3. observed \in Seq(Observations) /\ Len(observed) = system_time
    BY DEF IInv, TypeOK, HistoriesTrack
  <2>4. Levels \subseteq Int
    BY EmergenceAssumption
  <2> QED  BY <2>1, <2>2, <2>3, <2>4
<1>2. DOMAIN observed' = 1 .. now /\ DOMAIN observed = 1 .. system_time
  BY <1>1, LenProperties
<1>3. "PhaseTransition" \in Types /\ need \in Nat \ {0}
  BY EmergenceAssumption DEF Types
<1>4. reported' = reported \cup (IF "PhaseTransition" \in found THEN {now} ELSE {})
      /\ reported \subseteq 1 .. system_time
  BY <1>3
<1>5. ASSUME NEW t \in 1 .. system_time
      PROVE  Shift(t)' <=> Shift(t)
  <2>1. \A i \in 1 .. t : /\ Performances[i] = observed[i].performance
                          /\ Performances[i] = observed'[i].performance
                          /\ Losses[i] = 0 - observed[i].performance
                          /\ Losses[i] = 0 - observed'[i].performance
    BY <1>1 DEF Performances, Losses
  <2>2. \A i \in 1 .. t : observed[i].performance \in Int /\ observed'[i].performance \in Int
    <3>1. \A i \in 1 .. t : i \in 1 .. system_time
      BY <1>1
    <3>2. \A i \in 1 .. t : observed[i] \in Observations /\ observed'[i] = observed[i]
      BY <3>1, ObservedOn
    <3>3. \A o \in Observations : o.performance \in Int
      BY <1>1 DEF Observations
    <3> QED  BY <3>2, <3>3
  <2>3. ClimbedIn(observed', t) <=> ClimbedIn(observed, t)
    <3>1. ClimbedIn(observed, t) <=> LongRun(Performances, t)
      BY <1>1, <2>1, <2>2, RunsObserved
    <3>2. ClimbedIn(observed', t) <=> LongRun(Performances, t)
      BY <1>1, <2>1, <2>2, RunsObserved
    <3> QED  BY <3>1, <3>2
  <2>4. SankIn(observed', t) <=> SankIn(observed, t)
    <3>1. SankIn(observed, t) <=> LongRun(Losses, t)
      BY <1>1, <2>1, <2>2, RunsObserved
    <3>2. SankIn(observed', t) <=> LongRun(Losses, t)
      BY <1>1, <2>1, <2>2, RunsObserved
    <3> QED  BY <3>1, <3>2
  <2>5. Shift(t)' <=> \/ ClimbedIn(observed', t) /\ observed'[t].performance > 80
                      \/ SankIn(observed', t) /\ observed'[t].performance < 30
    BY DEF Shift, Climbed, Sank, ClimbedIn, SankIn
  <2>6. Shift(t) <=> \/ ClimbedIn(observed, t) /\ observed[t].performance > 80
                     \/ SankIn(observed, t) /\ observed[t].performance < 30
    BY DEF Shift, Climbed, Sank, ClimbedIn, SankIn
  <2> QED  BY <1>1, <2>3, <2>4, <2>5, <2>6
<1>6. /\ ClimbedIn(observed', now) <=> consecutive_improvements' >= Streak
      /\ SankIn(observed', now) <=> consecutive_degradations' >= Streak
  <2> DEFINE g == Performances'
             h == Losses'
  <2>1. /\ g \in [1 .. now -> Int] /\ h \in [1 .. now -> Int] /\ now \in Nat
        /\ Counts(g, now, consecutive_improvements') /\ Counts(h, now, consecutive_degradations')
    BY <1>1, AnalyzeCounters DEF CountersSummarise
  <2>2. \A i \in 1 .. now : g[i] = observed'[i].performance /\ h[i] = 0 - observed'[i].performance
                            /\ observed'[i].performance \in Int
    <3>1. \A i \in 1 .. now : observed'[i].performance \in Int
      <4>1. \A i \in 1 .. now : observed'[i] \in Observations
        BY <1>1, ElementOfSeq
      <4>2. \A o \in Observations : o.performance \in Int
        BY <1>1 DEF Observations
      <4> QED  BY <4>1, <4>2
    <3> QED  BY <1>1, <3>1 DEF Performances, Losses
  <2> HIDE DEF g, h, now
  <2>3. /\ LongRun(g, now) <=> consecutive_improvements' >= Streak
        /\ LongRun(h, now) <=> consecutive_degradations' >= Streak
    BY <2>1, CountTells
  <2> QED  BY <2>1, <2>2, <2>3, RunsObserved
<1>7. ASSUME NEW n \in Nat, n = now
      PROVE  Shift(n)' <=> \/ consecutive_improvements' >= Streak /\ p > 80
                           \/ consecutive_degradations' >= Streak /\ p < 30
  <2>1. Shift(n)' <=> \/ ClimbedIn(observed', n) /\ observed'[n].performance > 80
                      \/ SankIn(observed', n) /\ observed'[n].performance < 30
    BY DEF Shift, Climbed, Sank, ClimbedIn, SankIn
  <2> QED  BY <1>1, <1>6, <1>7, <2>1
<1>8. "PhaseTransition" \in found <=>
         /\ \/ consecutive_improvements' >= Streak /\ p > 80
            \/ consecutive_degradations' >= Streak /\ p < 30
         /\ now - last >= need
  BY DEF Effect, DetectPhase, Cooled
<1>9. last \in reported \cup {0} /\ \A s \in reported : s <= last
  BY <1>3 DEF IInv, CooldownsCount
<1>10. now - last >= need <=> \A s \in reported \cup {0} : now - s >= need
  BY <1>1, <1>3, <1>4, <1>9
<1>11. \A s \in reported \cup {0} : s < now
  BY <1>1, <1>4
<1>12. now \in reported' <=> "PhaseTransition" \in found
  BY <1>1, <1>4
<1>13. ASSUME NEW t \in 1 .. now
       PROVE  (t \in Times("PhaseTransition"))' <=>
                 /\ Shift(t)'
                 /\ \A s \in Times("PhaseTransition")' \cup {0} : s < t => t - s >= need
  <2>1. CASE t = now
    <3>1. \A s \in reported' \cup {0} : s < now <=> s \in reported \cup {0}
      BY <1>1, <1>4, <1>11
    <3>2. Shift(t)' <=> \/ consecutive_improvements' >= Streak /\ p > 80
                        \/ consecutive_degradations' >= Streak /\ p < 30
      BY <1>1, <1>7, <2>1
    <3>3. (\A s \in reported' \cup {0} : s < t => t - s >= need) <=> now - last >= need
      <4>1. \A s \in reported \cup {0} : s \in reported' \cup {0} /\ s < t
        BY <1>4, <1>11, <2>1
      <4>2. \A s \in reported' \cup {0} : s < t => s \in reported \cup {0}
        BY <2>1, <3>1
      <4>3. (\A s \in reported \cup {0} : t - s >= need) <=> now - last >= need
        BY <1>10, <2>1
      <4> HIDE DEF reported, last, need, now
      <4> QED  BY <4>1, <4>2, <4>3
    <3>4. t \in reported' <=> "PhaseTransition" \in found
      BY <1>12, <2>1
    <3> QED  BY <1>8, <3>2, <3>3, <3>4
  <2>2. CASE t # now
    <3>1. t \in 1 .. system_time /\ t < now
      BY <1>1, <2>2
    <3>2. t \in reported <=> /\ Shift(t)
                             /\ \A s \in reported \cup {0} : s < t => t - s >= need
      BY <1>2, <3>1 DEF IInv, PhaseTransitionsExact
    <3>3. t \in reported' <=> t \in reported
      BY <1>4, <3>1
    <3>4. \A s \in reported' \cup {0} : s < t => s \in reported \cup {0}
      BY <1>1, <1>4, <3>1
    <3>5. \A s \in reported \cup {0} : s \in reported' \cup {0}
      BY <1>4
    <3> QED  BY <1>5, <3>1, <3>2, <3>3, <3>4, <3>5
  <2> QED  BY <2>1, <2>2
<1> HIDE DEF reported, need, last
<1> QED  BY <1>2, <1>13 DEF PhaseTransitionsExact, need

\* Cooperation is reported for a module that was added as performance rose, and
\* for each once: what is new in the histories has left them when the cooldown
\* is over.
LEMMA AnalyzeCooperation ==
    ASSUME IInv, NEW p \in Levels, NEW found \in SUBSET Types, Effect(p, found)
    PROVE  /\ "EmergentCooperation" \in found =>
                 (system_time + 1) - Len(module_activity_history')
                    + Min(Rises(module_activity_history')) \in Nat
           /\ CooperationOnce' /\ RisesArePast'
<1> DEFINE now == system_time + 1
           ph == performance_history'
           mh == module_activity_history'
           least == Min(Rises(mh))
           place == now - Len(mh) + least
           Cooperations == {d \in detections : d.type = "EmergentCooperation"}
<1>1. /\ system_time \in Nat /\ system_time' = now
      /\ observed' \in Seq(Observations) /\ Len(observed') = now
      /\ \A i \in 1 .. system_time : observed'[i] = observed[i]
      /\ Len(observed) = system_time
  <2>1. /\ system_time \in Nat /\ observed' \in Seq(Observations) /\ Len(observed') = now
        /\ \A i \in 1 .. system_time : observed'[i] = observed[i]
    BY ObservedOn
  <2>2. system_time' = now
    BY DEF Effect
  <2>3. Len(observed) = system_time
    BY DEF IInv, TypeOK
  <2> QED  BY <2>1, <2>2, <2>3
<1>2. /\ Len(mh) \in Nat /\ Len(ph) = Len(mh) /\ Len(mh) <= now
      /\ mh \in Seq(Nat) /\ ph \in Seq(Levels)
      /\ \A i \in 1 .. Len(mh) : /\ ph[i] = observed'[(now - Len(mh)) + i].performance
                                 /\ mh[i] = observed'[(now - Len(mh)) + i].modules
  <2>1. /\ HistoriesTrack' /\ Len(mh) = Len(ph) /\ ph \in Seq(Levels)
    BY AnalyzeHistories
  <2>2. Shed' = now - Len(ph)
    BY <1>1 DEF Shed
  <2> QED  BY <1>1, <2>1, <2>2, LenProperties DEF HistoriesTrack
<1>3. "EmergentCooperation" \in found =>
        /\ Len(mh) >= RecentSamples
        /\ now - last_detection["EmergentCooperation"] >= Cooldown["EmergentCooperation"]
        /\ Rises(mh) # {}
        /\ ph[least] - ph[least - 1] > 10
  BY DEF Effect, DetectCooperation, Cooled
<1>4. /\ RecentSamples \in Nat /\ "EmergentCooperation" \in Types
      /\ Cooldown["EmergentCooperation"] \in Nat \ {0}
      /\ RecentSamples - 1 <= Cooldown["EmergentCooperation"]
  BY EmergenceAssumption DEF Types
<1>5. ASSUME "EmergentCooperation" \in found
      PROVE  /\ least \in 2 .. Len(mh) /\ least > Len(mh) - RecentSamples + 1
             /\ mh[least] > mh[least - 1]
  <2> DEFINE first == IF Len(mh) > RecentSamples THEN Len(mh) - RecentSamples + 1 ELSE 1
  <2>1. Rises(mh) = {i \in first + 1 .. Len(mh) : mh[i] > mh[i - 1]}
    BY DEF Rises
  <2>2. first \in Nat \ {0} /\ first >= (Len(mh) - RecentSamples) + 1
    BY <1>2, <1>3, <1>4, <1>5
  <2> HIDE DEF first
  <2>3. Rises(mh) \in SUBSET Nat
    BY <1>2, <2>1, <2>2
  <2>4. least \in Rises(mh)
    BY <1>3, <1>5, <2>3, MinOfNumbers
  <2> HIDE DEF least
  <2> QED  BY <1>2, <1>4, <2>1, <2>2, <2>4
<1> HIDE DEF least
<1>6. ASSUME "EmergentCooperation" \in found
      PROVE  /\ place \in 2 .. now /\ place > now - RecentSamples + 1
             /\ observed'[place].modules > observed'[place - 1].modules
             /\ observed'[place].performance > observed'[place - 1].performance + 10
  <2>5. /\ now \in Nat /\ Len(mh) \in Nat /\ Len(mh) <= now /\ RecentSamples \in Nat
        /\ least \in 2 .. Len(mh) /\ least > Len(mh) - RecentSamples + 1
    BY <1>1, <1>2, <1>4, <1>5, <1>6
  <2>1. /\ least \in Nat /\ least \in 1 .. Len(mh) /\ least - 1 \in 1 .. Len(mh)
        /\ place \in Nat /\ place - 1 = (now - Len(mh)) + (least - 1)
    BY <2>5
  <2>2. place \in 2 .. now /\ place > now - RecentSamples + 1
    BY <2>5
  <2>3. /\ ph[least] = observed'[place].performance /\ ph[least - 1] = observed'[place - 1].performance
        /\ mh[least] = observed'[place].modules /\ mh[least - 1] = observed'[place - 1].modules
    BY <1>2, <2>1
  <2>4. ph[least] \in Int /\ ph[least - 1] \in Int
    <3>1. Levels \subseteq Int
      BY EmergenceAssumption
    <3> QED  BY <1>2, <2>1, <3>1, ElementOfSeq
  <2> QED  BY <1>3, <1>5, <1>6, <2>2, <2>3, <2>4
<1>7. "EmergentCooperation" \in found => place \in Nat
  BY <1>1, <1>6
<1>8. /\ detections \subseteq [type : Types, time : 1 .. system_time, rise : Nat]
      /\ \A d \in Cooperations : d.time <= last_detection["EmergentCooperation"]
      /\ last_detection["EmergentCooperation"] \in 0 .. system_time
  BY <1>4 DEF IInv, CooldownsCount, Times, TypeOK
<1>9. \A d \in Cooperations :
         /\ d.rise \in 2 .. system_time /\ d.rise <= d.time
         /\ observed[d.rise].modules > observed[d.rise - 1].modules
         /\ observed[d.rise].performance > observed[d.rise - 1].performance + 10
         /\ \A e \in Cooperations : e.rise = d.rise => e = d
  BY <1>1 DEF IInv, CooperationOnce, RisesArePast
<1> DEFINE fresh == [type |-> "EmergentCooperation", time |-> now, rise |-> place]
<1>10. {d \in detections' : d.type = "EmergentCooperation"}
         = Cooperations \cup (IF "EmergentCooperation" \in found THEN {fresh} ELSE {})
  <2> DEFINE new == {[type |-> type, time |-> now,
                      rise |-> IF type = "EmergentCooperation" THEN place ELSE 0] : type \in found}
  <2>1. detections' = detections \cup new
    BY DEF Effect, least
  <2>2. {d \in new : d.type = "EmergentCooperation"}
          = IF "EmergentCooperation" \in found THEN {fresh} ELSE {}
    <3> HIDE DEF place, now
    <3>1. ASSUME NEW d \in new, d.type = "EmergentCooperation"
          PROVE  d = fresh /\ "EmergentCooperation" \in found
      <4>1. PICK type \in found : d = [type |-> type, time |-> now,
                      rise |-> IF type = "EmergentCooperation" THEN place ELSE 0]
        OBVIOUS
      <4>2. type = "EmergentCooperation"
        BY <3>1, <4>1
      <4> QED  BY <4>1, <4>2
    <3>2. "EmergentCooperation" \in found => fresh \in new /\ fresh.type = "EmergentCooperation"
      OBVIOUS
    <3> HIDE DEF new, fresh
    <3> QED  BY <3>1, <3>2
  <2> HIDE DEF new, fresh
  <2> QED  BY <2>1, <2>2
<1> HIDE DEF place
<1>11. ASSUME NEW d \in Cooperations, "EmergentCooperation" \in found PROVE d.rise < place
  <2>1. d.rise \in Nat /\ d.rise <= last_detection["EmergentCooperation"]
    BY <1>8, <1>9
  <2> DEFINE last == last_detection["EmergentCooperation"]
             need == Cooldown["EmergentCooperation"]
  <2>2. /\ now \in Nat /\ need \in Nat /\ RecentSamples \in Nat /\ last \in Nat /\ place \in Nat
        /\ now - last >= need /\ RecentSamples - 1 <= need /\ place > now - RecentSamples + 1
    <3>1. now \in Nat /\ last \in Nat
      BY <1>1, <1>8
    <3>2. need \in Nat /\ RecentSamples \in Nat /\ RecentSamples - 1 <= need
      BY <1>4
    <3>3. place \in Nat /\ place > now - RecentSamples + 1
      BY <1>6, <1>7, <1>11
    <3>4. now - last >= need
      BY <1>3, <1>11
    <3> QED  BY <3>1, <3>2, <3>3, <3>4
  <2>3. d.rise <= last
    BY <2>1
  <2> HIDE DEF last, need, now
  <2> QED  BY <2>1, <2>2, <2>3
<1>12. ASSUME NEW d \in detections', d.type = "EmergentCooperation"
       PROVE  /\ d.rise \in 2 .. now /\ d.rise <= d.time
              /\ observed'[d.rise].modules > observed'[d.rise - 1].modules
              /\ observed'[d.rise].performance > observed'[d.rise - 1].performance + 10
              /\ \A e \in detections' : e.type = d.type /\ e.rise = d.rise => e = d
  <2>1. d \in Cooperations \/ ("EmergentCooperation" \in found /\ d = fresh)
    BY <1>10, <1>12
  <2>2. \A e \in detections' : e.type = d.type =>
           e \in Cooperations \/ ("EmergentCooperation" \in found /\ e = fresh)
    BY <1>10, <1>12
  <2>3. fresh.rise = place /\ fresh.time = now
    OBVIOUS
  <2> HIDE DEF fresh, Cooperations
  <2>4. CASE d \in Cooperations
    <3>1. d.rise \in 1 .. system_time /\ d.rise - 1 \in 1 .. system_time /\ d.rise \in 2 .. now
      BY <1>1, <1>9, <2>4
    <3>2. \A e \in detections' : e.type = d.type /\ e.rise = d.rise => e = d
      BY <1>6, <1>9, <1>11, <2>2, <2>3, <2>4, <3>1
    <3> QED  BY <1>1, <1>9, <2>4, <3>1, <3>2
  <2>5. CASE "EmergentCooperation" \in found /\ d = fresh
    <3>1. \A e \in detections' : e.type = d.type /\ e.rise = d.rise => e = d
      BY <1>6, <1>9, <1>11, <2>2, <2>3, <2>5
    <3> QED  BY <1>1, <1>6, <2>3, <2>5, <3>1
  <2> QED  BY <2>1, <2>4, <2>5
<1>13. CooperationOnce' /\ RisesArePast'
  BY <1>1, <1>12 DEF CooperationOnce, RisesArePast
<1> QED  BY <1>7, <1>13 DEF place, least

\* Times, of any detections.
TimesIn(reported, type) == {d.time : d \in {e \in reported : e.type = type}}

\* The records stay the first detections.
LEMMA AnalyzeRecords ==
    ASSUME IInv, NEW p \in Levels, NEW found \in SUBSET Types, Effect(p, found),
           CooldownsCount',
           \A type \in Types :
              Times(type)' = Times(type) \cup (IF type \in found THEN {system_time + 1} ELSE {})
    PROVE  /\ RecordsAreFirst'
           /\ behaviors' \in Seq(Types \X (1 .. system_time + 1)) /\ Len(behaviors') <= MaxBehaviors
<1> DEFINE now == system_time + 1
           S == Types \X (1 .. now)
           r == behaviors'
<1>0. \A type \in Types :
         /\ TimesIn(detections', type)
               = Times(type) \cup (IF type \in found THEN {now} ELSE {})
         /\ TimesIn(detections', type) = Times(type)'
  BY DEF Times, TimesIn
<1>1. /\ system_time \in Nat /\ system_time' = now /\ r = Recorded(found, now)
  BY ObservedOn DEF Effect
<1>2. /\ behaviors \in Seq(Types \X (1 .. system_time)) /\ Len(behaviors) <= MaxBehaviors
      /\ Len(behaviors) \in Nat /\ DOMAIN behaviors = 1 .. Len(behaviors)
  BY LenProperties DEF IInv, TypeOK
<1>3. behaviors \in Seq(S) /\ Types \X {now} \subseteq S
  <2>1. Types \X (1 .. system_time) \subseteq S
    BY <1>1
  <2>2. Types \X {now} \subseteq S
    BY <1>1
  <2> QED  BY <1>2, <2>1, <2>2, SeqMonotonic
<1> HIDE DEF S
<1>4. /\ r \in Seq(S) /\ Len(r) <= MaxBehaviors /\ Len(behaviors) <= Len(r)
      /\ \A i \in 1 .. Len(behaviors) : r[i] = behaviors[i]
      /\ \A i \in Len(behaviors) + 1 .. Len(r) : r[i][1] \in found /\ r[i][2] = now
      /\ \/ Len(r) = MaxBehaviors
         \/ \A type \in found : \E i \in 1 .. Len(r) : r[i] = <<type, now>>
  <2>1. now \in Nat
    BY <1>1
  <2> HIDE DEF r, now
  <2>2. /\ behaviors \in Seq(S) /\ Len(behaviors) <= MaxBehaviors
        /\ Types \X {now} \subseteq S /\ r = Recorded(found, now) /\ found \in SUBSET Types
    BY <1>1, <1>2, <1>3
  <2>3. AddsTo(Recorded(found, now), S, found, now)
    BY <2>1, <2>2, RecordedElements
  <2>4. AddsTo(r, S, found, now)
    BY <2>2, <2>3
  <2> QED  BY <2>4 DEF AddsTo
<1>5. DOMAIN r = 1 .. Len(r) /\ Len(r) \in Nat /\ MaxBehaviors \in Nat
  BY <1>4, LenProperties, EmergenceAssumption
<1>6. \A i \in 1 .. Len(r) : i \in 1 .. Len(behaviors) \/ i \in Len(behaviors) + 1 .. Len(r)
  BY <1>2, <1>5
<1>7. ASSUME NEW i \in 1 .. Len(r) PROVE r[i][2] \in TimesIn(detections', r[i][1]) /\ r[i][2] <= now
  <2>1. CASE i \in 1 .. Len(behaviors)
    <3>1. /\ r[i] = behaviors[i] /\ behaviors[i][1] \in Types /\ behaviors[i][2] \in 1 .. system_time
      BY <1>2, <1>4, <2>1, ElementOfSeq
    <3>2. behaviors[i][2] \in Times(behaviors[i][1])
      BY <1>2, <2>1 DEF IInv, RecordsAreFirst
    <3>3. behaviors[i][2] \in TimesIn(detections', behaviors[i][1])
      BY <1>0, <3>1, <3>2
    <3>4. behaviors[i][2] <= now
      BY <1>1, <3>1
    <3> HIDE DEF now
    <3> QED  BY <3>1, <3>3, <3>4
  <2>2. CASE i \in Len(behaviors) + 1 .. Len(r)
    <3>1. r[i][1] \in found /\ r[i][1] \in Types /\ r[i][2] = now
      BY <1>4, <2>2
    <3>2. now \in TimesIn(detections', r[i][1])
      BY <1>0, <3>1
    <3> QED  BY <1>1, <3>1, <3>2
  <2> QED  BY <1>6, <2>1, <2>2
<1>8. ASSUME NEW d \in detections'
      PROVE  \/ \E i \in 1 .. Len(r) : r[i] = <<d.type, d.time>>
             \/ Len(r) = MaxBehaviors /\ \A i \in 1 .. Len(r) : r[i][2] <= d.time
  <2>1. d \in detections \/ (d.type \in found /\ d.time = now)
    BY DEF Effect
  <2>2. CASE d \in detections
    <3>1. CASE \E i \in DOMAIN behaviors : behaviors[i] = <<d.type, d.time>>
      <4>1. PICK i \in 1 .. Len(behaviors) : behaviors[i] = <<d.type, d.time>>
        BY <1>2, <3>1
      <4>2. i \in 1 .. Len(r)
        BY <1>2, <1>4, <1>5
      <4> QED  BY <1>4, <4>1, <4>2
    <3>2. CASE /\ Len(behaviors) = MaxBehaviors
               /\ \A i \in DOMAIN behaviors : behaviors[i][2] <= d.time
      <4>1. Len(r) = Len(behaviors)
        <5>1. Len(r) <= MaxBehaviors /\ Len(behaviors) <= Len(r)
          BY <1>4
        <5>2. Len(r) \in Nat /\ MaxBehaviors \in Nat /\ Len(behaviors) = MaxBehaviors
          BY <1>5, <3>2
        <5> QED  BY <5>1, <5>2
      <4> QED  BY <1>2, <1>4, <3>2, <4>1
    <3>3. \/ \E i \in DOMAIN behaviors : behaviors[i] = <<d.type, d.time>>
          \/ /\ Len(behaviors) = MaxBehaviors
             /\ \A i \in DOMAIN behaviors : behaviors[i][2] <= d.time
      BY <2>2 DEF IInv, RecordsAreFirst
    <3> QED  BY <3>1, <3>2, <3>3
  <2>3. CASE d.type \in found /\ d.time = now
    BY <1>4, <1>7, <2>3
  <2> QED  BY <2>1, <2>2, <2>3
<1>9. RecordsAreFirst'
  <2>1. RecordsAreFirst' <=>
          /\ \A i \in DOMAIN behaviors' : behaviors'[i][2] \in TimesIn(detections', behaviors'[i][1])
          /\ \A d \in detections' :
                \/ \E i \in DOMAIN behaviors' : behaviors'[i] = <<d.type, d.time>>
                \/ /\ Len(behaviors') = MaxBehaviors
                   /\ \A i \in DOMAIN behaviors' : behaviors'[i][2] <= d.time
    BY DEF RecordsAreFirst, Times, TimesIn
  <2> QED  BY <1>5, <1>7, <1>8, <2>1
<1> QED  BY <1>4, <1>9 DEF S

-----------------------------------------------------------------------------
(* All steps *)

LEMMA InitIInv == Init => IInv
<1> SUFFICES ASSUME Init PROVE IInv
  OBVIOUS
<1>1. \A S : <<>> \in Seq(S) /\ Len(<<>>) = 0 /\ DOMAIN <<>> = {}
  BY EmptySeq, LenProperties
<1>2. \A type \in Types : Times(type) = {}
  BY DEF Init, Times
<1>3. MaxModules \in Nat /\ Window \in Nat /\ MaxBehaviors \in Nat
  BY EmergenceAssumption
<1>4. TypeOK
  BY <1>1, <1>3 DEF Init, TypeOK
<1>5. HistoriesTrack
  BY <1>1 DEF Init, HistoriesTrack
<1>6. CountersSummarise
  BY DEF Init, CountersSummarise, Counts
<1>7. CooldownsCount
  BY <1>2 DEF Init, CooldownsCount
<1>8. CooperationOnce /\ RisesArePast /\ RecordsAreFirst
  BY <1>1 DEF Init, CooperationOnce, RisesArePast, RecordsAreFirst
<1>9. PhaseTransitionsExact
  BY <1>1 DEF Init, PhaseTransitionsExact
<1> QED  BY <1>4, <1>5, <1>6, <1>7, <1>8, <1>9 DEF IInv

\* A change of the module table or of the flags concerns the next analysis.
LEMMA AnalyserKept ==
    ASSUME IInv, UNCHANGED <<analyzer, history>>,
           dynamic_modules' \in Seq(Names), Len(dynamic_modules') <= MaxModules,
           self_modifying' \in BOOLEAN
    PROVE  IInv'
<1>1. TypeOK'
  BY DEF IInv, TypeOK, analyzer, history, streaks
<1>2. HistoriesTrack'
  BY DEF IInv, HistoriesTrack, Shed, analyzer, history
<1>3. CountersSummarise'
  <2>1. /\ observed' = observed /\ system_time' = system_time
        /\ consecutive_improvements' = consecutive_improvements
        /\ consecutive_degradations' = consecutive_degradations
    BY DEF analyzer, history, streaks
  <2>2. Performances' = Performances /\ Losses' = Losses
    BY <2>1 DEF Performances, Losses
  <2>3. CountersSummarise' <=> /\ Counts(Performances', system_time', consecutive_improvements')
                               /\ Counts(Losses', system_time', consecutive_degradations')
    BY DEF CountersSummarise, Counts, Since, RisesOf
  <2> QED  BY <2>1, <2>2, <2>3 DEF IInv, CountersSummarise
<1>4. CooldownsCount' /\ CooperationOnce' /\ RisesArePast' /\ RecordsAreFirst'
  BY DEF IInv, CooldownsCount, CooperationOnce, RisesArePast, RecordsAreFirst, Times,
         analyzer, history
<1>5. PhaseTransitionsExact'
  <2>1. observed' = observed /\ detections' = detections
    BY DEF history
  <2>2. ASSUME NEW t \in DOMAIN observed PROVE Shift(t)' <=> Shift(t)
    <3>1. /\ Climbed(t)' <=> ClimbedIn(observed', t)
          /\ Sank(t)' <=> SankIn(observed', t)
      BY DEF Climbed, Sank, ClimbedIn, SankIn
    <3>2. /\ Climbed(t) <=> ClimbedIn(observed, t)
          /\ Sank(t) <=> SankIn(observed, t)
      BY DEF Climbed, Sank, ClimbedIn, SankIn
    <3> QED  BY <2>1, <3>1, <3>2 DEF Shift
  <2>3. Times("PhaseTransition")' = Times("PhaseTransition")
    BY <2>1 DEF Times
  <2> QED  BY <2>1, <2>2, <2>3 DEF IInv, PhaseTransitionsExact
<1> QED  BY <1>1, <1>2, <1>3, <1>4, <1>5 DEF IInv

LEMMA NextIInv == IInv /\ [Next]_vars => IInv'
<1> SUFFICES ASSUME IInv, [Next]_vars PROVE IInv'
  OBVIOUS
<1>1. /\ dynamic_modules \in Seq(Names) /\ Len(dynamic_modules) <= MaxModules
      /\ self_modifying \in BOOLEAN /\ MaxModules \in Nat
  BY EmergenceAssumption DEF IInv, TypeOK
<1>2. ASSUME NEW name \in Names, CreateModule(name) PROVE IInv'
  <2>1. Append(dynamic_modules, name) \in Seq(Names)
        /\ Len(Append(dynamic_modules, name)) = Len(dynamic_modules) + 1
        /\ Len(dynamic_modules) \in Nat
    BY <1>1, AppendProperties, LenProperties
  <2>2. dynamic_modules' \in Seq(Names) /\ Len(dynamic_modules') <= MaxModules
    BY <1>1, <1>2, <2>1 DEF CreateModule
  <2> QED  BY <1>1, <1>2, <2>2, AnalyserKept DEF CreateModule, Switch
<1>3. ASSUME NEW i \in DOMAIN dynamic_modules, RemoveModule(i) PROVE IInv'
  <2> DEFINE n == Len(dynamic_modules)
             a == SubSeq(dynamic_modules, 1, i - 1)
             b == SubSeq(dynamic_modules, i + 1, n)
  <2>1. n \in Nat /\ i \in 1 .. n
    BY <1>1, <1>3, LenProperties
  <2>2. a \in Seq(Names) /\ Len(a) = i - 1
    <3>1. \A k \in 1 .. i - 1 : k \in 1 .. Len(dynamic_modules)
      BY <2>1
    <3> QED  BY <1>1, <2>1, <3>1, SubSeqProperties
  <2>3. b \in Seq(Names) /\ Len(b) = n - i
    <3>1. \A k \in i + 1 .. n : k \in 1 .. Len(dynamic_modules)
      BY <2>1
    <3> QED  BY <1>1, <2>1, <3>1, SubSeqProperties
  <2> HIDE DEF a, b
  <2>4. a \o b \in Seq(Names) /\ Len(a \o b) = (i - 1) + (n - i)
    <3>1. a \o b \in Seq(Names) /\ Len(a \o b) = Len(a) + Len(b)
      BY <2>2, <2>3, ConcatProperties
    <3> QED  BY <2>2, <2>3, <3>1
  <2>5. dynamic_modules' \in Seq(Names) /\ Len(dynamic_modules') <= MaxModules
    BY <1>1, <1>3, <2>1, <2>4 DEF RemoveModule, a, b
  <2> QED  BY <1>1, <1>3, <2>5, AnalyserKept DEF RemoveModule, Switch
<1>4. ASSUME NEW flag \in BOOLEAN, SetSelfModification(flag) PROVE IInv'
  BY <1>1, <1>4, AnalyserKept DEF SetSelfModification, Switch
<1>5. ASSUME NEW p \in Levels, Analyze(p) PROVE IInv'
  <2>1. PICK found \in SUBSET Types : Effect(p, found)
    BY <1>5, AnalyzeEffect
  <2>2. HistoriesTrack' /\ CountersSummarise' /\ CooperationOnce' /\ RisesArePast'
    BY <2>1, AnalyzeHistories, AnalyzeCounters, AnalyzeCooperation
  <2>3. /\ CooldownsCount' /\ last_detection' \in [Types -> 0 .. system_time + 1]
        /\ \A type \in Types :
              Times(type)' = Times(type) \cup (IF type \in found THEN {system_time + 1} ELSE {})
        /\ \A type \in Types : Times(type) \subseteq 1 .. system_time
    BY <2>1, AnalyzeCooperation, AnalyzeCooldowns
  <2>4. PhaseTransitionsExact'
    BY <2>1, <2>3, AnalyzePhase
  <2>5. /\ RecordsAreFirst'
        /\ behaviors' \in Seq(Types \X (1 .. system_time + 1)) /\ Len(behaviors') <= MaxBehaviors
    BY <2>1, <2>3, AnalyzeRecords
  <2>6. TypeOK'
    <3>1. /\ system_time' = system_time + 1 /\ last_performance' = p
          /\ UNCHANGED <<dynamic_modules, self_modifying>>
      BY <2>1 DEF Effect
    <3>2. /\ performance_history' \in Seq(Levels) /\ Len(performance_history') <= Window
          /\ Len(module_activity_history') = Len(performance_history')
          /\ system_time' = Len(observed')
      BY <2>1, AnalyzeHistories
    <3>3. consecutive_improvements' \in Nat /\ consecutive_degradations' \in Nat
      BY <2>1, CountStepsTyped DEF IInv, TypeOK, Effect
    <3>4. \A d \in detections' : d.type \in Types /\ d.time \in 1 .. system_time'
      BY <2>3 DEF CooldownsCount
    <3> QED  BY <1>1, <2>3, <2>5, <3>1, <3>2, <3>3, <3>4 DEF TypeOK
  <2> QED  BY <2>2, <2>3, <2>4, <2>5, <2>6 DEF IInv
<1>6. CASE UNCHANGED vars
  <2>1. UNCHANGED <<analyzer, history>> /\ UNCHANGED <<dynamic_modules, self_modifying>>
    BY <1>6 DEF vars
  <2> QED  BY <1>1, <2>1, AnalyserKept
<1> QED  BY <1>2, <1>3, <1>4, <1>5, <1>6 DEF Next

LEMMA Invariance == Spec => []IInv
BY InitIInv, NextIInv, PTL DEF Spec

\* Histories, records and modules stay within their capacities, and the
\* analyser's time counts the analyses (emergent_behavior_analyze_system).
THEOREM TypeCorrect == Spec => []TypeOK
<1>1. IInv => TypeOK
  BY DEF IInv
<1> QED  BY <1>1, Invariance, PTL

\* Each cooperation reported (detect_emergent_cooperation) stands for a module
\* that was added while performance rose, and no two for the same.
THEOREM CooperationOnceHolds == Spec => []CooperationOnce
<1>1. IInv => CooperationOnce
  BY DEF IInv
<1> QED  BY <1>1, Invariance, PTL

\* A phase transition is reported (detect_phase_transition) when and only when
\* the performances observed so far make one, outside the cooldown.
THEOREM PhaseTransitionsExactHolds == Spec => []PhaseTransitionsExact
<1>1. IInv => PhaseTransitionsExact
  BY DEF IInv
<1> QED  BY <1>1, Invariance, PTL

\* The records (record_emergent_behavior) are the first detections, as many as
\* there is room for.
THEOREM RecordsAreFirstHolds == Spec => []RecordsAreFirst
<1>1. IInv => RecordsAreFirst
  BY DEF IInv
<1> QED  BY <1>1, Invariance, PTL

=============================================================================
