------------------------- MODULE TransductionProofs -------------------------
(***************************************************************************)
(* The two systems of an architecture keep their promises under every      *)
(* order of calls, for all capacities.                                     *)
(***************************************************************************)
EXTENDS Transduction, AtomSpaceProofs

-----------------------------------------------------------------------------
(* What one call does to a Cogfluence system: ids name one thing, relations *)
(* are mutual, and the steps of workflows are known.                        *)

UnitRecords == [atomspace_id : Nat, type : UnitTypes, named : BOOLEAN,
                related_units : Seq(Nat)]
WorkflowRecords == [workflow_id : Nat, step_units : Seq(Nat)]
Units == 1 .. Len(units)
Workflows == 1 .. Len(workflows)

\* The inductive invariant.  IdsBelow makes the next id a new one, also among
\* the relations of the units there are.
SystemTyped == /\ counter \in Nat \ {0}
               /\ units \in Seq(UnitRecords) /\ Len(units) <= MaxUnits
               /\ workflows \in Seq(WorkflowRecords) /\ Len(workflows) <= MaxWorkflows
IdsBelow == /\ \A i \in Units : /\ units[i].atomspace_id \in 1 .. counter - 1
                                /\ units[i].related_units \in Seq(1 .. counter - 1)
            /\ \A w \in Workflows : workflows[w].workflow_id \in 1 .. counter - 1
IdsDistinct == /\ \A i, j \in Units : units[i].atomspace_id = units[j].atomspace_id => i = j
               /\ \A v, w \in Workflows :
                     workflows[v].workflow_id = workflows[w].workflow_id => v = w
               /\ \A i \in Units, w \in Workflows :
                     units[i].atomspace_id # workflows[w].workflow_id
Mutual == \A i, j \in Units : Occurs(units[j].atomspace_id, units[i].related_units)
                                = Occurs(units[i].atomspace_id, units[j].related_units)
StepsAreUnits == \A w \in Workflows : \A k \in 1 .. Len(workflows[w].step_units) :
    \E i \in Units : units[i].atomspace_id = workflows[w].step_units[k]
SystemInv == SystemTyped /\ IdsBelow /\ IdsDistinct /\ Mutual /\ StepsAreUnits

\* Units are never removed, and keep their ids.
UnitsGrow == /\ Units \subseteq Units'
             /\ \A i \in Units : units'[i].atomspace_id = units[i].atomspace_id

-----------------------------------------------------------------------------
(* Occurs *)

LEMMA OccursFinite ==
    ASSUME NEW S, NEW s \in Seq(S), NEW id
    PROVE  Occurs(id, s) \in Nat /\ IsFiniteSet({k \in DOMAIN s : s[k] = id})
<1>1. DOMAIN s = 1 .. Len(s) /\ Len(s) \in Nat
  BY LenProperties
<1>2. IsFiniteSet(1 .. Len(s))
  BY <1>1, FS_Interval
<1>3. IsFiniteSet({k \in DOMAIN s : s[k] = id})
  BY <1>1, <1>2, FS_Subset
<1> QED  BY <1>3, FS_CardinalityType DEF Occurs

LEMMA OccursNone ==
    ASSUME NEW S, NEW s \in Seq(S), NEW id, id \notin S
    PROVE  Occurs(id, s) = 0
<1>1. \A k \in DOMAIN s : s[k] # id
  BY LenProperties, ElementOfSeq
<1>2. {k \in DOMAIN s : s[k] = id} = {}
  BY <1>1
<1> QED  BY <1>2, FS_EmptySet DEF Occurs

\* One more y at the end counts for y only.
LEMMA OccursAppend ==
    ASSUME NEW S, NEW s \in Seq(S), NEW y \in S, NEW x
    PROVE  /\ Occurs(y, Append(s, y)) = Occurs(y, s) + 1
           /\ x # y => Occurs(x, Append(s, y)) = Occurs(x, s)
<1> DEFINE t == Append(s, y)
           at(z) == {k \in DOMAIN s : s[k] = z}
           after(z) == {k \in DOMAIN t : t[k] = z}
<1>1. /\ DOMAIN s = 1 .. Len(s) /\ Len(s) \in Nat
      /\ DOMAIN t = 1 .. Len(s) + 1
      /\ \A k \in 1 .. Len(s) : t[k] = s[k]
      /\ t[Len(s) + 1] = y
  BY AppendProperties, LenProperties
<1> HIDE DEF t
<1>2. after(y) = at(y) \cup {Len(s) + 1} /\ Len(s) + 1 \notin at(y)
  BY <1>1
<1>3. x # y => after(x) = at(x)
  BY <1>1
<1>4. IsFiniteSet(at(y)) /\ Occurs(y, s) = Cardinality(at(y))
  BY OccursFinite DEF Occurs
<1>5. Cardinality(at(y) \cup {Len(s) + 1}) = Cardinality(at(y)) + 1
  <2> HIDE DEF at
  <2> QED  BY <1>2, <1>4, FS_AddElement
<1>6. Occurs(y, t) = Cardinality(after(y)) /\ Occurs(x, t) = Cardinality(after(x))
  BY DEF Occurs
<1>7. Occurs(x, s) = Cardinality(at(x))
  BY DEF Occurs
<1> HIDE DEF at, after
<1>8. Occurs(y, t) = Occurs(y, s) + 1
  BY <1>2, <1>4, <1>5, <1>6
<1>9. x # y => Occurs(x, t) = Occurs(x, s)
  BY <1>3, <1>6, <1>7
<1> QED  BY <1>8, <1>9 DEF t

-----------------------------------------------------------------------------
(* The operations *)

\* What the invariant says of one unit and one workflow.
LEMMA RecordFacts ==
    ASSUME SystemInv
    PROVE  /\ Len(units) \in Nat /\ DOMAIN units = Units
           /\ Len(workflows) \in Nat /\ DOMAIN workflows = Workflows
           /\ \A i \in Units : units[i] \in UnitRecords
           /\ \A w \in Workflows : workflows[w] \in WorkflowRecords
BY LenProperties, ElementOfSeq DEF SystemInv, SystemTyped, Units, Workflows

\* An id that is drawn is above all that were.
LEMMA IdsStayBelow ==
    ASSUME SystemInv
    PROVE  /\ \A i \in Units : /\ units[i].atomspace_id \in 1 .. counter
                               /\ units[i].atomspace_id # counter
                               /\ units[i].related_units \in Seq(1 .. counter)
                               /\ Occurs(counter, units[i].related_units) = 0
           /\ \A w \in Workflows : /\ workflows[w].workflow_id \in 1 .. counter
                                   /\ workflows[w].workflow_id # counter
<1>1. counter \in Nat \ {0}
  BY DEF SystemInv, SystemTyped
<1>2. 1 .. counter - 1 \subseteq 1 .. counter /\ counter \notin 1 .. counter - 1
  BY <1>1
<1>3. ASSUME NEW i \in Units
      PROVE  /\ units[i].atomspace_id \in 1 .. counter - 1
             /\ units[i].related_units \in Seq(1 .. counter - 1)
  BY DEF SystemInv, IdsBelow
<1>4. ASSUME NEW i \in Units
      PROVE  /\ units[i].related_units \in Seq(1 .. counter)
             /\ Occurs(counter, units[i].related_units) = 0
  BY <1>2, <1>3, SeqMonotonic, OccursNone
<1>5. \A w \in Workflows : workflows[w].workflow_id \in 1 .. counter - 1
  BY DEF SystemInv, IdsBelow
<1> QED  BY <1>2, <1>3, <1>4, <1>5

LEMMA AddKnowledgeUnitInv ==
    ASSUME SystemInv, MaxUnits \in Nat, NEW type \in UnitTypes, NEW named \in BOOLEAN,
           AddKnowledgeUnit(type, named)
    PROVE  /\ SystemInv' /\ UnitsGrow
           /\ Len(units') = Len(units) + 1
           /\ units'[Len(units')] = [atomspace_id |-> counter, type |-> type,
                                     named |-> named, related_units |-> <<>>]
<1> DEFINE n == Len(units) + 1
           new == [atomspace_id |-> counter, type |-> type, named |-> named,
                   related_units |-> <<>>]
<1>1. /\ counter \in Nat \ {0} /\ units \in Seq(UnitRecords) /\ Len(units) \in Nat
      /\ Len(units) < MaxUnits
  BY LenProperties DEF SystemInv, SystemTyped, AddKnowledgeUnit, UnitRoom
<1>2. new \in UnitRecords
  BY <1>1, EmptySeq DEF UnitRecords
<1>3. /\ units' \in Seq(UnitRecords) /\ Len(units') = n
      /\ \A i \in Units : units'[i] = units[i]
      /\ units'[n] = new
  <2>1. units' = Append(units, new)
    BY DEF AddKnowledgeUnit
  <2> HIDE DEF new
  <2> QED  BY <1>1, <1>2, <2>1, AppendProperties DEF Units
<1>4. Units' = Units \cup {n} /\ n \notin Units /\ Len(units') <= MaxUnits
  BY <1>1, <1>3 DEF Units
<1>5. /\ units'[n].atomspace_id = counter /\ units'[n].related_units = <<>>
      /\ counter' = counter + 1 /\ workflows' = workflows /\ Workflows' = Workflows
      /\ counter' - 1 = counter
  BY <1>1, <1>3 DEF AddKnowledgeUnit, Workflows
<1>6. SystemTyped'
  BY <1>1, <1>3, <1>4, <1>5 DEF SystemInv, SystemTyped
<1>7. IdsBelow'
  <2>1. counter \in 1 .. counter /\ <<>> \in Seq(1 .. counter)
    BY <1>1, EmptySeq
  <2> QED  BY <1>3, <1>4, <1>5, <2>1, IdsStayBelow DEF IdsBelow
<1>8. IdsDistinct'
  <2>1. /\ \A i \in Units : units'[i].atomspace_id = units[i].atomspace_id
        /\ \A i \in Units : units'[i].atomspace_id # units'[n].atomspace_id
        /\ \A w \in Workflows : workflows'[w].workflow_id # units'[n].atomspace_id
    BY <1>3, <1>5, IdsStayBelow
  <2> HIDE DEF n, new
  <2> QED  BY <1>4, <1>5, <2>1 DEF SystemInv, IdsDistinct
<1>9. Mutual'
  <2>1. \A x : Occurs(x, <<>>) = 0
    BY FS_EmptySet DEF Occurs
  <2>2. \A i \in Units : Occurs(units'[n].atomspace_id, units'[i].related_units) = 0
    BY <1>3, <1>5, IdsStayBelow
  <2>3. \A x : Occurs(x, units'[n].related_units) = 0
    BY <1>5, <2>1
  <2>4. \A i, j \in Units : Occurs(units'[j].atomspace_id, units'[i].related_units)
                              = Occurs(units'[i].atomspace_id, units'[j].related_units)
    BY <1>3 DEF SystemInv, Mutual
  <2> QED  BY <1>4, <2>2, <2>3, <2>4 DEF Mutual
<1>10. StepsAreUnits' /\ UnitsGrow
  BY <1>3, <1>4, <1>5 DEF SystemInv, StepsAreUnits, UnitsGrow
<1> QED  BY <1>3, <1>6, <1>7, <1>8, <1>9, <1>10 DEF SystemInv

LEMMA CreateWorkflowInv ==
    ASSUME SystemInv, MaxWorkflows \in Nat, CreateWorkflow
    PROVE  SystemInv' /\ UnitsGrow
<1> DEFINE n == Len(workflows) + 1
           new == [workflow_id |-> counter, step_units |-> <<>>]
<1>1. /\ counter \in Nat \ {0} /\ workflows \in Seq(WorkflowRecords) /\ Len(workflows) \in Nat
      /\ Len(workflows) < MaxWorkflows
  BY LenProperties DEF SystemInv, SystemTyped, CreateWorkflow
<1>2. new \in WorkflowRecords
  BY <1>1, EmptySeq DEF WorkflowRecords
<1>3. /\ workflows' \in Seq(WorkflowRecords) /\ Len(workflows') = n
      /\ \A w \in Workflows : workflows'[w] = workflows[w]
      /\ workflows'[n] = new
  <2>1. workflows' = Append(workflows, new)
    BY DEF CreateWorkflow
  <2> HIDE DEF new
  <2> QED  BY <1>1, <1>2, <2>1, AppendProperties DEF Workflows
<1>4. Workflows' = Workflows \cup {n} /\ n \notin Workflows /\ Len(workflows') <= MaxWorkflows
  BY <1>1, <1>3 DEF Workflows
<1>5. /\ workflows'[n].workflow_id = counter /\ workflows'[n].step_units = <<>>
      /\ counter' = counter + 1 /\ units' = units /\ Units' = Units
      /\ counter' - 1 = counter
  BY <1>1, <1>3 DEF CreateWorkflow, Units
<1>6. SystemTyped'
  BY <1>1, <1>3, <1>4, <1>5 DEF SystemInv, SystemTyped
<1>7. IdsBelow'
  <2>1. counter \in 1 .. counter
    BY <1>1
  <2> QED  BY <1>3, <1>4, <1>5, <2>1, IdsStayBelow DEF IdsBelow
<1>8. IdsDistinct'
  BY <1>3, <1>4, <1>5, IdsStayBelow DEF SystemInv, IdsDistinct
<1>9. Mutual' /\ UnitsGrow
  BY <1>5 DEF SystemInv, Mutual, UnitsGrow
<1>10. StepsAreUnits'
  <2>1. 1 .. Len(workflows'[n].step_units) = {}
    BY <1>5, EmptySeq
  <2> QED  BY <1>3, <1>4, <1>5, <2>1 DEF SystemInv, StepsAreUnits
<1> QED  BY <1>6, <1>7, <1>8, <1>9, <1>10 DEF SystemInv

LEMMA OtherSystemInv ==
    ASSUME SystemInv, OtherSystemDrawsId
    PROVE  SystemInv' /\ UnitsGrow
<1>1. /\ counter \in Nat \ {0} /\ counter' = counter + 1 /\ counter' - 1 = counter
      /\ units' = units /\ workflows' = workflows
      /\ Units' = Units /\ Workflows' = Workflows
  BY DEF OtherSystemDrawsId, SystemInv, SystemTyped, Units, Workflows
<1>2. SystemTyped'
  BY <1>1 DEF SystemInv, SystemTyped
<1>3. IdsBelow'
  BY <1>1, IdsStayBelow DEF IdsBelow
<1>4. IdsDistinct' /\ Mutual' /\ StepsAreUnits' /\ UnitsGrow
  BY <1>1 DEF SystemInv, IdsDistinct, Mutual, StepsAreUnits, UnitsGrow
<1> QED  BY <1>2, <1>3, <1>4 DEF SystemInv

\* A known id is found at the one place it has.
LEMMA UnitIndexIs ==
    ASSUME SystemInv, NEW id, UnitKnown(id)
    PROVE  /\ UnitIndex(id) \in Units
           /\ units[UnitIndex(id)].atomspace_id = id
           /\ id \in 1 .. counter - 1
<1>1. PICK i \in DOMAIN units : units[i].atomspace_id = id
  BY DEF UnitKnown, UnitAt
<1>2. DOMAIN units = Units /\ Units \subseteq Nat
  BY RecordFacts DEF Units
<1>3. UnitAt(id) = {i}
  BY <1>1, <1>2 DEF SystemInv, IdsDistinct, UnitAt
<1>4. UnitIndex(id) = i
  <2>1. i \in Nat
    BY <1>2
  <2>2. \A j \in UnitAt(id) : i <= j
    BY <1>3, <2>1
  <2> QED  BY <1>3, <2>2 DEF UnitIndex
<1> QED  BY <1>1, <1>2, <1>4 DEF SystemInv, IdsBelow

LEMMA AddRelationInv ==
    ASSUME SystemInv, NEW id1, NEW id2, AddRelation(id1, id2)
    PROVE  SystemInv' /\ UnitsGrow
<1> DEFINE a == UnitIndex(id1)
           b == UnitIndex(id2)
           R(i) == units[i].related_units
<1>1. /\ a \in Units /\ units[a].atomspace_id = id1 /\ id1 \in 1 .. counter - 1
      /\ b \in Units /\ units[b].atomspace_id = id2 /\ id2 \in 1 .. counter - 1
      /\ a # b
  BY UnitIndexIs DEF AddRelation
<1>2. units' = [units EXCEPT ![a].related_units = Append(@, id2),
                             ![b].related_units = Append(@, id1)]
  BY DEF AddRelation
<1> HIDE DEF a, b
<1>3. /\ counter' = counter /\ workflows' = workflows
      /\ DOMAIN units = Units /\ Len(units) \in Nat /\ counter \in Nat \ {0}
  BY RecordFacts DEF AddRelation, SystemInv, SystemTyped
<1>4. /\ units'[a] = [units[a] EXCEPT !.related_units = Append(R(a), id2)]
      /\ units'[b] = [units[b] EXCEPT !.related_units = Append(R(b), id1)]
      /\ \A i \in Units \ {a, b} : units'[i] = units[i]
      /\ DOMAIN units' = Units
  BY <1>1, <1>2, <1>3
<1>5. \A i \in Units : units[i] \in UnitRecords /\ R(i) \in Seq(1 .. counter - 1)
  BY RecordFacts DEF SystemInv, IdsBelow
<1>6. /\ Append(R(a), id2) \in Seq(1 .. counter - 1)
      /\ Append(R(b), id1) \in Seq(1 .. counter - 1)
  BY <1>1, <1>5, AppendProperties
<1>7. 1 .. counter - 1 \subseteq Nat
  OBVIOUS
<1>8. Append(R(a), id2) \in Seq(Nat) /\ Append(R(b), id1) \in Seq(Nat)
  BY <1>6, <1>7, SeqMonotonic
<1>9. ASSUME NEW i \in Units
      PROVE  /\ units'[i] \in UnitRecords
             /\ units'[i].atomspace_id = units[i].atomspace_id
             /\ units'[i].related_units
                  = IF i = a THEN Append(R(a), id2) ELSE
                    IF i = b THEN Append(R(b), id1) ELSE R(i)
  <2>1. CASE i = a
    BY <1>1, <1>4, <1>5, <1>8, <2>1 DEF UnitRecords
  <2>2. CASE i = b
    BY <1>1, <1>4, <1>5, <1>8, <2>2 DEF UnitRecords
  <2>3. CASE i # a /\ i # b
    BY <1>4, <1>5, <2>3
  <2> QED  BY <2>1, <2>2, <2>3
<1>10. Units' = Units /\ units' \in Seq(UnitRecords) /\ Len(units') = Len(units)
  <2>1. units' \in [1 .. Len(units) -> UnitRecords]
    BY <1>2, <1>3, <1>4, <1>9 DEF Units
  <2>2. units' \in Seq(UnitRecords) /\ Len(units') = Len(units)
    <3>1. ASSUME NEW S, NEW n \in Nat, NEW f \in [1 .. n -> S]
          PROVE  f \in Seq(S) /\ Len(f) = n
      OBVIOUS
    <3> QED  BY <1>3, <2>1, <3>1
  <2> QED  BY <2>2 DEF Units
<1>11. Workflows' = Workflows
  BY <1>3 DEF Workflows
<1>12. SystemTyped' /\ IdsDistinct' /\ StepsAreUnits' /\ UnitsGrow
  <2>1. SystemTyped'
    BY <1>3, <1>10 DEF SystemInv, SystemTyped
  <2>2. IdsDistinct'
    BY <1>3, <1>9, <1>10, <1>11 DEF SystemInv, IdsDistinct
  <2>3. StepsAreUnits' /\ UnitsGrow
    BY <1>3, <1>9, <1>10, <1>11 DEF SystemInv, StepsAreUnits, UnitsGrow
  <2> QED  BY <2>1, <2>2, <2>3
<1>13. IdsBelow'
  BY <1>3, <1>5, <1>6, <1>9, <1>10, <1>11 DEF SystemInv, IdsBelow
<1>14. Mutual'
  <2> DEFINE O(i, j) == Occurs(units[j].atomspace_id, R(i))
             P(i, j) == Occurs(units'[j].atomspace_id, units'[i].related_units)
  <2>1. \A i, j \in Units : O(i, j) = O(j, i)
    BY DEF SystemInv, Mutual
  <2>2. ASSUME NEW j \in Units
        PROVE  /\ P(a, j) = IF j = b THEN O(a, j) + 1 ELSE O(a, j)
               /\ P(b, j) = IF j = a THEN O(b, j) + 1 ELSE O(b, j)
    <3>1. /\ j # a => units[j].atomspace_id # id1
          /\ j # b => units[j].atomspace_id # id2
      BY <1>1 DEF SystemInv, IdsDistinct
    <3>2. units'[j].atomspace_id = units[j].atomspace_id
      BY <1>9
    <3>3. /\ units'[a].related_units = Append(R(a), id2)
          /\ units'[b].related_units = Append(R(b), id1)
      BY <1>1, <1>9
    <3>4. R(a) \in Seq(1 .. counter - 1) /\ R(b) \in Seq(1 .. counter - 1)
      BY <1>1, <1>5
    <3>5. /\ Occurs(id2, Append(R(a), id2)) = Occurs(id2, R(a)) + 1
          /\ Occurs(id1, Append(R(b), id1)) = Occurs(id1, R(b)) + 1
      BY <1>1, <3>4, OccursAppend
    <3>6. /\ j # b => Occurs(units[j].atomspace_id, Append(R(a), id2)) = O(a, j)
          /\ j # a => Occurs(units[j].atomspace_id, Append(R(b), id1)) = O(b, j)
      BY <1>1, <3>1, <3>4, OccursAppend
    <3> QED  BY <1>1, <3>2, <3>3, <3>5, <3>6
  <2>3. ASSUME NEW i \in Units \ {a, b}, NEW j \in Units PROVE P(i, j) = O(i, j)
    BY <1>4, <1>9
  <2> HIDE DEF O, P
  <2>4. \A i, j \in Units : P(i, j) = P(j, i)
    BY <1>1, <2>1, <2>2, <2>3
  <2> USE DEF O, P
  <2> QED  BY <1>10, <2>4 DEF Mutual
<1> QED  BY <1>12, <1>13, <1>14 DEF SystemInv

LEMMA AddWorkflowStepInv ==
    ASSUME SystemInv, NEW wid, NEW uid, AddWorkflowStep(wid, uid)
    PROVE  SystemInv' /\ UnitsGrow
<1>1. PICK w \in Workflows :
         workflows' = [workflows EXCEPT ![w].step_units = Append(@, uid)]
  BY RecordFacts DEF AddWorkflowStep, WorkflowAt
<1>2. UnitKnown(uid) /\ counter' = counter /\ units' = units /\ Units' = Units
  BY DEF AddWorkflowStep, Units
<1>3. PICK u \in Units : units[u].atomspace_id = uid
  BY <1>2, UnitIndexIs
<1>4. /\ DOMAIN workflows = Workflows /\ Len(workflows) \in Nat
      /\ \A v \in Workflows : workflows[v] \in WorkflowRecords
  BY RecordFacts
<1>5. uid \in Nat
  BY <1>3, RecordFacts DEF UnitRecords
<1>6. workflows[w].step_units \in Seq(Nat)
  BY <1>4 DEF WorkflowRecords
<1>7. /\ Append(workflows[w].step_units, uid) \in Seq(Nat)
      /\ Len(workflows[w].step_units) \in Nat
      /\ Len(Append(workflows[w].step_units, uid)) = Len(workflows[w].step_units) + 1
      /\ \A k \in 1 .. Len(workflows[w].step_units) :
            Append(workflows[w].step_units, uid)[k] = workflows[w].step_units[k]
      /\ Append(workflows[w].step_units, uid)[Len(workflows[w].step_units) + 1] = uid
  BY <1>5, <1>6, AppendProperties, LenProperties
<1>8. /\ DOMAIN workflows' = Workflows
      /\ workflows'[w] = [workflows[w] EXCEPT !.step_units = Append(workflows[w].step_units, uid)]
      /\ \A v \in Workflows \ {w} : workflows'[v] = workflows[v]
  BY <1>1, <1>4
<1>9. ASSUME NEW v \in Workflows
      PROVE  /\ workflows'[v] \in WorkflowRecords
             /\ workflows'[v].workflow_id = workflows[v].workflow_id
             /\ workflows'[v].step_units
                  = IF v = w THEN Append(workflows[w].step_units, uid)
                    ELSE workflows[v].step_units
  BY <1>4, <1>7, <1>8 DEF WorkflowRecords
<1>10. /\ Workflows' = Workflows /\ workflows' \in Seq(WorkflowRecords)
       /\ Len(workflows') = Len(workflows)
  <2>1. workflows' \in [1 .. Len(workflows) -> WorkflowRecords]
    BY <1>1, <1>4, <1>8, <1>9 DEF Workflows
  <2>2. workflows' \in Seq(WorkflowRecords) /\ Len(workflows') = Len(workflows)
    <3>1. ASSUME NEW S, NEW n \in Nat, NEW f \in [1 .. n -> S]
          PROVE  f \in Seq(S) /\ Len(f) = n
      OBVIOUS
    <3> QED  BY <1>4, <2>1, <3>1
  <2> QED  BY <2>2 DEF Workflows
<1>11. SystemTyped'
  BY <1>2, <1>10 DEF SystemInv, SystemTyped
<1>12. IdsBelow' /\ IdsDistinct' /\ Mutual' /\ UnitsGrow
  BY <1>2, <1>9, <1>10 DEF SystemInv, IdsBelow, IdsDistinct, Mutual, UnitsGrow
<1>13. StepsAreUnits'
  <2>1. ASSUME NEW v \in Workflows, NEW k \in 1 .. Len(workflows'[v].step_units)
        PROVE  \E i \in Units : units[i].atomspace_id = workflows'[v].step_units[k]
    <3>1. CASE v # w
      BY <1>9, <2>1, <3>1 DEF SystemInv, StepsAreUnits
    <3>2. CASE v = w
      <4>1. k \in 1 .. Len(workflows[w].step_units) \/ k = Len(workflows[w].step_units) + 1
        <5>1. workflows'[v].step_units = Append(workflows[w].step_units, uid)
          BY <1>9, <3>2
        <5> QED  BY <1>7, <5>1
      <4> QED  BY <1>3, <1>7, <1>9, <3>2, <4>1 DEF SystemInv, StepsAreUnits
    <3> QED  BY <3>1, <3>2
  <2> QED  BY <1>2, <1>10, <2>1 DEF StepsAreUnits
<1> QED  BY <1>11, <1>12, <1>13 DEF SystemInv

-----------------------------------------------------------------------------

\* What the invariant is for.
LEMMA SystemInvImplies ==
    SystemInv => SystemTypeOK /\ IdsName /\ RelationsMutual /\ StepsKnown
<1> SUFFICES ASSUME SystemInv PROVE SystemTypeOK /\ IdsName /\ RelationsMutual /\ StepsKnown
  OBVIOUS
<1>1. /\ DOMAIN units = Units /\ DOMAIN workflows = Workflows
      /\ \A i \in Units : units[i] \in UnitRecords
      /\ \A w \in Workflows : workflows[w] \in WorkflowRecords
  BY RecordFacts
<1>2. SystemTypeOK
  BY <1>1 DEF SystemInv, SystemTyped, SystemTypeOK, UnitRecords, WorkflowRecords
<1>3. IdsName
  BY <1>1 DEF SystemInv, IdsDistinct, IdsName, UnitAt, WorkflowAt
<1>4. RelationsMutual
  BY <1>1 DEF SystemInv, Mutual, RelationsMutual
<1>5. StepsKnown
  <2>1. ASSUME NEW w \in Workflows, NEW k \in DOMAIN workflows[w].step_units
        PROVE  UnitKnown(workflows[w].step_units[k])
    <3>1. k \in 1 .. Len(workflows[w].step_units)
      BY <1>1, LenProperties DEF WorkflowRecords
    <3>2. PICK i \in Units : units[i].atomspace_id = workflows[w].step_units[k]
      BY <3>1 DEF SystemInv, StepsAreUnits
    <3>3. units[i].atomspace_id # 0
      BY DEF SystemInv, IdsBelow
    <3> QED  BY <1>1, <3>2, <3>3 DEF UnitKnown, UnitAt
  <2> QED  BY <1>1, <2>1 DEF StepsKnown
<1> QED  BY <1>2, <1>3, <1>4, <1>5

-----------------------------------------------------------------------------
(* Both systems *)

HistoryOK == /\ pipeline \in [made : Nat, used : Nat, ok : BOOLEAN]
             /\ others \in 0 .. MaxOther /\ strayed \in BOOLEAN

\* As long as only the pipeline runs, units and atoms are made in pairs.
Paired == ~ strayed => /\ counter = Len(units) + 1 /\ Len(units) = Len(atoms)
                       /\ pipeline.ok /\ pipeline.made = pipeline.used

IInv == SpaceInv /\ SystemInv /\ HistoryOK /\ BackLinksResolve /\ Paired

\* What a call does to each of the two, if anything.
SpaceStep == /\ SpaceInv'
             /\ Graph!Next \/ UNCHANGED AtomGraph
SystemStep == SystemInv' /\ UnitsGrow

-----------------------------------------------------------------------------
(* The AtomSpace's side *)

LEMMA SpaceKept == ASSUME SpaceInv, UNCHANGED space PROVE SpaceStep
<1>1. atoms' = atoms /\ next_atom_id' = next_atom_id
  BY DEF space
<1>2. Positions' = Positions
  BY <1>1 DEF Positions
<1>3. AtomGraph' = AtomGraph
  BY <1>1, <1>2 DEF AtomGraph, Index, Found
<1>4. AtomsTyped' /\ IdsArePlaces' /\ BackwardLinks' /\ IncomingMirrors'
  BY <1>1, <1>2 DEF SpaceInv, AtomsTyped, IdsArePlaces, BackwardLinks, IncomingMirrors
<1> QED  BY <1>3, <1>4 DEF SpaceStep, SpaceInv

LEMMA AppendAtomSpace ==
    ASSUME SpaceInv, Room, NEW type \in Types, NEW out \in Seq(Positions), NEW unit \in Nat,
           AppendAtom(type, out, unit)
    PROVE  SpaceStep
<1>1. MaxAtoms \in Nat
  BY TransductionAssumption
<1> QED  BY <1>1, AppendAtomInv, AppendAtomGraph DEF SpaceStep

LEMMA AtomTypes == \A t : AtomTypeOf(t) \in Types
<1>1. \A t : AtomTypeOf(t) \in {AtomTypeOf("relation"), AtomTypeOf("rule"), AtomTypeOf("concept")}
  BY DEF AtomTypeOf
<1> QED  BY <1>1, TransductionAssumption DEF Types

-----------------------------------------------------------------------------
(* The Cogfluence side *)

LEMMA SystemKept == ASSUME SystemInv, UNCHANGED system PROVE SystemStep
<1>1. counter' = counter /\ units' = units /\ workflows' = workflows
  BY DEF system
<1>2. Units' = Units /\ Workflows' = Workflows
  BY <1>1 DEF Units, Workflows
<1>3. SystemTyped' /\ IdsBelow' /\ IdsDistinct' /\ Mutual' /\ StepsAreUnits'
  BY <1>1, <1>2 DEF SystemInv, SystemTyped, IdsBelow, IdsDistinct, Mutual, StepsAreUnits
<1> QED  BY <1>1, <1>2, <1>3 DEF SystemStep, SystemInv, UnitsGrow

LEMMA UnitsDomain == SystemInv => DOMAIN units = Units
BY RecordFacts

LEMMA UnitsDomainStill == (SystemInv => DOMAIN units = Units)'
BY UnitsDomain, PTL

\* A unit that is known stays known.
LEMMA KnownStays ==
    ASSUME SystemInv, SystemStep, NEW id, UnitKnown(id)
    PROVE  UnitKnown(id)'
<1>1. PICK i \in Units : units[i].atomspace_id = id
  BY UnitIndexIs
<1>2. i \in Units' /\ units'[i].atomspace_id = id
  BY <1>1 DEF SystemStep, UnitsGrow
<1>3. DOMAIN units' = Units'
  BY UnitsDomainStill DEF SystemStep
<1> QED  BY <1>2, <1>3 DEF UnitKnown, UnitAt

-----------------------------------------------------------------------------
(* Both sides *)

LEMMA BackLinksStay ==
    ASSUME SystemInv, BackLinksResolve, SystemStep, UNCHANGED space
    PROVE  BackLinksResolve'
<1>1. atoms' = atoms /\ Positions' = Positions
  BY DEF space, Positions
<1>2. ASSUME NEW i \in Positions', atoms'[i].cogfluence_unit_id # 0
      PROVE  UnitKnown(atoms[i].cogfluence_unit_id)'
  <2>1. UnitKnown(atoms[i].cogfluence_unit_id)
    BY <1>1, <1>2 DEF BackLinksResolve
  <2>2. ASSUME NEW id, UnitKnown(id) PROVE id # 0 /\ (UnitAt(id))' # {}
    BY <2>2, KnownStays DEF UnitKnown
  <2> QED  BY <1>1, <2>1, <2>2 DEF UnitKnown, UnitAt
<1> QED  BY <1>1, <1>2 DEF BackLinksResolve

LEMMA AtomAdded ==
    ASSUME SpaceInv, SystemInv, BackLinksResolve, SystemStep, Room,
           NEW type \in Types, NEW out \in Seq(Positions), NEW unit \in Nat,
           AppendAtom(type, out, unit), unit # 0 => UnitKnown(unit)'
    PROVE  SpaceStep /\ BackLinksResolve'
<1>1. MaxAtoms \in Nat
  BY TransductionAssumption
<1>2. SpaceStep
  BY <1>1, AppendAtomInv, AppendAtomGraph DEF SpaceStep
<1>3. /\ Positions' = Positions \cup {Len(atoms) + 1}
      /\ \A i \in Positions : atoms'[i].cogfluence_unit_id = atoms[i].cogfluence_unit_id
      /\ atoms'[Len(atoms) + 1].cogfluence_unit_id = unit
  <2>1. /\ Len(atoms) \in Nat /\ Len(atoms') = Len(atoms) + 1
        /\ \A i \in Positions : atoms'[i].cogfluence_unit_id = atoms[i].cogfluence_unit_id
        /\ atoms'[Len(atoms) + 1].cogfluence_unit_id = unit
    BY <1>1, AppendAtomShape
  <2> QED  BY <2>1 DEF Positions
<1>4. ASSUME NEW i \in Positions', atoms'[i].cogfluence_unit_id # 0
      PROVE  UnitKnown(atoms[i].cogfluence_unit_id)'
  <2>1. CASE i \in Positions
    <3>1. UnitKnown(atoms[i].cogfluence_unit_id)
      BY <1>3, <1>4, <2>1 DEF BackLinksResolve
    <3>2. ASSUME NEW id, UnitKnown(id) PROVE id # 0 /\ (UnitAt(id))' # {}
      BY <3>2, KnownStays DEF UnitKnown
    <3> QED  BY <1>3, <2>1, <3>1, <3>2 DEF UnitKnown, UnitAt
  <2>2. CASE i = Len(atoms) + 1
    BY <1>3, <1>4, <2>2 DEF UnitKnown, UnitAt
  <2> QED  BY <1>3, <2>1, <2>2
<1> QED  BY <1>2, <1>4 DEF BackLinksResolve

LEMMA NodeAdded ==
    ASSUME SpaceInv, SystemInv, BackLinksResolve, SystemStep,
           NEW type \in NodeTypes, AddNode(type)
    PROVE  SpaceStep /\ BackLinksResolve'
<1>1. <<>> \in Seq(Positions) /\ type \in Types /\ 0 \in Nat
  BY EmptySeq DEF Types
<1> QED  BY <1>1, AtomAdded DEF AddNode

LEMMA LinkAdded ==
    ASSUME SpaceInv, SystemInv, BackLinksResolve, SystemStep,
           NEW type \in LinkTypes, NEW n \in Nat,
           NEW out \in [1 .. n -> 0 .. MaxAtoms], AddLink(type, out)
    PROVE  SpaceStep /\ BackLinksResolve'
<1>1. \A i \in 1 .. n : out[i] \in Positions
  <2>1. ASSUME NEW i \in 1 .. n PROVE out[i] \in Positions
    <3>1. Found(out[i]) # {}
      BY DEF AddLink, Exists
    <3> QED  BY <3>1 DEF Found, SpaceInv, IdsArePlaces
  <2> QED  BY <2>1
<1>2. out \in Seq(Positions)
  <2>1. out \in [1 .. n -> Positions]
    BY <1>1
  <2> QED  BY <2>1
<1>3. type \in Types /\ 0 \in Nat
  BY DEF Types
<1> QED  BY <1>2, <1>3, AtomAdded DEF AddLink

LEMMA UnitAtomAdded ==
    ASSUME SpaceInv, SystemInv, BackLinksResolve, SystemStep,
           NEW unit, unit.atomspace_id \in Nat, UnitKnown(unit.atomspace_id)',
           FromCogfluenceUnit(unit)
    PROVE  SpaceStep /\ BackLinksResolve'
<1>1. <<>> \in Seq(Positions) /\ AtomTypeOf(unit.type) \in Types
  BY EmptySeq, AtomTypes
<1> QED  BY <1>1, AtomAdded DEF FromCogfluenceUnit

-----------------------------------------------------------------------------
(* The calls of a program *)

LEMMA InitIInv == Init => IInv /\ Graph!Init
<1> SUFFICES ASSUME Init PROVE IInv /\ Graph!Init
  OBVIOUS
<1>1. /\ atoms = <<>> /\ next_atom_id = 1 /\ counter = 1 /\ units = <<>> /\ workflows = <<>>
      /\ pipeline = NoRun /\ others = 0 /\ strayed = FALSE
  BY DEF Init, SpaceInit, SystemInit
<1>2. /\ MaxAtoms \in Nat /\ MaxUnits \in Nat /\ MaxWorkflows \in Nat /\ MaxOther \in Nat
  BY TransductionAssumption
<1>3. /\ \A S : <<>> \in Seq(S) /\ Len(<<>>) = 0
      /\ 1 .. 0 = {}
  BY EmptySeq
<1>4. Positions = {} /\ Units = {} /\ Workflows = {}
  BY <1>1, <1>3 DEF Positions, Units, Workflows
<1>5. SpaceInv
  BY <1>1, <1>2, <1>3, <1>4
     DEF SpaceInv, AtomsTyped, IdsArePlaces, BackwardLinks, IncomingMirrors
<1>6. SystemInv
  BY <1>1, <1>2, <1>3, <1>4
     DEF SystemInv, SystemTyped, IdsBelow, IdsDistinct, Mutual, StepsAreUnits
<1>7. HistoryOK /\ BackLinksResolve /\ Paired
  <2>1. /\ pipeline \in [made : Nat, used : Nat, ok : BOOLEAN]
        /\ pipeline.ok /\ pipeline.made = pipeline.used
    BY <1>1 DEF NoRun
  <2>2. others \in 0 .. MaxOther /\ strayed \in BOOLEAN
    <3>1. others = 0
      BY DEF Init
    <3>2. strayed = FALSE
      BY DEF Init
    <3>3. others \in 0 .. MaxOther
      BY <1>2, <3>1
    <3> QED  BY <3>2, <3>3
  <2>3. counter = Len(units) + 1 /\ Len(units) = Len(atoms)
    BY <1>1, <1>3
  <2> QED  BY <1>4, <2>1, <2>2, <2>3 DEF HistoryOK, BackLinksResolve, Paired
<1>8. Graph!Init
  <2>1. AtomGraph \in Seq([type : Types, outgoing : Seq(Nat)]) /\ Len(AtomGraph) = 0
    BY <1>1, <1>3, <1>5, GraphIs DEF GraphShape
  <2>2. AtomGraph = <<>>
    BY <2>1, EmptySeq
  <2> QED  BY <2>2 DEF Graph!Init
<1> QED  BY <1>5, <1>6, <1>7, <1>8 DEF IInv

\* Any call but the pipeline, given what it does to the two systems.
LEMMA DirectCall ==
    ASSUME IInv, SpaceStep, SystemStep, BackLinksResolve', Direct, others' \in 0 .. MaxOther
    PROVE  IInv' /\ (Graph!Next \/ UNCHANGED AtomGraph)
<1>1. HistoryOK' /\ Paired'
  BY DEF IInv, HistoryOK, Paired, Direct
<1> QED  BY <1>1 DEF IInv, SpaceStep, SystemStep

LEMMA SpaceCallInv ==
    ASSUME IInv, SpaceCall PROVE IInv' /\ (Graph!Next \/ UNCHANGED AtomGraph)
<1>1. SystemStep /\ SpaceInv /\ SystemInv /\ BackLinksResolve
  BY SystemKept DEF IInv, SpaceCall
<1>2. Direct /\ others' \in 0 .. MaxOther
  BY DEF SpaceCall, IInv, HistoryOK
<1>3. ASSUME NEW type \in NodeTypes, AddNode(type) PROVE SpaceStep /\ BackLinksResolve'
  BY <1>1, <1>3, NodeAdded
<1>4. ASSUME NEW type \in LinkTypes, NEW n \in 1 .. MaxArity,
             NEW out \in [1 .. n -> 0 .. MaxAtoms], AddLink(type, out)
      PROVE  SpaceStep /\ BackLinksResolve'
  <2>1. n \in Nat
    BY TransductionAssumption
  <2> QED  BY <1>1, <1>4, <2>1, LinkAdded
<1>5. SpaceStep /\ BackLinksResolve'
  BY <1>3, <1>4 DEF SpaceCall
<1> QED  BY <1>1, <1>2, <1>5, DirectCall

LEMMA SystemCallInv ==
    ASSUME IInv, SystemCall PROVE IInv' /\ (Graph!Next \/ UNCHANGED AtomGraph)
<1>1. SpaceStep /\ SystemInv /\ BackLinksResolve /\ UNCHANGED space
  BY SpaceKept DEF IInv, SystemCall
<1>2. Direct /\ others' \in 0 .. MaxOther
  BY DEF SystemCall, IInv, HistoryOK
<1>3. MaxUnits \in Nat /\ MaxWorkflows \in Nat
  BY TransductionAssumption
<1>4. SystemStep
  BY <1>1, <1>3, AddKnowledgeUnitInv, AddRelationInv, CreateWorkflowInv, AddWorkflowStepInv
     DEF SystemCall, SystemStep
<1> QED  BY <1>1, <1>2, <1>4, BackLinksStay, DirectCall

LEMMA OtherSystemCallInv ==
    ASSUME IInv, OtherSystem PROVE IInv' /\ (Graph!Next \/ UNCHANGED AtomGraph)
<1>1. SpaceStep /\ SystemInv /\ BackLinksResolve /\ UNCHANGED space
  BY SpaceKept DEF IInv, OtherSystem
<1>2. Direct /\ others' \in 0 .. MaxOther
  BY TransductionAssumption DEF OtherSystem, IInv, HistoryOK
<1>3. SystemStep
  BY <1>1, OtherSystemInv DEF OtherSystem, SystemStep
<1> QED  BY <1>1, <1>2, <1>3, BackLinksStay, DirectCall

LEMMA CogfluenceToOpencogInv ==
    ASSUME IInv, NEW id, CogfluenceToOpencog(id)
    PROVE  IInv' /\ (Graph!Next \/ UNCHANGED AtomGraph)
<1> DEFINE unit == units[UnitIndex(id)]
<1>1. SystemStep /\ SpaceInv /\ SystemInv /\ BackLinksResolve
  BY SystemKept DEF IInv, CogfluenceToOpencog
<1>2. Direct /\ others' \in 0 .. MaxOther
  BY DEF CogfluenceToOpencog, IInv, HistoryOK
<1>3. unit.atomspace_id = id /\ id \in Nat
  BY <1>1, UnitIndexIs DEF CogfluenceToOpencog
<1>4. UnitKnown(id)'
  BY <1>1, KnownStays DEF CogfluenceToOpencog
<1>5. FromCogfluenceUnit(unit)
  BY DEF CogfluenceToOpencog
<1>6. SpaceStep /\ BackLinksResolve'
  <2> HIDE DEF unit
  <2> QED  BY <1>1, <1>3, <1>4, <1>5, UnitAtomAdded
<1> QED  BY <1>1, <1>2, <1>6, DirectCall

LEMMA GgmlToCogfluenceInv ==
    ASSUME IInv, NEW named \in BOOLEAN, GgmlToCogfluence(named)
    PROVE  IInv' /\ (Graph!Next \/ UNCHANGED AtomGraph)
<1>1. SpaceStep /\ SystemInv /\ BackLinksResolve /\ UNCHANGED space
  BY SpaceKept DEF IInv, GgmlToCogfluence
<1>2. Direct /\ others' \in 0 .. MaxOther
  BY DEF GgmlToCogfluence, IInv, HistoryOK
<1>3. SystemStep
  BY <1>1, TransductionAssumption, AddKnowledgeUnitInv DEF GgmlToCogfluence, SystemStep
<1> QED  BY <1>1, <1>2, <1>3, BackLinksStay, DirectCall

\* The pipeline: if it ran alone so far there is room for the atom, and unit and
\* atom get the same number.
LEMMA FullPipelineInv ==
    ASSUME IInv, NEW named \in BOOLEAN, FullPipeline(named)
    PROVE  IInv' /\ (Graph!Next \/ UNCHANGED AtomGraph)
<1>1. SpaceInv /\ SystemInv /\ BackLinksResolve
  BY DEF IInv
<1>2. AddKnowledgeUnit("concept", named) /\ "concept" \in UnitTypes
  BY TransductionAssumption DEF FullPipeline
<1>3. PICK unit : unit = units'[Len(units')]
  OBVIOUS
<1>4. /\ SystemStep /\ Len(units') = Len(units) + 1
      /\ unit.atomspace_id = counter
  <2>1. MaxUnits \in Nat
    BY TransductionAssumption
  <2>2. /\ SystemInv' /\ UnitsGrow /\ Len(units') = Len(units) + 1
        /\ units'[Len(units')] = [atomspace_id |-> counter, type |-> "concept",
                                  named |-> named, related_units |-> <<>>]
    BY <1>1, <1>2, <2>1, AddKnowledgeUnitInv
  <2>3. unit = [atomspace_id |-> counter, type |-> "concept",
                named |-> named, related_units |-> <<>>]
    BY <1>3, <2>2
  <2>4. unit.atomspace_id = counter
    BY <2>3
  <2> QED  BY <2>2, <2>4 DEF SystemStep
<1>5. /\ counter \in Nat \ {0} /\ counter' = counter + 1
      /\ Len(units) \in Nat /\ Len(units) < MaxUnits
  BY <1>1, <1>2, RecordFacts DEF SystemInv, SystemTyped, AddKnowledgeUnit, UnitRoom
<1>6. UnitKnown(unit.atomspace_id)'
  <2>1. DOMAIN units' = Units'
    BY <1>4, UnitsDomainStill DEF SystemStep
  <2>2. Len(units') \in Units'
    BY <1>4, <1>5 DEF Units
  <2>3. units'[Len(units')].atomspace_id = unit.atomspace_id /\ unit.atomspace_id # 0
    BY <1>3, <1>4, <1>5
  <2> QED  BY <2>1, <2>2, <2>3 DEF UnitKnown, UnitAt
<1>7. others' \in 0 .. MaxOther /\ strayed' = (strayed \/ ~ named) /\ strayed' \in BOOLEAN
  BY DEF FullPipeline, IInv, HistoryOK
<1>8. CASE Room /\ named
  <2>1. /\ FromCogfluenceUnit(unit)
        /\ pipeline' = [made |-> atoms'[Len(atoms')].atom_id, used |-> unit.atomspace_id,
                        ok |-> unit.atomspace_id \in 1 .. Len(atoms')]
    BY <1>3, <1>8 DEF FullPipeline
  <2>2. SpaceStep /\ BackLinksResolve'
    BY <1>1, <1>4, <1>5, <1>6, <2>1, UnitAtomAdded
  <2>3. /\ Len(atoms) \in Nat /\ Len(atoms') = Len(atoms) + 1
        /\ atoms'[Len(atoms')].atom_id = Len(atoms) + 1
    <3>1. /\ <<>> \in Seq(Positions) /\ AtomTypeOf(unit.type) \in Types
          /\ MaxAtoms \in Nat /\ unit.atomspace_id \in Nat
      BY <1>4, <1>5, EmptySeq, AtomTypes, TransductionAssumption
    <3>2. AppendAtom(AtomTypeOf(unit.type), <<>>, unit.atomspace_id)
      BY <2>1 DEF FromCogfluenceUnit
    <3> QED  BY <1>1, <1>8, <3>1, <3>2, AppendAtomShape
  <2>4. pipeline' = [made |-> Len(atoms) + 1, used |-> counter,
                     ok |-> counter \in 1 .. Len(atoms) + 1]
    BY <1>4, <2>1, <2>3
  <2>5. HistoryOK'
    <3>1. (counter \in 1 .. Len(atoms) + 1) \in BOOLEAN
      OBVIOUS
    <3>2. Len(atoms) + 1 \in Nat /\ counter \in Nat
      BY <1>5, <2>3
    <3>3. pipeline' \in [made : Nat, used : Nat, ok : BOOLEAN]
      BY <2>4, <3>1, <3>2
    <3> QED  BY <1>7, <3>3 DEF HistoryOK
  <2>6. Paired'
    <3> SUFFICES ASSUME ~ strayed' PROVE Paired'
      BY DEF Paired
    <3>1. counter = Len(units) + 1 /\ Len(units) = Len(atoms)
      BY <1>7 DEF IInv, Paired
    <3>2. counter = Len(atoms) + 1 /\ counter \in 1 .. Len(atoms) + 1
      BY <1>5, <2>3, <3>1
    <3>3. pipeline'.ok /\ pipeline'.made = pipeline'.used
      BY <2>4, <3>2
    <3>4. counter' = Len(units') + 1 /\ Len(units') = Len(atoms')
      BY <1>4, <1>5, <2>3, <3>1
    <3> QED  BY <3>3, <3>4 DEF Paired
  <2> QED  BY <1>4, <2>2, <2>5, <2>6 DEF IInv, SpaceStep, SystemStep
<1>9. CASE ~ (Room /\ named)
  <2>1. /\ UNCHANGED space
        /\ pipeline' = [made |-> 0, used |-> 0, ok |-> FALSE]
    BY <1>9 DEF FullPipeline
  <2>2. SpaceStep /\ BackLinksResolve'
    BY <1>1, <1>4, <2>1, SpaceKept, BackLinksStay
  <2>3. HistoryOK'
    BY <1>7, <2>1 DEF HistoryOK
  <2>4. strayed'
    <3>1. SUFFICES ASSUME ~ strayed, named PROVE FALSE
      BY <1>7
    <3>2. Len(units) = Len(atoms) /\ MaxUnits <= MaxAtoms /\ MaxUnits \in Nat /\ MaxAtoms \in Nat
      BY <3>1, TransductionAssumption DEF IInv, Paired
    <3> QED  BY <1>5, <1>9, <3>1, <3>2 DEF Room
  <2>5. Paired'
    BY <2>4 DEF Paired
  <2> QED  BY <1>4, <2>2, <2>3, <2>5 DEF IInv, SpaceStep, SystemStep
<1> QED  BY <1>8, <1>9

LEMMA NextIInv == ASSUME IInv, [Next]_vars PROVE IInv' /\ (Graph!Next \/ UNCHANGED AtomGraph)
<1>1. CASE SpaceCall
  BY <1>1, SpaceCallInv
<1>2. CASE SystemCall
  BY <1>2, SystemCallInv
<1>3. CASE OtherSystem
  BY <1>3, OtherSystemCallInv
<1>4. ASSUME NEW id \in 1 .. counter, CogfluenceToOpencog(id)
      PROVE  IInv' /\ (Graph!Next \/ UNCHANGED AtomGraph)
  BY <1>4, CogfluenceToOpencogInv
<1>5. ASSUME NEW named \in BOOLEAN, GgmlToCogfluence(named) \/ FullPipeline(named)
      PROVE  IInv' /\ (Graph!Next \/ UNCHANGED AtomGraph)
  BY <1>5, GgmlToCogfluenceInv, FullPipelineInv
<1>6. CASE UNCHANGED vars
  <2>1. SpaceStep /\ SystemStep /\ BackLinksResolve'
    BY <1>6, SpaceKept, SystemKept, BackLinksStay DEF vars, IInv
  <2>2. UNCHANGED <<counter, units, atoms, pipeline, others, strayed>>
    BY <1>6 DEF vars, space, system
  <2>3. HistoryOK' /\ Paired'
    BY <2>2 DEF IInv, HistoryOK, Paired
  <2> QED  BY <2>1, <2>3 DEF IInv, SpaceStep, SystemStep
<1> QED  BY <1>1, <1>2, <1>3, <1>4, <1>5, <1>6 DEF Next

-----------------------------------------------------------------------------

LEMMA Invariance == Spec => []IInv
<1>1. Init => IInv
  BY InitIInv
<1>2. IInv /\ [Next]_vars => IInv'
  BY NextIInv
<1> QED  BY <1>1, <1>2, PTL DEF Spec

\* Every call leaves all variables typed and the arrays within their capacity.
THEOREM TypeCorrect == Spec => []TypeOK
<1>1. IInv => TypeOK
  <2> SUFFICES ASSUME IInv PROVE TypeOK
    OBVIOUS
  <2>1. SystemTypeOK
    BY SystemInvImplies DEF IInv
  <2>2. SpaceTypeOK
    <3>1. /\ atoms \in Seq(AtomRecords) /\ Len(atoms) <= MaxAtoms /\ Len(atoms) \in Nat
          /\ next_atom_id = Len(atoms) + 1
      BY LenProperties DEF IInv, SpaceInv, AtomsTyped, IdsArePlaces
    <3>2. \A i \in Positions : atoms[i] \in AtomRecords
      BY <3>1, ElementOfSeq DEF Positions
    <3> QED  BY <3>1, <3>2 DEF SpaceTypeOK, AtomRecords
  <2> QED  BY <2>1, <2>2 DEF IInv, HistoryOK, TypeOK
<1> QED  BY <1>1, Invariance, PTL

\* opencog_add_link keeps the reverse lists the mirror of the links.
THEOREM IncomingMirrorsHolds == Spec => []IncomingMirrors
<1>1. IInv => IncomingMirrors
  BY DEF IInv, SpaceInv
<1> QED  BY <1>1, Invariance, PTL

\* The one counter of ggml-cogfluence.c gives each unit and workflow an id of
\* its own.
THEOREM IdsNameHolds == Spec => []IdsName
<1>1. IInv => IdsName
  BY SystemInvImplies DEF IInv
<1> QED  BY <1>1, Invariance, PTL

\* cogfluence_add_relation keeps relations mutual, as often as it is called.
THEOREM RelationsMutualHolds == Spec => []RelationsMutual
<1>1. IInv => RelationsMutual
  BY SystemInvImplies DEF IInv
<1> QED  BY <1>1, Invariance, PTL

\* The steps of a workflow are units that exist.
THEOREM StepsKnownHolds == Spec => []StepsKnown
<1>1. IInv => StepsKnown
  BY SystemInvImplies DEF IInv
<1> QED  BY <1>1, Invariance, PTL

\* The unit an atom was made from is still there under the id it kept.
THEOREM BackLinksResolveHolds == Spec => []BackLinksResolve
<1>1. IInv => BackLinksResolve
  BY DEF IInv
<1> QED  BY <1>1, Invariance, PTL

\* A process that only runs the pipeline on inputs that are not empty never has
\* it fail half way, nor convert the wrong atom.
THEOREM PipelineAloneAlignedHolds == Spec => []PipelineAloneAligned
<1>1. IInv => PipelineAloneAligned
  BY DEF IInv, Paired, PipelineAloneAligned
<1> QED  BY <1>1, Invariance, PTL

\* The AtomSpace is a hypergraph that only grows: every call adds an atom with
\* older targets, or changes nothing of the graph.
THEOREM Refinement == Spec => ImplementsHypergraph
<1>1. Init => Graph!Init
  BY InitIInv
<1>2. IInv /\ [Next]_vars => [Graph!Next]_AtomGraph
  BY NextIInv
<1> QED  BY <1>1, <1>2, Invariance, PTL DEF Spec, ImplementsHypergraph, Graph!Spec

=============================================================================
