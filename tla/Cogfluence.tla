----------------------------- MODULE Cogfluence -----------------------------
(***************************************************************************)
(* Knowledge units and workflows of ggml-cogfluence.c.  All units and      *)
(* workflows of all systems of a process draw their ids from one static    *)
(* counter.  Activation, attention and performance figures are not         *)
(* modelled.                                                               *)
(***************************************************************************)
EXTENDS Naturals, Sequences, FiniteSets

CONSTANTS UnitTypes,
          MaxUnits,       \* unit_capacity
          MaxWorkflows,   \* workflow_capacity
          MaxRelations,   \* bound: relations of one unit
          MaxSteps        \* bound: steps of one workflow

VARIABLES counter,    \* the static counter of generate_unit_id
          units,      \* knowledge_units, up to unit_count
          workflows   \* workflows, up to workflow_count

system == <<counter, units, workflows>>

SystemInit == counter = 1 /\ units = <<>> /\ workflows = <<>>

UnitAt(id) == {i \in DOMAIN units : units[i].atomspace_id = id}
WorkflowAt(id) == {i \in DOMAIN workflows : workflows[i].workflow_id = id}
UnitKnown(id) == id # 0 /\ UnitAt(id) # {}
UnitIndex(id) == CHOOSE i \in UnitAt(id) : \A j \in UnitAt(id) : i <= j

UnitRoom == Len(units) < MaxUnits

\* Mutant: ids count from 0.
AddKnowledgeUnitFromZero(type, named) ==
    /\ UnitRoom
    /\ units' = Append(units, [atomspace_id |-> counter - 1, type |-> type,
                               named |-> named, related_units |-> <<>>])
    /\ counter' = counter + 1
    /\ UNCHANGED workflows

\* cogfluence_add_knowledge_unit; atomspace_id is the unit's own id.  Of the
\* name only matters whether it is empty: it may be.
AddKnowledgeUnit(type, named) ==
    /\ UnitRoom
    /\ units' = Append(units, [atomspace_id |-> counter, type |-> type,
                               named |-> named, related_units |-> <<>>])
    /\ counter' = counter + 1
    /\ UNCHANGED workflows

\* Mutant: only the first unit learns of the relation.
AddRelationOneWay(id1, id2) ==
    /\ id1 # id2 /\ UnitKnown(id1) /\ UnitKnown(id2)
    /\ Len(units[UnitIndex(id1)].related_units) < MaxRelations
    /\ units' = [units EXCEPT ![UnitIndex(id1)].related_units = Append(@, id2)]
    /\ UNCHANGED <<counter, workflows>>

\* cogfluence_add_relation: both ways, and again if asked again.
AddRelation(id1, id2) ==
    /\ id1 # id2 /\ UnitKnown(id1) /\ UnitKnown(id2)
    /\ \A id \in {id1, id2} : Len(units[UnitIndex(id)].related_units) < MaxRelations
    /\ units' = [units EXCEPT ![UnitIndex(id1)].related_units = Append(@, id2),
                              ![UnitIndex(id2)].related_units = Append(@, id1)]
    /\ UNCHANGED <<counter, workflows>>

\* Mutant: workflows are numbered by themselves.
CreateWorkflowOwnIds ==
    /\ Len(workflows) < MaxWorkflows
    /\ workflows' = Append(workflows, [workflow_id |-> Len(workflows) + 1,
                                       step_units |-> <<>>])
    /\ UNCHANGED <<counter, units>>

CreateWorkflow ==
    /\ Len(workflows) < MaxWorkflows
    /\ workflows' = Append(workflows, [workflow_id |-> counter, step_units |-> <<>>])
    /\ counter' = counter + 1
    /\ UNCHANGED units

\* Mutant: the unit of a step is not looked up.
AddWorkflowStepUnverified(wid, uid) ==
    \E w \in WorkflowAt(wid) :
        /\ Len(workflows[w].step_units) < MaxSteps
        /\ workflows' = [workflows EXCEPT ![w].step_units = Append(@, uid)]
        /\ UNCHANGED <<counter, units>>

AddWorkflowStep(wid, uid) ==
    /\ UnitKnown(uid)
    /\ \E w \in WorkflowAt(wid) :
        /\ \A v \in WorkflowAt(wid) : w <= v
        /\ Len(workflows[w].step_units) < MaxSteps
        /\ workflows' = [workflows EXCEPT ![w].step_units = Append(@, uid)]
    /\ UNCHANGED <<counter, units>>

\* Another Cogfluence system of the process makes a unit or a workflow.
OtherSystemDrawsId == counter' = counter + 1 /\ UNCHANGED <<units, workflows>>

-----------------------------------------------------------------------------

SystemTypeOK ==
    /\ counter \in Nat \ {0}
    /\ Len(units) <= MaxUnits /\ Len(workflows) <= MaxWorkflows
    /\ \A i \in DOMAIN units : /\ units[i].atomspace_id \in Nat
                               /\ units[i].type \in UnitTypes
                               /\ units[i].named \in BOOLEAN
                               /\ units[i].related_units \in Seq(Nat)
    /\ \A w \in DOMAIN workflows : /\ workflows[w].workflow_id \in Nat
                                   /\ workflows[w].step_units \in Seq(Nat)

\* One counter for units and workflows: an id names one thing of the process.
IdsName == /\ \A i \in DOMAIN units : UnitAt(units[i].atomspace_id) = {i}
           /\ \A w \in DOMAIN workflows :
                 /\ WorkflowAt(workflows[w].workflow_id) = {w}
                 /\ UnitAt(workflows[w].workflow_id) = {}

\* Relations are mutual, multiplicity included, and no unit is related to
\* itself; the steps of a workflow are units that exist.
Occurs(id, s) == Cardinality({k \in DOMAIN s : s[k] = id})
RelationsMutual == \A i, j \in DOMAIN units :
    Occurs(units[j].atomspace_id, units[i].related_units)
        = Occurs(units[i].atomspace_id, units[j].related_units)
StepsKnown == \A w \in DOMAIN workflows :
    \A k \in DOMAIN workflows[w].step_units : UnitKnown(workflows[w].step_units[k])

=============================================================================
