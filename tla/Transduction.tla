---------------------------- MODULE Transduction ----------------------------
(***************************************************************************)
(* The part of ggml-distributed-cognitive.c that moves knowledge between   *)
(* its Cogfluence system and its AtomSpace, composed from the modules of   *)
(* the two.  One process, one thread: a call is one step, failures of its  *)
(* later stages included.                                                  *)
(***************************************************************************)
EXTENDS AtomSpace, Cogfluence

CONSTANTS MaxArity,    \* bound: targets of one link
          MaxOther     \* bound: ids drawn by other Cogfluence systems

ASSUME TransductionAssumption ==
    /\ AtomTypeOf("relation") \in LinkTypes /\ AtomTypeOf("rule") \in LinkTypes
    /\ AtomTypeOf("concept") \in NodeTypes
    /\ "concept" \in UnitTypes
    /\ MaxUnits <= MaxAtoms   \* 1024 and 2048
    /\ \A n \in {MaxAtoms, MaxUnits, MaxWorkflows, MaxRelations, MaxSteps,
                 MaxArity, MaxOther} : n \in Nat

VARIABLES pipeline,  \* history: the last run of the full pipeline
          others,    \* history: ids drawn outside this architecture
          strayed    \* history: any call but the pipeline on a non-empty input?

vars == <<space, system, pipeline, others, strayed>>

\* What the pipeline did: the atom it made in stage 2 and the one it used in
\* stage 3, and whether it returned true.
NoRun == [made |-> 0, used |-> 0, ok |-> TRUE]

Init == /\ SpaceInit /\ SystemInit
        /\ pipeline = NoRun /\ others = 0 /\ strayed = FALSE

\* Everything a program calls besides the pipeline.
Direct == strayed' = TRUE /\ UNCHANGED pipeline

SpaceCall ==
    /\ \/ \E type \in NodeTypes : AddNode(type)
       \/ \E type \in LinkTypes, n \in 1 .. MaxArity :
             \E out \in [1 .. n -> 0 .. MaxAtoms] : AddLink(type, out)
    /\ Direct
    /\ UNCHANGED <<system, others>>

SystemCall ==
    /\ \/ \E type \in UnitTypes, named \in BOOLEAN : AddKnowledgeUnit(type, named)
       \/ \E id1, id2 \in 1 .. counter : AddRelation(id1, id2)
       \/ CreateWorkflow
       \/ \E wid, uid \in 1 .. counter : AddWorkflowStep(wid, uid)
    /\ Direct
    /\ UNCHANGED <<space, others>>

OtherSystem ==
    /\ others < MaxOther
    /\ others' = others + 1
    /\ OtherSystemDrawsId
    /\ Direct
    /\ UNCHANGED space

\* transduction_cogfluence_to_opencog, for a unit that exists.
CogfluenceToOpencog(id) ==
    /\ UnitKnown(id)
    /\ FromCogfluenceUnit(units[UnitIndex(id)])
    /\ Direct
    /\ UNCHANGED <<system, others>>

\* transduction_opencog_to_ggml only reads; transduction_ggml_to_cogfluence is
\* cogfluence_from_tensor, which adds a concept and finds it again.
GgmlToCogfluence(named) ==
    /\ AddKnowledgeUnit("concept", named)
    /\ Direct
    /\ UNCHANGED <<space, others>>

\* transduction_full_pipeline.  Stage 1 adds a unit, stage 2 an atom for it;
\* stage 3 takes the unit's atomspace_id for the atom.  The input is the name
\* of both; the unit of a stage 2 that fails stays.
FullPipeline(named) ==
    /\ AddKnowledgeUnit("concept", named)
    /\ strayed' = (strayed \/ ~ named)
    /\ LET unit == units'[Len(units')] IN
       IF Room /\ named
       THEN /\ FromCogfluenceUnit(unit)
            /\ pipeline' = [made |-> atoms'[Len(atoms')].atom_id,
                            used |-> unit.atomspace_id,
                            ok   |-> unit.atomspace_id \in 1 .. Len(atoms')]
       ELSE /\ UNCHANGED space
            /\ pipeline' = [made |-> 0, used |-> 0, ok |-> FALSE]
    /\ UNCHANGED others

Next == \/ SpaceCall \/ SystemCall \/ OtherSystem
        \/ \E id \in 1 .. counter : CogfluenceToOpencog(id)
        \/ \E named \in BOOLEAN : GgmlToCogfluence(named) \/ FullPipeline(named)

Spec == Init /\ [][Next]_vars

-----------------------------------------------------------------------------

TypeOK == /\ SpaceTypeOK /\ SystemTypeOK
          /\ pipeline \in [made : Nat, used : Nat, ok : BOOLEAN]
          /\ others \in 0 .. MaxOther /\ strayed \in BOOLEAN

\* The AtomSpace links back to the unit an atom was made from, and the unit is
\* still there under that id.
BackLinksResolve == \A i \in Positions :
    atoms[i].cogfluence_unit_id # 0 => UnitKnown(atoms[i].cogfluence_unit_id)

\* A process that only runs the pipeline, on inputs that are not empty, keeps
\* the counters of ggml-cogfluence.c and ggml-opencog.c in step: no stage fails
\* once a unit was added, and stage 3 uses the atom of stage 2.
PipelineAloneAligned == ~ strayed => pipeline.ok /\ pipeline.made = pipeline.used

\* Stage 3, "Find corresponding atom and transduce to GGML", finds the atom
\* that stage 2 made for the unit.
PipelineFindsItsAtom == pipeline.ok => pipeline.made = pipeline.used

=============================================================================
