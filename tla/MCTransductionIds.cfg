\* A workflow, or any direct call, before the pipeline.
CONSTANTS
    NodeTypes = {"ConceptNode"}
    LinkTypes = {"InheritanceLink", "ImplicationLink"}
    UnitTypes = {"concept", "rule"}
    MaxAtoms = 3
    MaxUnits = 2
    MaxWorkflows = 1
    MaxRelations = 1
    MaxSteps = 1
    MaxArity = 2
    MaxOther = 0
SPECIFICATION Spec
INVARIANTS
    PipelineFindsItsAtom
CHECK_DEADLOCK FALSE
