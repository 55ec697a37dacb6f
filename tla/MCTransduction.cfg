\* The system stops when every capacity and bound is used up.
CONSTANTS
    NodeTypes = {"ConceptNode"}
    LinkTypes = {"InheritanceLink", "ImplicationLink"}
    UnitTypes = {"concept", "rule"}
    MaxAtoms = 3
    MaxUnits = 2
    MaxWorkflows = 1
    MaxRelations = 2
    MaxSteps = 1
    MaxArity = 2
    MaxOther = 1
SPECIFICATION Spec
INVARIANTS
    TypeOK
    IncomingMirrors
    IdsName
    RelationsMutual
    StepsKnown
    BackLinksResolve
    PipelineAloneAligned
PROPERTIES
    ImplementsHypergraph
CHECK_DEADLOCK FALSE
