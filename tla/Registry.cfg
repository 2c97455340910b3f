SPECIFICATION Spec
CONSTANTS
    Classes = {1, 2, 3}
    Scopes = {1, 2, 3}
    Policies = {1}
    Subjects = {1, 2, 3}
    Assignments = {1}
    Incarnations = {p}
    Absent = Absent
    ClassDefs <- ClassChoice
    ScopeDefs <- ScopeChoice
    PolicyDefs <- FewPolicies
    SubjectDefs <- SubjectChoice
    AssignmentDefs <- FewAssignments
    MaxScopeDepth = 4
    MaxInheritance = 3
    MaxPopulation = 3
    MaxGeneration = 2
    MaxEpoch = 2
INVARIANTS
    StructureSound
    ReferencesResolve
    IndexComplete
PROPERTIES
    GenerationTracksContent
    AcknowledgedGeneration
ACTION_CONSTRAINT Focus
VIEW View
