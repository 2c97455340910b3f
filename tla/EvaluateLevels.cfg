SPECIFICATION Spec
CONSTANTS
    Classes = {1, 2}
    Scopes = {1, 2}
    Policies = {1}
    Subjects = {1, 2}
    Assignments = {1, 2, 3}
    Incarnations = {p}
    Absent = Absent
    ClassDefs <- TwoClasses
    ScopeDefs <- LevelScopes
    PolicyDefs <- NoDefs
    SubjectDefs <- Family
    AssignmentDefs <- LevelAssignments
    MaxScopeDepth = 3
    MaxInheritance = 2
    MaxPopulation = 3
    MaxGeneration = 2
    MaxEpoch = 1
    Queries <- EveryQuery
    MaxQuerySteps = 8
INVARIANTS
    ConflictsReported
    UnknownMeansNoEvidence
    
PROPERTIES
    NarrowerCannotDisplace
VIEW View
