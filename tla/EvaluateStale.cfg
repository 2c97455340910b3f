SPECIFICATION Spec
CONSTANTS
    Classes = {1, 2}
    Scopes = {1}
    Policies = {1}
    Subjects = {1}
    Assignments = {1}
    Incarnations = {p}
    Absent = Absent
    ClassDefs <- StaleClasses
    ScopeDefs <- OneRoot
    PolicyDefs <- StalePolicies
    SubjectDefs <- OneSubject
    AssignmentDefs <- StaleAssignments
    MaxScopeDepth = 3
    MaxInheritance = 2
    MaxPopulation = 3
    MaxGeneration = 3
    MaxEpoch = 2
    Queries <- PlainQueries
    MaxQuerySteps = 8
INVARIANTS
    DecisionsRestOnLiveEvidence
PROPERTIES
    StaleIsFinal
    RepublicationHarmless
VIEW View
