CONSTANTS
    p1 = p1
    b1 = b1
    b2 = b2
    a1 = a1
    Publishers = {p1}
    Boots = {b1, b2}
    Assignments = {a1}
    MaxEpoch = 3
    MaxToken = 4
    MaxBoots = 3
    MaxPublishers = 2
SPECIFICATION Spec
SYMMETRY Symmetry
VIEW View
INVARIANTS
    TypeOK
    OneLiveIncarnation
    OnlyNewestSessionAccepted
    UsableEvidenceIsNewest
    
    
    DegradedIsPowerless
PROPERTIES
    FencedIsFinal
    
    OpenRestoresNoAuthority
    EvidenceNeverRevives
