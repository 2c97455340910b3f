SPECIFICATION Spec
CONSTANTS
    Processes = {p1, p2, p3}
    Exclusive = {p1, p2, p3}
    Creators = {p1, p2}
    Keys = {k1, k2}
    MaxRecords = 3
    Nobody = Nobody
    NoFile = NoFile
    Torn = Torn
    Junk = Junk
INVARIANTS   LockMeansPresence
