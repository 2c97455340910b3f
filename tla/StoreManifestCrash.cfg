CONSTANTS
    MaxOps = 3
    RollAt = 4
    MaxSegments = 4
    CheckpointBelow = 2
    Refusals = FALSE
    CrashPoints = {"Manifested"}
    Faults = {}
    Damages = {}
SPECIFICATION Spec
VIEW View
PROPERTIES
    RecoveryKeepsAcknowledged
