CONSTANTS
    MaxOps = 3
    RollAt = 4
    MaxSegments = 4
    CheckpointBelow = 2
    Refusals = TRUE
    CrashPoints = {"Creating", "Idle", "Journaled", "Performed", "Committed", "Append", "Snapshotted", "Switched"}
    Faults = {"nothing", "unsynced"}
    Damages = {"BadPayload"}
SPECIFICATION Spec
VIEW View
PROPERTIES
    ImplementsAcknowledgedLog
