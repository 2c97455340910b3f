CONSTANTS
    MaxOps = 2
    RollAt = 2
    MaxSegments = 3
    CheckpointBelow = 3
    Refusals = TRUE
    CrashPoints = {"Creating", "Idle", "Journaled", "Performed", "Committed", "Append", "Snapshotted", "Manifested", "Switched"}
    Faults = {"nothing", "torn", "unsynced"}
    Damages = {"BadHeader", "BadPayload"}
SPECIFICATION Spec
VIEW View
PROPERTIES
    RecoveryInventsNothing
