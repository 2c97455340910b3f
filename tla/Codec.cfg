SPECIFICATION Spec
CONSTANTS
    Kinds = {"class", "scope", "policy", "subject", "assignment", "audit", "query", "decision",
             "generation", "hello", "hello_response", "session_request", "retire", "fence",
             "reason", "stats", "integrity", "error", "mutation", "state", "frame"}
    Values <- ValuesOf
    Noise = {0, 1, 5}
    max_id_length = 3
    kMaxRawIdBytes = 4
    max_description_length = 5
    max_note_length = 5
    max_inherits_from = 2
    max_policy_classes = 2
    max_explanation_steps = 2
    max_rows = 2
    max_publishers = 2
    max_audit_entries = 2
    kTextBound = 5
    kMaxRank = 60
INVARIANTS
    
    CutTextStaysText
    AcceptedIsCanonical
    DisturbanceDetected
