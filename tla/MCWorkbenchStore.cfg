\* Three requests of any kind on a session that awaits verification.
SPECIFICATION Spec
CONSTANTS
    r1 = r1
    r2 = r2
    r3 = r3
    Free = Free
    Requests = {r1, r2, r3}
    Offered <- Everything
    Areas <- TwoAreas
    Scopes <- SomeScopes
    StartStatus = "verification_required"
SYMMETRY Symmetry
CHECK_DEADLOCK FALSE
INVARIANTS
    AuditTrail
    CutoverSound
