SPECIFICATION Spec
CONSTANTS
    a = a
    b = b
    two = two
    tiny = tiny
    u1 = u1
    u2 = u2
    None = None
    Callers <- TwoCallers
    Bodies <- OneBody
    NumParts <- PartsOfOne
    Small <- NoBody
    UploadIDs <- TwoUploads
    Faults = {"crash", "abort", "part", "lostReply", "lostInitiate", "complete", "delete", "canceled", "deadline"}
SYMMETRY Symmetry
CONSTRAINTS CalmAfterRecovery OneReason
INVARIANTS
    TypeOK
    CountedIsHeld
PROPERTIES
    WholeUnlessCanceled
    NoOrphan
    UsesBatch
