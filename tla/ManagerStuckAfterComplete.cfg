SPECIFICATION FairSpec
CONSTANTS
    a = a
    b = b
    two = two
    tiny = tiny
    u1 = u1
    u2 = u2
    None = None
    Callers <- OneCaller
    Bodies <- OneBody
    NumParts <- PartsOfOne
    Small <- NoBody
    UploadIDs <- TwoUploads
    Faults = {"complete"}
PROPERTIES
    RetrySucceeds
