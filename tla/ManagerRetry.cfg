SPECIFICATION FairSpec
CONSTANTS
    a = a
    b = b
    two = two
    tiny = tiny
    u1 = u1
    u2 = u2
    None = None
    Callers <- OneCaller
    Bodies <- MixedBodies
    NumParts <- PartsOfMixed
    Small <- TinyOnly
    UploadIDs <- TwoUploads
    Faults = {"put", "load", "initiate", "body", "part", "save"}
PROPERTIES
    RetrySucceeds
