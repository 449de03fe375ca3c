SPECIFICATION FairSpec
CONSTANTS
    PartSize = 3
    ThresholdOptions <- MCThresholds
    Lengths <- MCLengths
    MaxBytes = 8
INVARIANTS
    TypeOK
    CommittedIsWritten
    NoByteLost
    ClosedReleases
PROPERTIES
    CommitRule
    CallReturns
