SPECIFICATION FairSpec
CONSTANTS
    w1 = w1
    w2 = w2
    Workers <- MCWorkers
    Size = 5
    PartSize = 2
    PayloadParts <- MCPayloadParts
INVARIANTS
    TypeOK
    OkMeansAllParts
    RootCauseReported
    FailureReported
    EachPartOnce
    QuiescentReturn
    SnapshotIsStored
PROPERTIES
    PoolReturns
    DispatcherEnds
    ImplementsBatch
