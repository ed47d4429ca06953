CONSTANTS
    NItems <- MCNItems
    QueryMayFail <- MCQueryMayFail
SPECIFICATION Spec
INVARIANTS
    TypeOK
    SuccessMeansComplete
    OkOnlyIfAllComplete
