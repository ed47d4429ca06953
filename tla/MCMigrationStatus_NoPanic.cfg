CONSTANTS
    NItems <- MCNItems
    QueryMayFail <- MCQueryMayFail
SPECIFICATION Spec
INVARIANT
    NoPanic
