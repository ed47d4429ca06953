CONSTANTS
    NItems <- MCNItems
    QueryMayFail <- MCQueryMayFail
SPECIFICATION Spec
PROPERTY
    DeadlineIsTimeout
