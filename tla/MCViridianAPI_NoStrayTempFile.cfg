CONSTANTS
    RotatesRefresh <- MCRotatesRefresh
    NetMayFail <- MCNetMayFail
SPECIFICATION Spec
INVARIANT
    NoStrayTempFile
