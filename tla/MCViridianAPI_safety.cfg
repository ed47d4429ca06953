CONSTANTS
    RotatesRefresh <- MCRotatesRefresh
    NetMayFail <- MCNetMayFail
SPECIFICATION Spec
INVARIANTS
    TypeOK
    DeleteOkOnlyIfDeletedByCli
PROPERTY
    CommandTerminates
    OneRefreshPerCall
