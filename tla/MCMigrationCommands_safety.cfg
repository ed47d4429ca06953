CONSTANTS
    NStages <- MCNStages
SPECIFICATION Spec
INVARIANTS
    StartedOnlyWithConsent
    OkOnlyIfEveryStageSucceeded
