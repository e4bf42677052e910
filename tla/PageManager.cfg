CONSTANTS
    Sizes = {1, 2}
    MaxPages = 6
SPECIFICATION Spec
INVARIANTS
    PagesHaveOneOwner
    DurablePagesAreNotReused
    CheckpointIsComplete
    RecoveryFindsChunks
    TrackedPagesExist
    PopsBestFit
