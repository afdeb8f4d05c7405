CONSTANTS
    ROW_PAGES = 1
    BODY_PAGES = 2
    Caps <- MCCaps
    STORAGE_PRUNE_MIN_DELETE_ROWS = 1
    STORAGE_PRUNE_MAX_PASSES = 1
    MaxRows = 5
    MaxEdits = 2
    MaxRestarts = 1
    MaxFailures = 1
SPECIFICATION FairSpec
PROPERTY BodiesGoFirst
PROPERTY PrunesAreServed
CHECK_DEADLOCK FALSE
