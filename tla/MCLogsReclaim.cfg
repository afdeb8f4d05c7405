CONSTANTS
    ROW_PAGES = 1
    BODY_PAGES = 2
    Caps <- MCCaps
    STORAGE_PRUNE_MIN_DELETE_ROWS = 1
    STORAGE_PRUNE_MAX_PASSES = 1
    MaxRows = 4
    MaxEdits = 0
    MaxRestarts = 0
    MaxFailures = 1
SPECIFICATION Spec
PROPERTY MetadataGoesLast
CHECK_DEADLOCK FALSE
