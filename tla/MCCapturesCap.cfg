CONSTANTS
    c1 = c1
    c2 = c2
    Capture = {c1, c2}
    Size <- MCSize
    Caps <- MCCaps
    Unknown = Unknown
    MaxEdits = 1
    MaxRestarts = 0
    MaxFailures = 0
SPECIFICATION Spec
INVARIANT CapturesWithinCap
CHECK_DEADLOCK FALSE
