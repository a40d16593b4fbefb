SPECIFICATION MCSpec
CONSTANTS
    Offset <- OneReminder
    Rolls <- OneRoll
    Expiry = 2
    GraceEnd = 3
    EarnNotices = {}
    MaxAttempts = 2
    MaxTime = 3
    MaxFaults = 1
    MaxEdits = 0
    Editors = {}
    Shown = {}
    MaxRolls = 0
PROPERTY NeverLate
CHECK_DEADLOCK FALSE
