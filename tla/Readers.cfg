SPECIFICATION MCSpec
CONSTANTS
    Offset <- OneReminder
    Rolls <- OneRoll
    Expiry = 3
    GraceEnd = 3
    EarnNotices = {"approval"}
    MaxAttempts = 2
    MaxTime = 3
    MaxFaults = 2
    MaxEdits = 1
    Editors = {"borrower", "curator", "holder"}
    Shown = {"approval"}
    MaxRolls = 1
INVARIANTS RetriesHaveTheirMessage IndexFollowsChain
PROPERTIES NothingTwiceNothingLost NoticesEnd
CHECK_DEADLOCK FALSE
