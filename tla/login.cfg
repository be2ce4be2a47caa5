SPECIFICATION FairSpec
CONSTANTS
    MaxRefreshCount = 2
    MaxCodes = 4
INVARIANT CodesAreRationed
INVARIANT OutcomeIsEarned
PROPERTY LoginEnds
CHECK_DEADLOCK FALSE
