SPECIFICATION FairSpec
CONSTANTS
    Users = {u1, u2}
    u1 = u1
    u2 = u2
    MaxPosted = 2
    MaxFailures = 1
    MaxSessions = 2
    MaxRuns = 2
CHECK_DEADLOCK FALSE
INVARIANT EachOnceInOrder
INVARIANT ReplyIsInContext
INVARIANT NoContextOfOldSession
PROPERTY EveryMessageArrives
