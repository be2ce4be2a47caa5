SPECIFICATION Spec
CONSTANTS
    s1 = s1
    s2 = s2
    Senders = {s1, s2}
    Period = 2
    Burst = 2
    Idle = Idle
    MaxTime = 3
    MaxSlots = 4
    Given <- MCGiven
    Added = {"own"}
    MaxMessages = 2
    MaxAdded = 1
SYMMETRY Symmetry
INVARIANT LimiterKeepsRate
INVARIANT WireKeepsRate
INVARIANT RetriesAreEarned
CHECK_DEADLOCK FALSE
