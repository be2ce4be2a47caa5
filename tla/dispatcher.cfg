SPECIFICATION FairSpec
CONSTANTS
    t1 = t1
    t2 = t2
    Threads = {t1, t2}
    EventTypes = {msg}
    msg = msg
    Free = Free
    MaxHandlers = 2
    MaxPending = 3
INVARIANT QuietAfterClose
INVARIANT ExactAccounting
INVARIANT NoLostSubscription
PROPERTY ImplementsContract
PROPERTY CloseTerminates
