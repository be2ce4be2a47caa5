SPECIFICATION FairSpec
CONSTANTS
    r1 = r1
    r2 = r2
    c1 = c1
    c2 = c2
    Runners = {r1, r2}
    Closers = {c1, c2}
    NoRun = NoRun
    MaxCalls = 2
    MaxBatch = 2
INVARIANT SingleRun
INVARIANT CloseIsFinal
INVARIANT NoLostWakeup
PROPERTY CloseEnds
PROPERTY CancelEndsRun
