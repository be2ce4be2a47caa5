SPECIFICATION MessageSpec
CONSTANTS
    loop = loop
    c1 = c1
    Loop = loop
    Callers = {c1}
    MaxSessions = 2
INVARIANTS SessionsAreNotMixed GuardStopsRequests SuccessIsComplete
PROPERTY NothingIsLost
VIEW View
