SPECIFICATION ChatSpec
CONSTANTS
    own = own
    Failing = {own}
    command = command
    reply = reply
    logout = logout
    logout2 = logout2
    loop = loop
    c1 = c1
    c2 = c2
    Plugins <- MCPlugins
    Name <- MCName
    Received = {"exit", "keyword", "media"}
    Kind <- MCKind
    Configured <- MCConfigured
    Loop = loop
    Callers = {c1, c2}
    MaxCalls = 2
    MaxRuns = 2
CHECK_DEADLOCK FALSE
INVARIANTS InitializeIsAlone ConfirmationIsFresh
PROPERTY EarlyIsExplained
PROPERTY CallsReturnOrPanic
