SPECIFICATION Spec
CONSTANTS
    loop = loop
    c1 = c1
    Loop = loop
    Callers = {c1}
    MaxTokens = 2
INVARIANT Agreement
INVARIANT LoggedOutIsForgotten
INVARIANT NeverAskAgain
INVARIANT LoggedOutForGood
VIEW View
