SPECIFICATION Spec
CONSTANTS
    Width = 16
    BackoffMin = 10
    BackoffMax = 300
    MaxErrors = 20
INVARIANT NeverHot
