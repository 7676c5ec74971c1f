CONSTANTS
    GapThreshold = 2
    SuspiciousJitter = 0
    HighJitter = 1
    NoStamp = NoStamp
    Stamps <- MCStamps
    MaxMessages = 5
SPECIFICATION Spec
INVARIANT VerdictMatchesHistory
INVARIANT LifetimeIsSumOfWindows
