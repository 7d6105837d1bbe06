SPECIFICATION MCFairSpec
CONSTANTS
    Intervals = {1, 3}
    MaxFailures = 3
    IdleLimit = 4
    MaxSuperseded = 2
    MaxActs = 5
INVARIANTS
    CountdownInv
PROPERTIES
    TicksAreWanted
    TicksForEver
    IdleSwitchesOff
