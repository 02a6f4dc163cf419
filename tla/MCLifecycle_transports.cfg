SPECIFICATION FairSpec
CHECK_DEADLOCK FALSE
CONSTANTS
    Statements = 2
    MaxUpdates = 2
    MaxFaults = 2
    MaxStops = 2
    MaxRenewals = 1
INVARIANTS
    HookHasServer
    ServesWithSchema
    PollsWithoutHook
    PollsNothingLate
    IndInv
PROPERTIES
    StopsWhenTold
    NoUpdateIsStuck
