SPECIFICATION Spec
CHECK_DEADLOCK FALSE
CONSTANTS
    Guest = Guest
    Owner = Owner
    t1 = t1
    t2 = t2
    Users = {Guest}
    Tasks = {t1, t2}
    Blank = Blank
    Junk = Junk
    Envs <- AdminLists
    Interval = 2
    MaxRetries = 2
    MaxAttempts = 3
    Boot = 4
    MaxTime = 6
    MaxForward = 1
    MaxBack = 2
SYMMETRY Symmetric
INVARIANTS
    PanelIsEarned
    GuessesBounded
    LockoutIsEarned
    FloodBounded
    ShutOutBounded
    IndInv
