SPECIFICATION Spec
CHECK_DEADLOCK FALSE
CONSTANTS
    sub = sub
    guest = guest
    Users = {sub, guest}
    Subscribers = {sub}
    Offers <- JustThePack
    Pack <- ThePack
    MaxRetries = 3
    MaxPurchases = 2
    MaxCrashes = 0
INVARIANT
    OnePackPerCharge
