SPECIFICATION Spec
CHECK_DEADLOCK FALSE
CONSTANTS
    sub = sub
    guest = guest
    Users = {sub, guest}
    Subscribers = {sub}
    Offers <- AllOffers
    Pack <- ThePack
    MaxRetries = 3
    MaxPurchases = 2
    MaxCrashes = 1
INVARIANTS
    OnlyThePackIsCharged
    BooksAgree
    ToldIsBooked
    CreditsBounded
    IndInv
PROPERTIES
    SalePromise
