SPECIFICATION Spec
CHECK_DEADLOCK FALSE
CONSTANTS
    Alice = Alice
    Bob = Bob
    Users = {Alice, Bob}
    Tasks = {T1}
    Lease = Lease
    Invoice = Invoice
    Templates = {Lease, Invoice}
    Legal = Legal
    Sales = Sales
    NoCategory = NoCategory
    Categories = {Legal, Sales, NoCategory}
    LongCategories = {}
    NoRow = NoRow
    InitialCategory <- OneTemplate
    MaxRetries = 2
    QueryMax = 3
    ListMax = 2
    InitialDocuments <- SeveralDocuments
    InitialUsers = {Alice}
    MaxChanges = 2
    MaxUpdates = 2
INVARIANTS
    MenusAreCurrent
    ListsAreCurrent
    ListingsAreWhole
    LinesBounded
    FiguresWereTrue
    WholeInv
