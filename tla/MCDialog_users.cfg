SPECIFICATION FairSpec
CHECK_DEADLOCK FALSE
CONSTANTS
    Users = {u1, u2}
    Tasks = {t1, t2}
    Contract = Contract
    Draft = Draft
    Templates = {Contract}
    NoTemplate = NoTemplate
    FieldA = FieldA
    FieldB = FieldB
    Names = {FieldA}
    Number = Number
    Word = Word
    StartCommand = StartCommand
    AdminCommand = AdminCommand
    Texts <- JustNumber
    NoText = NoText
    KindsOf <- TextKinds
    ShapesOf <- TextShapes
    InitialRows = {Contract}
    InitialFields <- OneField
    MaxRetries = 3
    MaxUpdates = 6
    MaxFields = 0
    MaxCrashes = 0
INVARIANT IndInv
PROPERTIES
    DeliveryPromise
    EveryHandlerEnds
