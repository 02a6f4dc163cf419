SPECIFICATION Spec
CHECK_DEADLOCK FALSE
CONSTANTS
    Users = {u1}
    Tasks = {t1, t2}
    Contract = Contract
    Draft = Draft
    Templates = {Contract}
    NoTemplate = NoTemplate
    FieldA = FieldA
    FieldB = FieldB
    Names = {FieldA, FieldB}
    Number = Number
    Word = Word
    StartCommand = StartCommand
    AdminCommand = AdminCommand
    Texts <- AllTexts
    NoText = NoText
    KindsOf <- TextKinds
    ShapesOf <- TextShapes
    InitialRows = {Contract}
    InitialFields <- OneField
    MaxRetries = 3
    MaxUpdates = 6
    MaxFields = 0
    MaxCrashes = 1
    FreeDocsLimit = 1
INVARIANT FreeAllowance
