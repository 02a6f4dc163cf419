SPECIFICATION Spec
CHECK_DEADLOCK FALSE
CONSTANTS
    Users = {u1}
    Tasks = {t1, t2}
    Contract = Contract
    Draft = Draft
    Templates = {Contract, Draft}
    NoTemplate = NoTemplate
    FieldA = FieldA
    FieldB = FieldB
    Names = {FieldA, FieldB}
    Number = Number
    Word = Word
    StartCommand = StartCommand
    AdminCommand = AdminCommand
    Texts <- AllTexts
    NoText = NoText
    KindsOf <- TextKinds
    ShapesOf <- TextShapes
    InitialRows = {Contract}
    InitialFields <- BothFields
    MaxRetries = 3
    MaxUpdates = 5
    MaxFields = 0
    MaxCrashes = 1
SYMMETRY Symmetric
INVARIANTS
    TypeOK
    DialogsOK
    RecordedIsComplete
    OneDocumentPerPress
    DeliveredIsRecorded
