SPECIFICATION Spec
CHECK_DEADLOCK FALSE
CONSTANTS
    Users = {u1}
    Tasks = {t1}
    Contract = Contract
    Draft = Draft
    Templates = {Contract}
    NoTemplate = NoTemplate
    FieldA = FieldA
    FieldB = FieldB
    Names = {FieldA}
    Number = Number
    Word = Word
    StartCommand = StartCommand
    AdminCommand = AdminCommand
    Texts <- NumberAndWord
    NoText = NoText
    KindsOf <- TextKinds
    ShapesOf <- TextShapes
    InitialRows = {}
    InitialFields <- NoFields
    MaxRetries = 3
    MaxUpdates = 4
    MaxFields = 2
    MaxCrashes = 0
INVARIANT RecordedIsComplete
