SPECIFICATION DocumentSpec
CHECK_DEADLOCK FALSE
CONSTANTS
    FieldA = FieldA
    FieldB = FieldB
    Names = {FieldA, FieldB}
    Word = Word
    Break = Break
    Words = {Word, Break}
    MaxBody = 3
    MaxValue = 2
    MaxFields = 2
    Height = 47
    Margin = 20
    Pitch = 5
    Symbols <- LineSymbols
INVARIANTS
    DocumentTypeOK
    LeftoversExplained
    PrintedIsSimultaneous
    OnThePaper
    PagesFilled
    DocumentInv
