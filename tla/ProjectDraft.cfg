CONSTANTS
    t1 = t1
    t2 = t2
    Proc <- MCProc
    Value <- MCValue
    Blank = ""
    Garbled = "garbled"
    Octets <- MCOctets
    Names <- MCNames
    Typed <- MCTyped
    MaxRuns = 2
    MaxSaves = 1
SPECIFICATION Spec
INVARIANTS
    TypeOK
    SuccessMeansCreated
    RefusedMadeNone
    FieldsInPlace
    DraftIsKept
SYMMETRY Terminals
