CONSTANTS
    t1 = t1
    t2 = t2
    Proc <- MCProc
    NewField <- PairNewField
    UpdateField <- MCUpdateField
    Optional <- MCOptional
    Option <- MCOption
    Word <- MCWord
    Separator = "separator"
    Blank = "blank"
    Typed <- PairTyped
    Subject <- PairSubject
    MaxRuns = 2
    MaxChanges = 1
SPECIFICATION Spec
INVARIANTS
    PostsWhatWasShown
    DraftIsKept
PROPERTY
    SubmissionSpec
    RemovedOnceRead
SYMMETRY Terminals
