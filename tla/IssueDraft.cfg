CONSTANTS
    t1 = t1
    t2 = t2
    Proc = {t1}
    NewField <- MCNewField
    UpdateField <- MCUpdateField
    Optional <- MCOptional
    Option <- MCOption
    Word <- MCWord
    Separator = "separator"
    Blank = "blank"
    Typed <- MCTyped
    Subject <- MCSubject
    MaxRuns = 2
    MaxChanges = 1
SPECIFICATION FairSpec
INVARIANT TypeOK
PROPERTY RunEnds
