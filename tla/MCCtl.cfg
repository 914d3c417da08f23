SPECIFICATION Spec
CONSTANTS
    f1 = f1
    f2 = f2
    f3 = f3
    f4 = f4
    Files = {f1, f2, f3, f4}
    Missing = Missing
    KindOf <- MCKinds
    Modes <- MCModes
    Limit = 2
    MaxLength = 3
    MaxChanges = 2
    Gets = {g1, g2, g3}
    NoFile = NoFile
    Other = Other
    Texts <- MCTexts
INVARIANTS WholeContent FromCheckedFile
INVARIANTS PublishedWhole SuccessStays NoRemains
INVARIANTS SingleLineUtf8 ReadsInside ShownIsSafe
PROPERTIES GrowthNoticed NeverReplaces
CHECK_DEADLOCK FALSE
