SPECIFICATION LibrarySpec
CONSTANTS
    ListIds = {l1, l2}
    IterIds = {i1}
    Item = {a}
    Nil = Nil
    SizeValues = 16
    Numbers <- ACut
    MaxItems = 4
    Key <- AKey
    Value = {v, w}
    Absent = Absent
    StreamIds = {s1, s2}
    Handles = {1, 2, 3}
    OldFile = OldFile
    NewFile = NewFile
    Content <- AText
    Code = {7, 256}
    Lists <- SomeLists
    NonInt = NonInt
    Modes = {1, 2, 7}
    MaxSize = 2
    StringIds = {t1}
    CursorIds = {c1}
    CharCodes = {65, 200}
    Texts <- SomeTexts
    DefaultSize = 2
    NoKey = NoKey
    MaxLength = 3
    Images <- SomeImages
INVARIANTS
    IteratorsInside
    CatJoins
    TreeFreedOnce
    HandlesOwned
    TextInside
    WholeOrNothing
PROPERTIES
    FrozenStay
    CutInside
    BytesExact
    ActsAsMap
SYMMETRY Renamed
VIEW NoHistory
CHECK_DEADLOCK FALSE
