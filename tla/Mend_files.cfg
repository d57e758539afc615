SPECIFICATION Spec
CONSTANTS
    Paths <- MCPaths
    ArgLists <- MCArgLists
    Disks <- MCDisks
    Settings <- MCSettings
    MaxLen = 4
    Absent = Absent
PROPERTIES
    CutIsAtFirstDamage
    TruncatedIsWhole
    ChangesAreConfirmed
    RecordsSurvive
