SPECIFICATION Spec
CONSTANTS
    Events = {a, b}
    MaxEvents = 3
    InsertAhead = 0
    NoFile = NoFile
SYMMETRY SymEvents
INVARIANTS
    TypeOK
    LatestIsLast
    Contiguous
PROPERTIES
    PutNeverOverwrites
    ReadsReachTheEnd
    ImportTakesPrefix
