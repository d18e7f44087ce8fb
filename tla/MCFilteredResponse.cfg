SPECIFICATION Spec
CONSTANTS
    MaxLength = 6
    Contents <- MCContents
    FindString <- MCFindString
    ReplaceSize = 4
    MaxRead = 3
    MaxOut = 2
INVARIANTS
    StreamIntact
    ReplacedSoFar
PROPERTIES
    ResponseEnds
CHECK_DEADLOCK FALSE
