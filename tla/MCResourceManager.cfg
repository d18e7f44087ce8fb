SPECIFICATION FairSpec
CONSTANTS
    e1 = e1
    e2 = e2
    e3 = e3
    r1 = r1
    r2 = r2
    a = a
    b = b
    Request = {r1, r2}
    Entry = {e1, e2, e3}
    Archive = {e3}
    Identifier = {a, b}
    IdentifierOf <- Identifiers
    OrderOf <- Orders
    NoEntry = none
    NoRequest = nothing
INVARIANTS
    TypeOK
    PositionsValid
PROPERTIES
    AskedInOrder
    RequestContinues
    DoomedEntriesGo
CHECK_DEADLOCK FALSE
