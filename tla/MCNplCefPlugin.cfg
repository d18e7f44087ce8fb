SPECIFICATION Spec
CONSTANTS
    Id = {i1}
    Client = {c1, c2}
    Window = {main, other}
    First = main
    MaxCommands = 1
INVARIANTS
    OneClientPerId
PROPERTIES
    QuitEndsClient
CHECK_DEADLOCK FALSE
