SPECIFICATION Spec
CONSTANTS
    Window = {w1, w2}
    NoWindow = none
    First = w1
    CreateMayFail = FALSE
    MaxCloses = 0
    MaxCommands = 1
INVARIANTS
    CommandFindsItsWindow
CHECK_DEADLOCK FALSE
