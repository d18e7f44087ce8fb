SPECIFICATION Spec
CONSTANTS
    Window = {w1, w2}
    NoWindow = none
    First = w1
    CreateMayFail = FALSE
    MaxCloses = 0
    MaxCommands = 0
PROPERTIES
    QuitsWithoutWindows
CHECK_DEADLOCK FALSE
