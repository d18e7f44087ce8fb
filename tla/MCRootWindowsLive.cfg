SPECIFICATION Spec
CONSTANTS
    Window = {w1, w2}
    NoWindow = none
    First = w1
    CreateMayFail = TRUE
    MaxCloses = 0
    MaxCommands = 1
PROPERTIES
    QuitsUnlessCanceled
    CommandQuitEnds
    ClientProgresses
CHECK_DEADLOCK FALSE
