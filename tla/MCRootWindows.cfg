SPECIFICATION Spec
CONSTANTS
    Window = {w1, w2}
    NoWindow = none
    First = w1
    CreateMayFail = TRUE
    MaxCloses = 1
    MaxCommands = 1
INVARIANTS
    TypeOK
    DelegateAlive
    RegisteredUntilDestroyed
    QuitAfterLastWindow
    ActiveBrowserOfActiveWindow
    CallbacksInOrder
    AgreedCloseNotCancelled
    TempWindowOutlivesPopups
PROPERTIES
    ImplementsClientProgram
CHECK_DEADLOCK FALSE
