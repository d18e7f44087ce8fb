SPECIFICATION Spec
CONSTANTS
    Main = main
    Thread = {ui, io}
    NoThread = none
    MaxPosts = 2
INVARIANTS
    NoTaskLost
    QuitRunsEarlierTasks
PROPERTIES
    ImplementsTaskQueue
    QuitEndsRun
CHECK_DEADLOCK FALSE
