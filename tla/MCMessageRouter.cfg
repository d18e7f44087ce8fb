CONSTANTS
  h1 = h1
  h2 = h2
  Handler = {h1, h2}
  MaxQueries = 2
  MaxPersistent = 0
  MaxContexts = 1
  MaxProcesses = 2
  MaxAnswers = 1
SYMMETRY Symmetry
SPECIFICATION Spec
INVARIANTS TypeOK NoQueryForgotten NoQueryKept IDsSharedAcrossSwapOnly HandlersRegistered
CHECK_DEADLOCK FALSE
