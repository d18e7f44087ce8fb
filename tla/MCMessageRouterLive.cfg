CONSTANTS
  h1 = h1
  h2 = h2
  Handler = {h1, h2}
  MaxQueries = 1
  MaxPersistent = 1
  MaxContexts = 1
  MaxProcesses = 2
  MaxAnswers = 1
SPECIFICATION FairSpec
INVARIANTS OneOutcome CallbackAnswerable
PROPERTIES NoAnswerAfterCancel QueryEnds LeftQueryLeavesHandler
CHECK_DEADLOCK FALSE
