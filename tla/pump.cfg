CONSTANTS
  Perms = {q1}
  MaxQueued = 2
  MaxLog = 2
  LineCap = 1
  Budgets <- MCBudgets
SPECIFICATION FairSpec
INVARIANTS AgentProtocolKept PromptsInOrder ForkSeesQuiet SentInOrder
PROPERTIES NothingStuck
CHECK_DEADLOCK FALSE
