SPECIFICATION FairSpec
CONSTANTS
  Pids = {p1}
  NoPid = NoPid
  Clients = {a, b}
  MaxHeard = 3
  MaxEmpty = 1
  Depth = 1
CHECK_DEADLOCK FALSE
INVARIANTS
  CommandsInOrder
  AnswerGoesToAsker
PROPERTIES
  EveryCommandAnswered
