SPECIFICATION Spec
CONSTANTS
  NumMsgs = 2
  Phone = {r1}
  Kinds = {"question", "agent", "solved"}
  Quiet = 1
  LastAct = 4
  LastTick = 5
  MaxOwner = 2
  Reorder = FALSE
  NoJob = NoJob
INVARIANTS FreshMessageIsServable
CHECK_DEADLOCK FALSE
