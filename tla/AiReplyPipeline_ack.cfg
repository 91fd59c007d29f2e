\* One job, one stall, one intervention: an acknowledged send whose job is closed
\* as something else than SENT.
SPECIFICATION Spec
CONSTANTS
  Jobs = {j1}
  c1 = c1
  Conversations = {c1}
  ConvOf <- OneConversation
  Slots = {s1, s2}
  Texts = {t1}
  MaxUnknown = 2
  MaxStalls = 1
  MaxAborts = 0
  MaxMoves = 1
  NoText = NoText
  NoJob = NoJob
  NoToken = NoToken
  Orphan = Orphan
INVARIANTS AcknowledgedLands
CHECK_DEADLOCK FALSE
