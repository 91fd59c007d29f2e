\* One job, one stall: a stale task releases the quota of an acknowledged send.
SPECIFICATION Spec
CONSTANTS
  Jobs = {j1}
  c1 = c1
  Conversations = {c1}
  ConvOf <- OneConversation
  Slots = {s1, s2}
  Texts = {t1}
  MaxUnknown = 2
  MaxStalls = 1
  MaxAborts = 0
  MaxMoves = 0
  NoText = NoText
  NoJob = NoJob
  NoToken = NoToken
  Orphan = Orphan
INVARIANTS AcknowledgedIsMetered
CHECK_DEADLOCK FALSE
