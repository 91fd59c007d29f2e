\* One job, two task slots: two leases lost under a running task, a crash, one
\* intervention by a person and the full budget of three ambiguous outcomes.
\* The system stops once the bounds are spent and the job is closed.
SPECIFICATION Spec
CONSTANTS
  Jobs = {j1}
  c1 = c1
  Conversations = {c1}
  ConvOf <- OneConversation
  Slots = {s1, s2}
  Texts = {t1, t2}
  MaxUnknown = 3
  MaxStalls = 2
  MaxAborts = 1
  MaxMoves = 1
  NoText = NoText
  NoJob = NoJob
  NoToken = NoToken
  Orphan = Orphan
SYMMETRY Symmetric
INVARIANTS TypeOK WireIsDurableText SentIsBacked DeliveryIsMetered
PROPERTIES UnknownIsBounded ImplementsDelivery ClosedIsFinal SafetyPauseHolds
CHECK_DEADLOCK FALSE
