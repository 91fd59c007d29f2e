SPECIFICATION FairOutboxSpec
CONSTANTS
  Payments = {p1}
  Posters = {w1, w2}
  Nobody = Nobody
  NoEvent = NoEvent
  MaxTrouble = 3
INVARIANTS AcceptedIsBooked
PROPERTIES VerdictIsFinal EventsSettle
CHECK_DEADLOCK FALSE
