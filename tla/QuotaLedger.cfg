SPECIFICATION Spec
CONSTANTS
  free = free
  paid = paid
  Workers = {v1, v2}
  AiKeys = {a1, a2}
  WaKeys = {}
  Plans = {free, paid}
  Free = free
  NoPlan = NoPlan
  Unlimited = Unlimited
  Limit <- TwoPlans
  NumLots = 2
  LotSize = 1
  TrialCap = 1
  LastMonth = 1
  MaxPlanChanges = 2
  AddonFlags = {TRUE}
SYMMETRY Symmetric
CHECK_DEADLOCK FALSE
INVARIANTS CounterIsCommitments LotConservation OverflowIsFunded TrialCeiling
PROPERTIES TrialStaysOver ReservationLife
