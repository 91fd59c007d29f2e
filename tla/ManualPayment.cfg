SPECIFICATION Spec
CONSTANTS
  Payments = {p1, p2}
  Posters = {}
  Nobody = Nobody
  NoEvent = NoEvent
  MaxTrouble = 0
  Tabs = {t1, t2}
  Wants <- SmallWants
  Month = 2
  Grace = 1
  Window = 1
  MaxRedemptions = 1
  NoPayment = NoPayment
SYMMETRY Symmetric
INVARIANTS OneOfEach ChangeBindsCurrent MoneyAgrees RefundedIsNotServed
PROPERTIES RefundSparesOthers
CHECK_DEADLOCK FALSE
