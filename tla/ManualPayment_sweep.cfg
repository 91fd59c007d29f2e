SPECIFICATION Spec
CONSTANTS
  Payments = {p1, p2}
  Posters = {}
  Nobody = Nobody
  NoEvent = NoEvent
  MaxTrouble = 0
  Tabs = {t1}
  Wants <- SmallWants
  Month = 2
  Grace = 1
  Window = 1
  MaxRedemptions = 1
  NoPayment = NoPayment
INVARIANTS ConfirmedKeepsInvoice
CHECK_DEADLOCK FALSE
