\* Two campaigns to the same two contacts, two worker processes, one crash or
\* failing call, contacts that never opted in; the cap is reached.
SPECIFICATION Spec
CONSTANTS
  Runs = {r1, r2}
  Phones = {p1, p2}
  Workers = {w1, w2}
  DailyCap = 2
  MaxDays = 1
  MaxFaults = 1
  MaxOwner = 0
  MaxWords = 0
SYMMETRY Symmetric
INVARIANTS HeardOnce AccountStaysUnderCap VerdictIsTrue DeliveryIsMetered
