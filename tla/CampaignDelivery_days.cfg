\* Two campaigns to one contact over two days with a busy owner, one worker,
\* under fairness; no symmetry.
SPECIFICATION FairSpec
CONSTANTS
  Runs = {r1, r2}
  Phones = {p1}
  Workers = {w1}
  DailyCap = 2
  MaxDays = 2
  MaxFaults = 1
  MaxOwner = 1
  MaxWords = 1
INVARIANT StopIsHonoured
PROPERTY ItemsSettle
