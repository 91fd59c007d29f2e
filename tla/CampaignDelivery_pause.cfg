\* One campaign, the owner pauses it once, nothing else happens to its recipients.
SPECIFICATION Spec
CONSTANTS
  Runs = {r1}
  Phones = {p1, p2}
  Workers = {w1, w2}
  DailyCap = 2
  MaxDays = 1
  MaxFaults = 0
  MaxOwner = 1
  MaxWords = 0
SYMMETRY Symmetric
INVARIANT SkippedIsSuppressed
