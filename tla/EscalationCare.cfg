\* One case, two workers with both timers; two mishaps in any combination of a
\* death, a stall, a failing statement and a runtime that is not ready, and one
\* change of the owner's settings.  The system may stop: nothing is left to do.
SPECIFICATION FairSpec
CONSTANTS
  Cases = {c1}
  HoldTicks = {h1, h2}
  AlertTicks = {a1, a2}
  NoCase = NoCase
  MaxMishaps = 2
  MaxOwner = 1
INVARIANTS OneHoldMessage HoldIsAccounted AlertVerdictIsTrue
PROPERTY CareSettles
CHECK_DEADLOCK FALSE
