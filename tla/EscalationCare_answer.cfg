\* One case, one hold tick; the runtime is not ready once.
SPECIFICATION Spec
CONSTANTS
  Cases = {c1}
  HoldTicks = {h1}
  AlertTicks = {a1}
  NoCase = NoCase
  MaxMishaps = 1
  MaxOwner = 0
INVARIANT HoldStopsAtAnswer
CHECK_DEADLOCK FALSE
