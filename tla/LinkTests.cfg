\* The link tests, and the flags that they compare with.
SPECIFICATION Spec
CONSTANTS
  TC_THRESHHOLD = 3
  TOKEN_BACKOFF_THRESHHOLD = 4
  TOKEN_HOLD_THRESHHOLD = 2
  BKOFF_RANGE = 16
  W = 1
  NReg = 2
  Suites = {"link"}
  Widths = {2}
  AnyResult = FALSE
INVARIANT
  LinkFlagsAsTested
CHECK_DEADLOCK FALSE
