\* The control tests in a build where alo_next may return anything.
SPECIFICATION Spec
CONSTANTS
  TC_THRESHHOLD = 3
  TOKEN_BACKOFF_THRESHHOLD = 4
  TOKEN_HOLD_THRESHHOLD = 2
  BKOFF_RANGE = 16
  W = 1
  NReg = 2
  Suites = {"control"}
  Widths = {2}
  AnyResult = TRUE
INVARIANT
  RegistersAsTested
CHECK_DEADLOCK FALSE
