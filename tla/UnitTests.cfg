\* The unit tests with the code's thresholds, on small registers.
SPECIFICATION Spec
CONSTANTS
  TC_THRESHHOLD = 3
  TOKEN_BACKOFF_THRESHHOLD = 4
  TOKEN_HOLD_THRESHHOLD = 2
  BKOFF_RANGE = 16
  W = 1
  NReg = 2
  Suites = {"link", "control", "random"}
  Widths = {2, 3, 4, 5}
  AnyResult = FALSE
INVARIANTS
  LinkCallsAsTested
  ControlCallsAsTested
  RegistersAsTested
  NoValueTwice
CHECK_DEADLOCK FALSE
