\* A bit test that the source's register refuses.
SPECIFICATION Spec
CONSTANTS
  TC_THRESHHOLD = 0
  TOKEN_BACKOFF_THRESHHOLD = 0
  TOKEN_HOLD_THRESHHOLD = 0
  BKOFF_RANGE = 2
  Asks <- BTestSet
  Stale <- ZeroMemory
  QFull = {FALSE}
  CanLose = FALSE
  LoseRecover = FALSE
  LoseBoth = FALSE
  W = 1
  NReg = 1
PROPERTIES
  RefusedAtSource
