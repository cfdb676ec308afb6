\* An operation on destination register 1.
SPECIFICATION Spec
CONSTANTS
  TC_THRESHHOLD = 0
  TOKEN_BACKOFF_THRESHHOLD = 0
  TOKEN_HOLD_THRESHHOLD = 0
  BKOFF_RANGE = 2
  Asks <- ToRegister1
  Stale <- ZeroMemory
  QFull = {FALSE}
  CanLose = FALSE
  LoseRecover = FALSE
  LoseBoth = FALSE
  W = 1
  NReg = 2
PROPERTIES
  NamedRegisterOnly
