\* Both ends ask, over a good wire, with the thresholds of ec_link.h.
SPECIFICATION Spec
CONSTANTS
  TC_THRESHHOLD = 3
  TOKEN_BACKOFF_THRESHHOLD = 4
  TOKEN_HOLD_THRESHHOLD = 2
  BKOFF_RANGE = 16
  Asks <- Both
  Stale <- SomeMemory
  QFull = {FALSE}
  CanLose = FALSE
  LoseRecover = FALSE
  LoseBoth = FALSE
  W = 1
  NReg = 1
INVARIANTS
  TypeOK
  NothingLeftPending
  TokenHoldBound
PROPERTIES
  ImplementsLink
  ImplementsMemory
  VerdictsAgree
  TokenKept
  ForwardsAsAsked
