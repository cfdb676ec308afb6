\* Both ends ask, and packets are lost, but for recovery packets; a link that
\* lost both its packets stops.
SPECIFICATION Spec
CONSTANTS
  TC_THRESHHOLD = 0
  TOKEN_BACKOFF_THRESHHOLD = 0
  TOKEN_HOLD_THRESHHOLD = 0
  BKOFF_RANGE = 2
  Asks <- Rivals
  Stale <- ZeroMemory
  QFull = {FALSE}
  CanLose = TRUE
  LoseRecover = FALSE
  LoseBoth = TRUE
  W = 1
  NReg = 1
INVARIANTS
  NothingLeftPending
  HeldAsAsked
PROPERTIES
  ImplementsLink
  ImplementsMemory
  VerdictsAgree
  HeldMessageResolved
  DequeuedIfTaken
  ImplementsTransfer
CHECK_DEADLOCK FALSE
