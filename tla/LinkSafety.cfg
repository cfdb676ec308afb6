\* Any losses. The link stops when both loops are lost: nothing in src/ has a timer.
SPECIFICATION Spec
CONSTANTS
  TC_THRESHHOLD = 1
  TOKEN_BACKOFF_THRESHHOLD = 1
  TOKEN_HOLD_THRESHHOLD = 1
  BKOFF_RANGE = 4
  Want <- WantAny
  QFull = {TRUE, FALSE}
  CanLose = TRUE
  LoseRecover = TRUE
  LoseBoth = TRUE
INVARIANTS
  TypeOK
  OnePacketPerLoop
  NoFalseRecovery
  Watchdog
  SRAlternates
  NoProtocolError
  NeverBothGranted
  HeldByRequester
PROPERTIES
  LossIsNoticed
CHECK_DEADLOCK FALSE
