\* Recovery packets may be lost too.
SPECIFICATION Spec
CONSTANTS
  TC_THRESHHOLD = 1
  TOKEN_BACKOFF_THRESHHOLD = 1
  TOKEN_HOLD_THRESHHOLD = 1
  BKOFF_RANGE = 4
  Want <- WantAny
  QFull = {FALSE}
  CanLose = TRUE
  LoseRecover = TRUE
  LoseBoth = FALSE
INVARIANTS
  ToldTheTruth
