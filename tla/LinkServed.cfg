\* One end asks for ever, the thresholds of ec_link.h.
SPECIFICATION FairSpec
CONSTANTS
  TC_THRESHHOLD = 3
  TOKEN_BACKOFF_THRESHHOLD = 4
  TOKEN_HOLD_THRESHHOLD = 2
  BKOFF_RANGE = 16
  Want <- WantOne
  QFull = {FALSE}
  CanLose = TRUE
  LoseRecover = FALSE
  LoseBoth = FALSE
PROPERTIES
  SoleRequesterServed
