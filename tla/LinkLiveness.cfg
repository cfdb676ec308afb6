\* One loop is lost at a time, and recovery packets arrive.
SPECIFICATION FairSpec
CONSTANTS
  TC_THRESHHOLD = 1
  TOKEN_BACKOFF_THRESHHOLD = 0
  TOKEN_HOLD_THRESHHOLD = 0
  BKOFF_RANGE = 2
  Want <- WantAny
  QFull = {TRUE, FALSE}
  CanLose = TRUE
  LoseRecover = FALSE
  LoseBoth = FALSE
INVARIANTS
  ToldTheTruth
PROPERTIES
  ImplementsFairTransfer
  LoopsRevive
  LinkStaysUp
