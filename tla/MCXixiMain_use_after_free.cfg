CONSTANTS
  Tokens <- MCTokens
  ATOI <- MCATOI
  ATOF <- MCATOF
  Defaults <- MCDefaults
  LOG_LEVEL_INFO = 2
  CommandLines <- MCCommandLines
  MaxSignals = 2
SPECIFICATION Spec
CHECK_DEADLOCK FALSE
INVARIANT NoStopOnDeletedServer
