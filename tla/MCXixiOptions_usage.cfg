CONSTANTS
  Tokens <- MCTokens
  ATOI <- MCATOI
  ATOF <- MCATOF
  Defaults <- MCDefaults
  LOG_LEVEL_INFO = 2
  Options <- UsageOptions
  Truncated = {}
SPECIFICATION Spec
INVARIANT OptionsAsDocumented
