\* Pipelines of two and three well-formed requests, a malformed request after
\* a good one, three deferred grants, no send_data.
CONSTANTS
  HEAD_LENGTH = 1
  BODY_LENGTH <- MCBodyLength
  RES_LENGTH <- MCResLength
  ERROR_RES_LENGTH = 1
  UNKNOWN = "Bogus"
  MAX_WRITE_IOV_COUNT = 2
  MAX_WRITE_SIZE = 2
  BUFFERS = {"fixed", "cache"}
  BUF_LEN = 3
  READ_BUF_SIZE = 4
  Streams <- CoreStreams
  MaxGrants = 3
  MaxSendData = 0
SPECIFICATION Spec
CHECK_DEADLOCK FALSE
INVARIANT TypeOK
INVARIANT WireIntegrity
INVARIANT RepliesInOrder
INVARIANT NoUseAfterFree
INVARIANT StartTailSkipsPduList
INVARIANT ProtocolErrorIsFinal
INVARIANT ErrorReplyBeforeClose
PROPERTY EveryRequestAnswered
PROPERTY ServiceSpec

