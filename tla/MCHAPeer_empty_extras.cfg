\* A request with empty extras followed by a pipelined request.
CONSTANTS
  HEAD_LENGTH = 1
  BODY_LENGTH <- MCBodyLength
  RES_LENGTH <- MCResLength
  ERROR_RES_LENGTH = 1
  UNKNOWN = "Bogus"
  MAX_WRITE_IOV_COUNT = 2
  MAX_WRITE_SIZE = 2
  BUFFERS = {"fixed", "cache"}
  BUF_LEN = 3
  READ_BUF_SIZE = 4
  Streams <- EmptyExtrasStreams
  MaxGrants = 1
  MaxSendData = 0
SPECIFICATION Spec
CHECK_DEADLOCK FALSE

PROPERTY EveryRequestAnswered
