\* A protocol error: the connection closes after the error reply.
CONSTANTS
  HEAD_LENGTH = 1
  BODY_LENGTH <- MCBodyLength
  RES_LENGTH <- MCResLength
  ERROR_RES_LENGTH = 1
  UNKNOWN = "Bogus"
  MAX_WRITE_IOV_COUNT = 2
  MAX_WRITE_SIZE = 2
  BUFFERS = {"fixed", "cache"}
  BUF_LEN = 3
  READ_BUF_SIZE = 4
  Streams <- ProtocolErrorStreams
  MaxGrants = 1
  MaxSendData = 0
SPECIFICATION Spec
CHECK_DEADLOCK FALSE

INVARIANT NoNullSocketDeref
