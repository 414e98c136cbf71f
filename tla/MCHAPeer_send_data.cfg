\* The server calls send_data: do_write may start a write while a read is
\* pending, so an error can hit either while the other is in flight.
CONSTANTS
  HEAD_LENGTH = 1
  BODY_LENGTH <- MCBodyLength
  RES_LENGTH <- MCResLength
  ERROR_RES_LENGTH = 1
  UNKNOWN = "Bogus"
  MAX_WRITE_IOV_COUNT = 2
  MAX_WRITE_SIZE = 2
  BUFFERS = {"fixed", "cache"}
  BUF_LEN = 3
  READ_BUF_SIZE = 4
  Streams <- MixedStreams
  MaxGrants = 1
  MaxSendData = 2
SPECIFICATION Spec
CHECK_DEADLOCK FALSE

PROPERTY ReleasedAfterError
