SPECIFICATION FairSpec
CONSTANTS
  Conn <- MCConn
  NumFds = 2
  BUFFER_LENGTH = 3
  MaxSend <- MCMaxSend
  NULL = NULL
INVARIANTS NothingLost EventsFresh
PROPERTY Served
