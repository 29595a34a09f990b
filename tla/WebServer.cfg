\* A pool of one connection, which several browsers take in turn; three queries.
CONSTANTS
  MAX_CONNECTIONS = 1
  RECV_TIMEOUT = 1
  SEND_TIMEOUT = 1
  MaxQueries = 3
SPECIFICATION Spec
INVARIANTS TypeOK OwnAnswer
PROPERTIES Answered
\* A server that was stopped stays so.
CHECK_DEADLOCK FALSE
