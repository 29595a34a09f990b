\* Two messages one way, one the other, and two faults of any kind.
CONSTANTS
  FRAGMENT_SIZE = 3
  MAX_MSGLEN = 7
  HeaderLen = 1
  Lengths <- MCLengths
  MaxSent <- MCMaxSent
  MaxFaults = 2
SPECIFICATION Spec
INVARIANTS TypeOK IntactDelivery LossIsLocal
PROPERTIES Implements
\* The ends stop when they have nothing left to send.
CHECK_DEADLOCK FALSE
