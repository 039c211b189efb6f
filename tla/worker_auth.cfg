CONSTANTS
  Buffer = 3
  MinTtl = 3
  Ttls = {0, 3, 6}
  Timeout = 1
  MaxSkew = 4
SPECIFICATION FairSpec
PROPERTIES GateIsCurrent AuthenticatesAgain
CHECK_DEADLOCK FALSE
