SPECIFICATION FairSpec
CONSTANTS
  Builds = {FALSE}
  Incoming <- Acks
  MaxIn = 0
  MaxReq = 0
  MaxResend = 2
  MaxDis = 3
PROPERTY PagingEnds
CHECK_DEADLOCK FALSE
