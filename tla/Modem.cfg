SPECIFICATION FairSpec
CONSTANTS
  REOPEN_WAIT = 1
  REOPEN_STEP = 1
  INIT_WAIT = 1
  KEEPALIVE_WAIT = 1
  SWITCH_DELAY = 3
  BufSize = 2
  MaxWait = 2
  MaxQueue = 1
  MaxInput = 2
INVARIANTS
  TypeOK
  ClosedMeansDetached
  TextIsNotAx25
PROPERTIES
  InitEnds
  GetsToKiss
  UnpluggedIsClosed
  Reopens
