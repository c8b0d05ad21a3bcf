SPECIFICATION FairSpec
CONSTANTS
  r1 = r1
  r2 = r2
  Reports = {r1, r2}
  RECONNECT_WAITTIME = 1
  KEEPALIVE_TIMEOUT = 3
  IDLE_TIMEOUT = 2
  MaxWait = 2
  MaxFds = 2
  MaxFails = 1
  MaxQueue = 2
  MaxLines = 4
INVARIANTS
  TypeOK
  VerifiedMeansAccepted
  ReportsOnlyToAcceptingServer
  RefusalHasCause
PROPERTIES
  ImplementsSession
  AttemptSpacing
  LostPeerAbandoned
  LoginDecided
  Reconnects
