SPECIFICATION Spec
CONSTANTS
  CallLen = 2
  MaxRpt = 3
  Threshold = 4
  DumpSize = 2
  Packets <- MCPackets
  NoRelaySrc <- MCNoRelaySrc
  NoRelayVia <- MCNoRelayVia
  NoRelayPrefix <- MCNoRelayPrefix
  BeaconFirst = 1
  BEACON_INTERVAL = 3
  MaxLate = 1
  MaxThere = 9
  Left = {0, 9}
INVARIANTS
  RelayedAsSent
  BeaconPaced
  LogBounded
CHECK_DEADLOCK FALSE
