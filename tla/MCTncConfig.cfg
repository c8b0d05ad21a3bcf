SPECIFICATION TncSpec
CONSTANTS
  Settings <- MCSettings
  CallData <- MCCallData
  Radio <- MCRadio
  MaxRadio = 2
  LineSize = 12
  RespSize = 6
  LenRange = 6
INVARIANTS
  TncTypeOK
  SettingsOfOneFrame
  HealthyExchangeSucceeds
CHECK_DEADLOCK FALSE
