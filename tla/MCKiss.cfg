SPECIFICATION Spec
CONSTANTS
  Frames <- MCFrames
  MaxData = 4
INVARIANTS
  TypeOK
  TimerWatchesFrame
  ResyncAfterOneFrame
PROPERTIES
  Intact
