SPECIFICATION BufSpec
CONSTANTS
  ReadLen = 3
  ReadMin = 1
  ReadMax = 2
  WriteLen = 4
  WriteMin = 2
  WriteMax = 2
  Few = 2
  Wrap = 7
  MaxWrite = 4
  MaxPending = 6
INVARIANTS
  BufTypeOK
  InOrder
  BlockedOnlyWhenFull
