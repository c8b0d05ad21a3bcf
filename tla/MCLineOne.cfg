SPECIFICATION Spec
CONSTANTS
  server = server
  modem = modem
  Streams = {server}
  BufSize = 4
  MaxBytes = 8
INVARIANTS
  TypeOK
  BytesKept
  LinesFramed
