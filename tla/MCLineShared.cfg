SPECIFICATION Spec
CONSTANTS
  server = server
  modem = modem
  Streams = {server, modem}
  BufSize = 4
  MaxBytes = 4
INVARIANT LinesFramed
