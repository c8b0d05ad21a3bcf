SPECIFICATION Spec
CONSTANTS
  Keys <- MCKeys
  LongKeys = {"tnc0.baudrate"}
  OptionKeys = {"server", "tnc0.baudrate"}
  Texts <- MCTexts
  NoText = ""
  Values <- MCValues
  Size <- MCSize
  Default <- MCDefault
  Files <- MCFiles
  MaxArgs = 2
INVARIANT
  OptionsObeyed
CHECK_DEADLOCK FALSE
