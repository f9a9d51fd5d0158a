SPECIFICATION Spec
CONSTANTS
  Printable = {"a", "b"}
  CMD_BUF_SIZE = 3
  MaxSent = 6
PROPERTIES
  RanAsSent
  LinesAreRun
  WordsStay
CHECK_DEADLOCK FALSE
