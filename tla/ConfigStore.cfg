SPECIFICATION ConfigSpec
CONSTANTS
  TEXTS = 2
  Erased = {1}
  LEN = 2
  BUF = 6
  Chars = {97, 98}
  Times = {0, 152}
INVARIANTS
  ReadsBack
  CutKeepsBeginning
