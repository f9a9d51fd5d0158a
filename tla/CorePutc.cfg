SPECIFICATION PutcSpec
CONSTANT TICKS = 6
INVARIANTS
  OneWriter
  GiveUpNotEarly
PROPERTIES
  SpinEndsBeforeWrap
