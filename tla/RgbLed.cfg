SPECIFICATION LedSpec
CONSTANTS
  Colours <- MCColours
  MaxCalls = 2
  MaxUsbCalls = 2
INVARIANTS
  UndisturbedCallWins
PROPERTIES
  SteadyStays
  KeepsBlinking
CHECK_DEADLOCK FALSE
