SPECIFICATION Spec
CONSTANTS
  SECONDS = 11
  HOURS = 2
  DAYS = 2
  MONTHS = 2
  Years = {19, 20}
  Unchecked = {255, 257}
INVARIANT
  TypeOK
PROPERTIES
  NeverAhead
  RightWithinADay
