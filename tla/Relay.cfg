SPECIFICATION RelaySpec
CONSTANTS
  MIN_CAL_TIME = 2
  CalTimes <- MCCalTimes
  Powers <- MCPowers
  MaxRestarts = 2
INVARIANTS
  CalTimesValid
PROPERTIES
  NoChatter
  LoadRunsAgain
