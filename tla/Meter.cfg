SPECIFICATION Spec
CONSTANTS
  FRAME = 5
  BASE = 4
  SYNC = 2
  LENGTH = 1
  Readings <- MCReadings
  MaxNoise = 1
INVARIANTS
  ValidMeansSilent
PROPERTIES
  LoggedOnce
  TornOnlyByRace
  PacketAloneOnCard
  SamplesKeepComing
