SPECIFICATION Spec
CONSTANTS
  Texts = {"a", "b"}
  Lengths = {3}
  RESP_BUF_SIZE = 3
  WIFI_RX_BUF_SIZE = 3
  TIMEOUT = 1
  MaxCalls = 2
  MaxNews = 1
INVARIANTS
  TypeOK
  LineGivenBack
  OwnAnswer
  SuccessMeansSent
PROPERTIES
  WholeUnlessCut
  MessageHeld
  CallsEnd
CHECK_DEADLOCK FALSE
