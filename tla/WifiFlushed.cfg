SPECIFICATION Spec
CONSTANTS
  Texts = {"a", "b"}
  Lengths = {2}
  RESP_BUF_SIZE = 3
  WIFI_RX_BUF_SIZE = 3
  TIMEOUT = 1
  MaxCalls = 1
  MaxNews = 1
PROPERTIES
  NothingBehind
CHECK_DEADLOCK FALSE
