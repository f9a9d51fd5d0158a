SPECIFICATION Spec
CONSTANTS
  Addrs = {a1, a2}
  Mgr = Mgr
  None = None
  Former = Former
INVARIANTS
  RightHost
  AnswerFindsCallback

  
