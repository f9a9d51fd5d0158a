SPECIFICATION Spec
CONSTANTS
  N_MD_BUF = 16
  N_LG_BUF = 8
  N_XL_BUF = 4
  Reserve = 3
INVARIANTS
  PoolsSuffice
CHECK_DEADLOCK FALSE
