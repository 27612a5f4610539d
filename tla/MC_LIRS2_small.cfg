\* The least number of HIR frames the code allows, in a smaller cache.
SPECIFICATION Spec
CONSTANTS
  Page = {p1, p2, p3}
  NULL = NULL
  mCacheMaxLimit = 3
  HIR_RATE = 1
  LOWEST_HG_NUM = 4
  MAX_S_LEN = 24
  UINT_MOD = 64
SYMMETRY Symmetry
INVARIANT LIRCountAssertion
\* A NULL pointer followed ends the program.
CHECK_DEADLOCK FALSE
