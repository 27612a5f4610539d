\* One to four LIR frames beside two HIR frames, and one page more
\* than the largest cache has frames.
SPECIFICATION Spec
CONSTANTS
  Page = {a, b, c, d, e, f, g}
  NULL = NULL
  MemSizes = {3, 4, 5, 6}
  HIR_RATE = 1
  LOWEST_HG_NUM = 2
  UINT_MOD = 7
SYMMETRY Symmetry
INVARIANTS TypeOK FramesAccounted MarksMatchStack StopsOnlyWithOneLIRFrame
PROPERTY FollowsPolicy
\* A NULL pointer followed ends the program.
CHECK_DEADLOCK FALSE
