\* No frame, one frame (no node before the tail), and two, three and four
\* frames with one page more than there are frames.
SPECIFICATION Spec
CONSTANTS
  Page = {a, b, c, d, e}
  NULL = NULL
  MemSizes = {0, 1, 2, 3, 4}
  UINT_MOD = 3
INVARIANT StopsOnlyBelowTwoFrames
PROPERTY FollowsLRU
\* A NULL pointer written through ends the program.
CHECK_DEADLOCK FALSE
