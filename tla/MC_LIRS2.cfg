\* Two LIR frames, two HIR frames, and a page more than there are frames;
\* MAX_S_LEN close to the least value the pruning can work with, so that it
\* prunes often.
SPECIFICATION Spec
CONSTANTS
  Page = {p1, p2, p3, p4, p5}
  NULL = NULL
  mCacheMaxLimit = 4
  HIR_RATE = 1
  LOWEST_HG_NUM = 2
  MAX_S_LEN = 6
  UINT_MOD = 3
SYMMETRY Symmetry
INVARIANTS
  TypeOK FramesAccounted InstancesPaired RmaxIsLowest MarksMatchStack
  StackBounded CursorSkipsOnlyLIR NeverCrashes AssertionsHold
PROPERTY FollowsPolicy
