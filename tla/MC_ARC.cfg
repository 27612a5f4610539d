\* Three frames and one page more than the 2 * 3 the directory can hold.
SPECIFICATION SpecH
CONSTANTS
  Page = {a, b, c, d, e, f, g}
  NULL = NULL
  mCacheMaxLimit = 3
  UINT_MOD = 8
  DELTA_MOD = 3
SYMMETRY Symmetry
INVARIANTS
  TypeOK ListsAgree DirectoryBounded NeverExits
  HalvesInRecencyOrder DirectoryCoversLRU
PROPERTY ImplementsCache
