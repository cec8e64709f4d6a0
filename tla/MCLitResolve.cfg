CONSTANTS
  hook = hook
  a = a
  seg = seg
  eight = eight
  Names <- MCNames
  Special <- Specials
  DefaultHook = hook
  AlignArg = eight
  DefKinds = {"frag"}
  MaxHooks = 1
  MaxFiles = 2
  MaxLibs = 1
  MaxNeeds = 2
SPECIFICATION Spec
INVARIANTS
  WantedIsReach
  CountIsExact
  FilesAreFirstSources
  FirstSourceIsEarliest
  ResolvedMeansDefined
PROPERTIES
  ImplementsNeedGraph
\* The link ends.
CHECK_DEADLOCK FALSE
