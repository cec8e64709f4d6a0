CONSTANTS
  hook = hook
  a = a
  start = start
  size = size
  eight = eight
  Names <- NamesPlain
  Special = {}
  Starts = {}
  Sizes = {}
  SizeOf <- NoSizeOf
  DefaultHook = hook
  AlignArg = eight
  DefKinds = {"frag", "comm", "bigcomm", "value"}
  MaxHooks = 0
  MaxFiles = 2
  MaxLibs = 1
  MaxNeeds = 1
SPECIFICATION LSpec
INVARIANTS
  EachFragmentOnce
  LinkedIsComplete
  WantedHaveValues
  FirstDefinitionWins
  
CHECK_DEADLOCK FALSE
