CONSTANTS
  foo = foo
  bar = bar
  glob = glob
  Names = {foo, bar, glob}
  Digits = {1}
  Vocabularies <- MCCommon
SPECIFICATION Spec
INVARIANTS CommonAlone
CHECK_DEADLOCK FALSE
