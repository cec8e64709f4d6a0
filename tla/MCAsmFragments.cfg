CONSTANTS
  foo = foo
  bar = bar
  glob = glob
  Names = {foo, bar, glob}
  Digits = {1}
  Vocabularies <- MCVocabularies
SPECIFICATION Spec
INVARIANTS LabelsMark DigitsBind AlignedAsAsked 
CHECK_DEADLOCK FALSE
