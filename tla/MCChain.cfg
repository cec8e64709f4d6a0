CONSTANTS
    MaxLength = 3
    Chains <- MCChains
    Tools = {"ast", "lit"}
    block_threshold = 6
SPECIFICATION CSpec
INVARIANTS ImagePreserved ReferencesHold
\* The passes end.
CHECK_DEADLOCK FALSE
