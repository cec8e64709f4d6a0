CONSTANTS
    Programs <- MCPrograms
    AreaSizes = {4, 12, 40}
    Ntab <- MCNtab
    NtabSizes = {1, 2}
    MAX_EXPRESSION_DEPTH = 3
    MAX_SEGMENT_NAME_LENGTH = 3
SPECIFICATION WSpec
INVARIANTS MemoryIsProgram GivesUpWithReason
\* Loading ends.
CHECK_DEADLOCK FALSE
