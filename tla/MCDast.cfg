SPECIFICATION DSpec
CONSTANTS
    BUFSIZ = 8
    Commands <- MCCommands
    MaxCommands = 3
    MaxTail = 1
    FpuCodes <- MCFpuCodes
INVARIANTS
    ListingIsProgram
CHECK_DEADLOCK FALSE
