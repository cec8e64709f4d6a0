SPECIFICATION Spec
CONSTANTS
    N = 3
    Gaps = {0, 5, 7, 124}
    Programs <- MCPrograms
    Tools = {"ast", "lit"}
    Widest = 8
    maxpasses = 8
INVARIANTS
    RangesNeverGrow
    CommandsFit
    SettledUnrolls
    NoWastedPrefix
    PassesPayOff
CHECK_DEADLOCK FALSE
