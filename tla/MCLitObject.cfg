\* An empty BLOCK at the end of the file at most.
CONSTANTS
    Bits = 5
    NameTable <- MCNameTable
    NameValues <- MCNameValues
    ElementSize <- MCElementSize
    Exprs <- MCExprs
    Sources <- MCSources
    MaxExprs = 2
    Sizes = {0, 1}
    Objects <- MCObjects
    Disk <- MCDisk
    Commands <- MCCommands
    MaxOpen = 2
SPECIFICATION Spec
INVARIANTS  ReducedMeansTheSame EstimateBounds 
    ReadsItsPlace GoesOnAtTheLimit
\* Reading ends.
CHECK_DEADLOCK FALSE
