\* The user types ^C at the terminal, any step may fail.
CONSTANTS
    Args <- MCArgs
    Content <- MCContent
    BUFSIZ = 2
    Targets <- Terminal
    MaxSignals = 2
SPECIFICATION OSpec
INVARIANTS KillsOnlyItsChild 
 
\* Both processes end.
CHECK_DEADLOCK FALSE
