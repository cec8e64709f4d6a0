CONSTANTS
  ABC <- MCABC
  FABC <- MCFABC
  RegOrder <- MCRegOrder
  Programs <- MCPrograms
SPECIFICATION Spec
CHECK_DEADLOCK FALSE
INVARIANTS LifeIsExact StacksFollowLife NeverAborts RunsTheSame
PROPERTY AnalysisEnds
