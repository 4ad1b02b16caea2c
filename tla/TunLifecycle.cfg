SPECIFICATION FairSpec
CONSTANTS
  c1 = c1
  c2 = c2
  s1 = s1
  s2 = s2
  s3 = s3
  Starters = {c1}
  Stoppers = {c2}
  Conns <- MCConns
  NoCaller = none
  Cases <- MCCases
INVARIANTS
  RunningMeansAlive
  FlagsHold
  NoAbort
  SessionSetExact
  TimerServes
PROPERTIES
  StopReturns
CHECK_DEADLOCK FALSE
