SPECIFICATION Spec
\* The developer may stop.
CHECK_DEADLOCK FALSE
CONSTANTS
  a = a
  b = b
  temp = temp
  Source <- MCSource
  Probe = temp
  MaxClock = 7
  ByHand = TRUE
  Kills = FALSE
INVARIANTS
  TypeOK
  BuiltFromSources
  FailsForAReason
PROPERTIES
  RunsEnd
