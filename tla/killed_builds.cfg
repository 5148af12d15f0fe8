SPECIFICATION Spec
\* The developer may stop.
CHECK_DEADLOCK FALSE
CONSTANTS
  a = a
  b = b
  temp = temp
  Source <- MCSource
  Probe = temp
  MaxClock = 8
  ByHand = FALSE
  Kills = TRUE
SYMMETRY Symmetry
INVARIANTS
  BuiltFromSources
  ConfiguredAsWritten
  NoProbeLinked
  Consistent
  ProbeContained
