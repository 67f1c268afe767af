CONSTANTS
  Slots = {s1, s2, s3}
  None = None
  Base = 2
  Cap = 60
  MaxFailures = 6
SPECIFICATION FairSpec
INVARIANTS
  OwnsItsServer
PROPERTIES
  KeepsARunningServer
  RestartsADeadServer
  BacksOff
  StopEnds
