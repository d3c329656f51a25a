\* Two collectors with two panels each, each request sent twice at most.
CONSTANTS
  Collector = {n1, n2}
  PanelsPerNode = 2
  MaxAttempts = 2
  MaxFaults = 2
  MaxRestarts = 1
SPECIFICATION Spec
INVARIANTS
  TypeOK
  OneCreator
  NoPanelTwice
  CompleteIfUndisturbed
  SomebodyStays
PROPERTIES
  PanelsLostByStaleWrite
  SetupEnds
CHECK_DEADLOCK FALSE
