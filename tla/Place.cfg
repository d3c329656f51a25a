\* A grid of five columns and four rows with up to two panels on it.
CONSTANTS
  k1 = k1
  k2 = k2
  a = a
  PanelId = {k1, k2, a}
  Old = {k1, k2}
  maxSizeX = 6
  maxSizeY = 5
  sizeX = 2
  sizeY = 2
  Dashboards <- SmallDashboards
SPECIFICATION Spec
INVARIANTS
  TypeOK
  NoOverlap
  GivenUpMeansFull
  FirstFit
PROPERTIES
  ScanAdvances
  ScanEnds
