\* main and one goroutine, three outages.
CONSTANTS
  Caller = {main, g1}
  Main = main
  Values = 2
  MaxTries = 2
  MaxOutages = 3
SPECIFICATION Spec
INVARIANTS
  TypeOK
  ShortOutageSurvived
  OneFailurePerOutage
PROPERTIES
  CallsReturn
  Reconnected
CHECK_DEADLOCK FALSE
