\* Two containers, two events before or during the start; one has names that -f
\* matches.
CONSTANTS
  Container = {c1, c2}
  Filterable = {c2}
  MaxEvents = 2
  Retries = 1
SPECIFICATION StartSpec
INVARIANTS
  StartTypeOK
  UntouchedAreFollowed
  HandsOver
CHECK_DEADLOCK FALSE
