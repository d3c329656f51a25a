\* Activate on an entry that exists sets its PID to 0.
CONSTANTS
  c1 = c1
  Container = {c1}
  Filterable = {}
  MaxEvents = 3
SPECIFICATION Spec
INVARIANT ActivePidIsReal
