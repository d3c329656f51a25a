\* Two containers.
CONSTANTS
  Container = {c1, c2}
  Filterable = {}
  MaxEvents = 3
SPECIFICATION Spec
INVARIANTS
  NoGhost
  CalmAudit
PROPERTY ImplementsAudit
