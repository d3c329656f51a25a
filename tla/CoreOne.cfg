\* One container that may be renamed to a name that -f matches, and back.
CONSTANTS
  c1 = c1
  Container = {c1}
  Filterable = {c1}
  MaxEvents = 4
SPECIFICATION Spec
INVARIANTS
  TypeOK
  UniqueEntries
  PublishedWhenFree
  FilterHonoured
PROPERTIES
  EventuallySampled
  EventuallyForgotten
