\* Goroutines that overtake each other lose a running container.
CONSTANTS
  c1 = c1
  Container = {c1}
  Filterable = {}
  MaxEvents = 3
SPECIFICATION Spec
INVARIANT RunningIsFollowed
