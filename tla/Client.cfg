\* One goroutine that sends requests, two nodes.
CONSTANTS
  Requester = {r1}
  Checker = healthchecker
  NumConns = 2
  MaxRetries = 3
SPECIFICATION Spec
INVARIANT TypeOK
PROPERTIES
  ImplementsAtLeastOnce
  UsedAgain
