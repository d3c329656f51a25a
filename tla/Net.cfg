\* Two interfaces: the second may be there before the first.
CONSTANTS
  Interface = {1, 2}
  MaxCount = 2
  MaxChanges = 2
  MaxFaults = 1
SPECIFICATION Spec
INVARIANTS
  TypeOK
  Conservation
  OnlyRealTraffic
PROPERTY EventuallyAccounted
