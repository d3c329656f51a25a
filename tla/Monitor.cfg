\* Four events.
CONSTANTS
  MaxEvents = 4
SPECIFICATION Spec
INVARIANT TypeOK
PROPERTIES
  ImplementsStream
  NobodyIsLeft
CHECK_DEADLOCK FALSE
