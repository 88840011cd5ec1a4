SPECIFICATION FairSpec
CONSTANTS
  MaxSpoken = 4
  MaxSessions = 2
INVARIANTS
  TypeOK
  FocusIsOwed
PROPERTIES
  FocusIsReleased
CHECK_DEADLOCK FALSE
