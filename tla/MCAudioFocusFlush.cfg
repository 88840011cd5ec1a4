SPECIFICATION AcceptingSpec
CONSTANTS
  MaxSpoken = 2
  MaxSessions = 1
INVARIANTS
  FocusHeldWhileSpeaking
CHECK_DEADLOCK FALSE
