SPECIFICATION Spec
CONSTANTS
  Zones = {a, b}
  Nowhere = Nowhere
  Never = Never
  TRANSIENT_EXIT_WINDOW = 2
  SUPPRESS_EXIT_WINDOW = 2
  PROVISIONAL_REPEAT_WINDOW = 3
  Gaps = {1, 2}
  MaxTime = 6
  MaxJobs = 2
  MaxTroubles = 1
SYMMETRY ZoneSymmetry
INVARIANTS
  RowsAreTraversals
  RowsDisjoint
  EntryIsHeard
  ExitMatchesHistory
PROPERTIES
  EntryNotRepeated
CHECK_DEADLOCK FALSE
