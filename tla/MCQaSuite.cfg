SPECIFICATION Spec
CONSTANTS
  None = None
  Bundled = 2
  Catalogs = {1, 2, 3}
  Attempts = 2
  Runs <- MCRuns
CHECK_DEADLOCK FALSE
INVARIANTS FailuresAreExplained EvidenceIsOwn DrivesOnPinnedCatalog DeviceHandedBack
PROPERTIES SuiteEnds
