SPECIFICATION Spec
CONSTANTS
  None = None
  Feeds = {1, 2}
  Projected = {1, 2}
  Contracts = {"first", "second"}
  Clients <- MCClients
  Catalogs <- MCCatalogs
  Sources = 2
  Attempts = 2
  MinZones = 50
  Retention = 1
  MaxRuns = 3
CHECK_DEADLOCK FALSE
INVARIANTS ServedIsUsable FeedsAgree
PROPERTIES NoCollapse NothingLost HistoryKept SuccessMeansPublished RunEnds
