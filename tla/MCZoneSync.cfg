SPECIFICATION FairSpec
CONSTANTS
  Syncs = {worker, button}
  Loaders = {loader}
  Periodic = worker
  Contents = {a, b}
  None = None
  MaxVersion = 2
  MaxInterruptions = 1
INVARIANTS
  LoneWritersAgree
  FetchedIsNotOlder
PROPERTIES
  LoneSyncNeverDowngrades
  ChangedPublicationHeals
  RetirementIsNoticed
