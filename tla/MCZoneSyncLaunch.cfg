SPECIFICATION LaunchSpec
CONSTANTS
  Syncs = {worker}
  Loaders = {loader}
  Periodic = worker
  Contents = {a, b, c}
  None = None
  MaxVersion = 3
  MaxInterruptions = 0
  Stored = a
  Bundled = b
PROPERTIES
  CatalogConverges
