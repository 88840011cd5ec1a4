CONSTANTS
  None = None
  JoinM = 150
  Zooms <- MCZooms
  CloseM = 2000
  SnapM = 30
  JunctionMinM = 10
  JunctionMaxM = 500
  SnapEpsM = 5
  DiscoveryZoom = 8
  MarginM = 20
  MaxScripts = 3
  Fallback <- MCFallback
  Required <- MCRequired
  BgMin = 1000
  BgMax = 80000
  Served <- MCPages
SPECIFICATION Spec
CHECK_DEADLOCK FALSE
INVARIANTS
  EveryReadingOnce
  JunctionsMeet
  LimitsArePlausible
  EndsAgree
  PublishedOnce
  NoFalseAlarm
  QuietMeansDecodable
