SPECIFICATION DriveSpec
CONSTANTS
  Zones <- MCZones
  Places <- MCPlaces
  None = None
  Length <- MCLength
  DistanceM <- MCDistanceM
  Band <- MCBand
  Dist <- MCDist
  Arc <- MCArc
  ToEnd <- MCToEnd
  Aligned <- MCAligned
  EndToStart <- MCEndToStart
  Continues <- MCContinues
  Begin <- MCBegin
  Cruise = 20
  Lead = 100
  Stride = 800
  MinStand = 0
  Speeds = {20}
  Gaps = {5, 40}
  MaxTime = 200
  START_WITNESS_ARC_M = 200
  EXIT_DISTANCE_M = 100
  STOP_SPEED = 2
  STOP_DURATION = 30
  GPS_DROPOUT = 10
  OFF_ROAD_EXIT_GRACE_FIXES = 3
  OFF_ROAD_HARD_M = 1000
  ENTRY_CONFIRM_DISTANCE_M = 300
  ENTRY_CONFIRM_SHARE = 4
  ENTRY_CONFIRM_FIXES = 2
  ENTRY_CONFIRM_TIMEOUT = 30
  COLOCATED_CAMERA_M = 250
  COLOCATED_HANDOVER = 30
INVARIANTS
  DropoutsNeverDeflateTheAverage
CHECK_DEADLOCK FALSE
