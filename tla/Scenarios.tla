------------------------------ MODULE Scenarios ------------------------------
(***************************************************************************)
(* The scenarios of qa/scenarios as the commands they give and the log lines *)
(* they wait for.  A scenario is its steps, run by a worker thread, and its  *)
(* teardown, run by the main thread.                                         *)
(***************************************************************************)
EXTENDS Device

(* must: part of a finally clause; quiet: its failure is swallowed. *)
Command(op, key, value) ==
  [op |-> op, key |-> key, value |-> value, must |-> FALSE, quiet |-> FALSE]
Finally(c) == [c EXCEPT !.must = TRUE]
Quietly(c) == [c EXCEPT !.quiet = TRUE]

Set(key, value) == Command("set", key, value)      \* set_setting(.., obs=obs)
Put(key, value) == Command("put", key, value)      \* set_setting without obs
System(key, value) == Command("system", key, value)  \* pm, settings put, adb
Act(op) == Command(op, "", 0)
Start == Act("start")
Stop == Act("stop")
ForceStop == Act("forceStop")
Clear == Act("clear")
Sync == Act("sync")
Baseline == Act("baseline")
CrashFree == Act("crashFree")
Walk == Act("walk")                                \* ui.smoke_walk
GoOffline == System("online", FALSE)
GoOnline == System("online", TRUE)
Drive(kind) == Command("drive", kind, 0)           \* drive.pump: can be aborted
Feed(kind) == Command("feed", kind, 0)             \* a loop over feed_point
Expect(what) == Command("expect", "", what)        \* a set of log lines
Never(what) == Command("never", "", what)
Gather(needed, forbidden) == Command("gather", needed, forbidden)
AwaitFirst(outcomes) == Command("awaitFirst", "", outcomes)
Await(outcome) == Command("await", "", {outcome})
Check(key, value) == Command("check", key, value)  \* the UI or a history dump

Observed(signal) == Command("observed", signal, 0)
(* The button of a detail is there if the record has its geometry. *)
AwaitButton(enabled) == <<Check("drawn", TRUE), Check("tracking", ~enabled)>>
AwaitButtonAbsent == Check("drawn", FALSE)
AwaitNotice(present) == Check("unsupported", present)
Seed(withGeometry) == Command("seed", "", withGeometry)
ResetHistory == Set("retention", FALSE)
DumpHistory(rows) == <<Clear, Check("rows", rows)>>

Outcomes == {"Updated", "UpToDate", "Failed"}

Scenario(name, steps, teardown) == [name |-> name, steps |-> steps, teardown |-> teardown]

-----------------------------------------------------------------------------
(* settings.py; the settings no line and no check depends on are left out. *)
Combo(id) ==
  <<Set("voice", id # "S3"),
    Set("language", CASE id \in {"S2", "S5"} -> "en" [] id = "S3" -> "system" [] OTHER -> "bg"),
    Set("vehicle", CASE id = "S2" -> "truck" [] id \in {"S3", "S5"} -> "bus" [] OTHER -> "car")>>

(* edge/_helpers.py, history/_helpers.py *)
ScenarioSetup(id) == Combo(id) \o <<Start, Clear>>
ScenarioTeardown == <<Stop, CrashFree>>
BeginTracking(kept) == <<Set("vehicle", "car"), Set("retention", kept), Start, Clear>>

Edge(name, id, steps) == Scenario(name, ScenarioSetup(id) \o steps, ScenarioTeardown)

SourceSelected ==
  Scenario("source_selected", <<Clear, Start, Expect({"source"})>>, ScenarioTeardown)

(* bulk_loader.py; without settings a scenario drives with those it finds. *)
Bulk(id) ==
  Scenario("bulk",
           (IF id = "" THEN <<>> ELSE Combo(id)) \o
             <<Start, Clear, Drive("through"), Gather({"InZone", "Exiting"}, {})>>,
           ScenarioTeardown)

SelfTest ==
  Scenario("self_test",
           <<Command("seen", {"source", "InZone", "speak"}, 0)>>, <<>>)

-----------------------------------------------------------------------------
(* scenarios/edge *)
InThenOut == <<Expect({"InZone"}), Expect({"Exiting"})>>

StopInZone == Edge("stop_in_zone", "S1", <<Drive("through")>> \o InThenOut)
GpsDropout == Edge("gps_dropout", "S1", <<Drive("through")>> \o InThenOut)
UTurn == Edge("u_turn", "S1", <<Drive("through")>> \o InThenOut)
OffRamp == Edge("off_ramp", "S1", <<Drive("through")>> \o InThenOut)
WrongDirection ==
  Edge("wrong_direction", "S1", <<Drive("away"), Gather({"Outside"}, {"InZone"})>>)
VehicleSwap ==
  Edge("vehicle_swap", "S1",
       <<Drive("into"), Set("vehicle", "truck"), Drive("rest"), Expect({"InZone"})>>)
ClassLimit(name, id, vehicle) ==
  Edge(name, id,
       <<Feed("into"), Expect({"speak"}), Expect({"InZone"}), Check("vehicle", vehicle),
         Feed("rest"), Expect({"warning"})>>)
VehicleTypeLimitBadge == ClassLimit("vehicle_type_limit_badge", "S2", "truck")
BusClassLimit == ClassLimit("bus_class_limit", "S5", "bus")
OverLimitRecovery ==
  Edge("over_limit_recovery", "S1",
       <<Drive("overLimit"), Expect({"InZone"}), Expect({"warning"})>>)
ColdStartSpike ==
  Edge("cold_start_spike", "S1",
       <<Clear, Feed("still"), Observed("slow"), Never({"fast"})>>)
SpeedDecayAfterStop ==
  Edge("speed_decay_after_stop", "S1",
       <<Drive("away"), Clear, Feed("still"), Observed("slow"), Never({"fast"})>>)
NoisyFixRejected ==
  Edge("noisy_fix_rejected", "S1",
       <<Feed("still"), Expect({"slow"}), Clear, Feed("still"), Never({"fast"})>>)
(* Mutant of AutoStop: the ten second limit is left on. *)
AutoStopLeftOn ==
  Scenario("auto_stop",
           Combo("S1") \o <<Set("autoStop", TRUE), Start, Clear, Act("idle"),
                            Expect({"autoStop"})>>,
           ScenarioTeardown)

AutoStop ==
  Scenario("auto_stop",
           Combo("S1") \o <<Set("autoStop", TRUE), Start, Clear, Act("idle"),
                            Expect({"autoStop"})>>,
           <<Stop, Quietly(Set("autoStop", FALSE)), CrashFree>>)
StopSilencesTts ==
  Edge("stop_silences_tts", "S1",
       <<Drive("into"), Expect({"InZone"}), Expect({"speak", "warning"}), Clear, Stop,
         Never({"speak", "warning"})>>)
TtsColdStart ==
  Edge("tts_cold_start_leadin", "S1",
       <<Drive("into"), Expect({"leadIn"}), Expect({"speak"}), Expect({"InZone"})>>)
DenseCenterline ==
  Edge("dense_centerline", "S1", <<Feed("dense"), Gather({"InZone"}, {})>>)
ParallelMotorway ==
  Edge("parallel_motorway", "S1",
       <<Feed("away"), Gather({}, {"InZone", "Unmeasured", "announced", "speak"})>>)
MidZoneJoin ==
  Edge("mid_zone_join", "S1",
       <<Clear, Baseline, Clear, Drive("join"),
         Gather({"Unmeasured"}, {"InZone", "speak", "warning"}),
         Clear, Check("grown", FALSE)>>)
JogStart ==
  Edge("jog_start_measured", "S1",
       <<Clear, Drive("into"), Gather({"InZone"}, {"Unmeasured"})>>)
ProvisionalEntry ==
  Edge("provisional_entry", "S1",
       <<Clear, Drive("provisional"), Gather({"announced", "speak", "InZone"}, {})>>)
ProvisionalAbandoned ==
  Edge("provisional_entry_abandoned", "S1",
       <<Clear, Baseline, Clear, Drive("abandoned"),
         Gather({"announced", "abandoned"}, {"InZone", "Unmeasured"}),
         Clear, Check("grown", FALSE)>>)

-----------------------------------------------------------------------------
(* scenarios/sync *)
Poisoned(version) == <<Put("hash", Sentinel), Put("version", version), Clear, Sync>>

ZonesHappy ==
  Scenario("zones_happy", <<Clear, Sync, AwaitFirst({"Updated", "UpToDate"})>>, <<CrashFree>>)
ZonesAllUsable ==
  Scenario("zones_all_usable", Poisoned(Ancient) \o <<AwaitFirst({"Updated"})>>,
           <<Put("version", Unset), CrashFree>>)
ZonesToggleOff ==
  Scenario("zones_toggle_off",
           <<Clear, Set("syncOn", FALSE), Sync, AwaitFirst({"Updated", "UpToDate"}),
             Finally(Set("syncOn", TRUE))>>,
           <<Put("syncOn", TRUE), CrashFree>>)
ZonesFreshness ==
  Scenario("zones_freshness",
           Poisoned(Ancient) \o <<AwaitFirst({"Updated"}), Clear, Sync, AwaitFirst({"UpToDate"})>>,
           <<CrashFree>>)
ZonesRemoteOlder ==
  Scenario("zones_remote_older",
           Poisoned(Future) \o
             <<AwaitFirst({"UpToDate"}), Put("version", Unset), Clear, Sync,
               AwaitFirst({"Updated"})>>,
           <<Put("version", Unset), Clear, Sync, Quietly(AwaitFirst(Outcomes)), CrashFree>>)

(* Mutant of ZonesOffline: the first result, as elsewhere, whoever asked for it. *)
ZonesOfflineFirst ==
  Scenario("zones_offline",
           <<Clear, GoOffline, Sync, AwaitFirst({"Failed"}),
             Finally(GoOnline)>>,
           <<GoOnline, CrashFree>>)

ZonesOffline ==
  Scenario("zones_offline",
           <<Clear, GoOffline, Sync, Await("Failed"),
             Finally(GoOnline)>>,
           <<GoOnline, CrashFree>>)
MapDisabled ==
  Scenario("map_disabled", <<Clear, Act("syncMap"), Expect({"skipped"})>>, <<CrashFree>>)

-----------------------------------------------------------------------------
(* scenarios/history *)
RetentionRoundtrip ==
  Scenario("retention_roundtrip",
           <<Clear, Put("retention", FALSE), Expect({"setting"}), Put("retention", TRUE),
             Expect({"setting"})>>,
           <<CrashFree>>)
RecordsTraversal ==
  Scenario("records_traversal",
           BeginTracking(TRUE) \o
             <<ResetHistory, Set("retention", TRUE), Clear, Drive("through")>>
             \o DumpHistory(TRUE),
           ScenarioTeardown)
RetentionNone ==
  Scenario("retention_none",
           BeginTracking(FALSE) \o <<Clear, Drive("through")>> \o DumpHistory(FALSE),
           <<Stop, Quietly(Set("retention", TRUE)), CrashFree>>)

(* scenarios/ui *)
SmokeWalk == Scenario("smoke_walk", <<Walk>>, <<CrashFree>>)
FontScaleCards ==
  Scenario("font_scale_cards",
           <<System("allowed", TRUE), Put("language", "en"), System("large", TRUE),
             Act("revoke"), Check("allowed", FALSE), Check("language", "en")>>,
           <<System("large", FALSE), System("allowed", TRUE), ForceStop, CrashFree>>)
OpenHistoryDetail(legacy) ==
  <<System("allowed", TRUE), Stop, Seed(~legacy), Check("rows", TRUE)>>
HistoryShowOnMap ==
  Scenario("history_show_on_map",
           OpenHistoryDetail(TRUE) \o <<AwaitButtonAbsent, ForceStop>>
             \o OpenHistoryDetail(FALSE) \o AwaitButton(TRUE)
             \o <<Start>> \o AwaitButton(FALSE),
           <<Stop, ForceStop, CrashFree>>)
ZoneFeedUnsupported ==
  Scenario("zone_feed_unsupported",
           <<System("allowed", TRUE), Set("unsupported", FALSE), AwaitNotice(FALSE),
             Set("unsupported", TRUE), AwaitNotice(TRUE),
             Set("unsupported", FALSE), AwaitNotice(FALSE)>>,
           <<Put("unsupported", FALSE), ForceStop, CrashFree>>)

-----------------------------------------------------------------------------
(* live_zones.py: put device and harness on the served catalog, then freeze. *)
PinLive ==
  Scenario("pin_live",
           <<Act("readVersion")>> \o Poisoned(Ancient) \o
             <<AwaitFirst({"Updated"}), Act("download"), Act("freeze"),
               Set("syncOn", FALSE), Set("version", Future), Act("useSnapshot")>>,
           <<CrashFree>>)

(* Mutant of Release: the switch is turned on again, the version is left. *)
ReleaseTheSwitch == <<Put("syncOn", TRUE)>>

Release == <<Put("syncOn", TRUE), Put("version", Unset)>>

(* srednabg_qa.py *)
EdgeSuite ==
  <<StopInZone, GpsDropout, WrongDirection, UTurn, VehicleSwap,
    VehicleTypeLimitBadge, BusClassLimit, OverLimitRecovery, OffRamp, ColdStartSpike,
    SpeedDecayAfterStop, AutoStop,
    StopSilencesTts, TtsColdStart, DenseCenterline, NoisyFixRejected,
    ParallelMotorway, MidZoneJoin, JogStart, ProvisionalEntry, ProvisionalAbandoned>>
SyncSuite ==
  <<ZonesHappy, ZonesAllUsable, ZonesToggleOff, ZonesFreshness, ZonesRemoteOlder,
    ZonesOffline, MapDisabled>>
HistorySuite == <<RetentionRoundtrip, RecordsTraversal, RetentionNone>>
UiSuite == <<SmokeWalk, FontScaleCards, HistoryShowOnMap, ZoneFeedUnsupported>>
Representative == <<Bulk("S1"), Bulk("S2"), Bulk("S3"), Bulk("S4")>>
FullZones == <<Bulk("")>>

Suite(name) ==
  CASE name = "smoke"          -> <<SourceSelected, Bulk("S1"), ZonesHappy, SelfTest>>
    [] name = "representative" -> <<SourceSelected>> \o Representative \o SyncSuite
    [] name = "full-zones"     -> FullZones
    [] name = "scenarios"      -> EdgeSuite
    [] name = "sync"           -> SyncSuite
    [] name = "history"        -> HistorySuite
    [] name = "ui"             -> UiSuite

(* Mutant of Nightly: the sync scenarios where the other suites have them. *)
NightlySyncLast(live) ==
  <<SourceSelected>> \o (IF live THEN <<PinLive>> ELSE <<>>)
    \o Representative \o SyncSuite \o FullZones
    \o EdgeSuite \o HistorySuite \o UiSuite

(* The sync scenarios unfreeze the device, so they run before it is pinned. *)
Nightly(live) ==
  <<SourceSelected>> \o SyncSuite \o (IF live THEN <<PinLive>> ELSE <<>>)
    \o Representative \o FullZones \o EdgeSuite \o HistorySuite \o UiSuite

Plan(name, live) ==
  IF name = "nightly" THEN Nightly(live)
  ELSE IF live THEN <<PinLive>> \o Suite(name) ELSE Suite(name)
=============================================================================
