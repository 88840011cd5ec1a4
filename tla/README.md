# TLA+ models of SrednaBG

SrednaBG tells a driver, while driving, the average speed since the entry camera
of an average-speed zone. The repository holds an Android app (Kotlin), its iOS
twin (Swift, a port of the same core), the scrapers that publish the zone catalog
(Python) and a QA harness. This directory models the parts in which order,
interleaving, failure or a long sequence of fixes decides whether the app is
right, checks them with TLC and proves part of it with TLAPS.

Everything is translated from the source. Paths below are relative to the
repository root; `core/` stands for
`src/android/core/src/main/kotlin/com/demosten/srednabg/core/` and `app/` for
`src/android/app/src/main/kotlin/com/demosten/srednabg/app/`.

## 1. Inventory

### How the parts interact

    scrapers --two files--> web server --HTTP--> zone sync --Room, settings--> zone store
                                                    ^                             |
                      bundled zones.json -----------+                    Flow of the catalog
                                                                                  v
    GPS --> location source --> tracking service --fix--> zone detector --ZoneState--+
                                     |                                               |
               +---------------------+-------------------+---------------------------+
               v                     v                   v
        history recorder      audio alerts --TTS--   map, overlay, notification
               v
        history store <-- retention pruning

One fix at a time enters `LocationTrackingService`, is filtered, given to
`ZoneDetector.update`, and the pair (previous state, new state) is handed to the
recorder and the announcements. The catalog reaches the service as a Flow: each
new catalog replaces the detector. Zone sync, re-seeding, history inserts,
pruning and announcements are coroutines of their own. On iOS the same roles are
played by main-actor methods, actors and detached tasks.

### Components

| component | state | operations | what is hard | what makes it correct |
|---|---|---|---|---|
| Zone detector, `core/ZoneDetector.kt` (with `RoadMatcher`, `AverageSpeedCalc`) | reported state, previous fix, traversal bookkeeping, pending entry, handover offer | `update` (four handlers), `reset` | long sequences: candidates that restart, back-dating, co-located cameras, off-road hysteresis, stops and dropouts that span a boundary | a measured traversal is one whose entry was witnessed; traversals are disjoint; distance and active time are those of the drive; exits follow entries |
| Zone sync and re-seed, `app/data/ZoneRepository.kt`, `ZoneDataRecency.kt`, `remote/ZoneApi.kt`, `ZoneSyncWorker.kt` | Room table, cached hash, cached version, retired-feed flag, per-process check flag | `syncFromServer`, `ensureLoaded` (seed, re-seed) | two coroutines with no lock between them; three separate writes; crashes; two HTTP requests around a publication | labels describe the stored catalog; no downgrade; the served catalog arrives; a retired feed is noticed |
| Feed publication, `src/scrapers/src/output.py`, `feeds.py`, `fetch.py`, `client_contract.py`, `notify.py`, `scripts/run_cron.sh` | per feed a zones file, a version file and snapshots; the manifest; the hash last reported | fetching with retries, `publish_guard_errors`, `_write_feed`, pruning, report | two files per feed, replaced one after the other; several feeds; a kill between any two; clients that refuse a catalog | the version file never announces what cannot be fetched yet; nothing unusable is served, nothing is lost, all feeds agree, reports are true |
| Audio alerts, `app/service/AudioAlertManager.kt` | engine, initialised flag, utterance count, focus, provisional entry, timestamps | `initialize`, `shutdown`, `speak`, callbacks; `onProvisionalEntry`, `onZoneStateChanged` | binder-thread callbacks posted to Main, flushes, rejected enqueues, shutdown races; announcements as coroutines that suspend | focus is held while speaking and released afterwards; an entry is announced once |
| Tracking service, `app/service/LocationTrackingService.kt` | detector, catalog, raw-fix baseline, cadence, activity clock, provisional announcement | listener, start, destroy, catalog change, auto-stop | catalog change in mid-zone, restart, stop during setup | consumers see one consistent sequence of states; tracking stops when idle |
| History, `app/service/HistoryRecorder.kt`, `app/data/HistoryRepository.kt` | open capture, recording flag, table | state change, insert, prune | detector replaced under an open capture, insert racing a purge | one row per traversal, with its own times |
| Offline map, `app/data/MapRepository.kt` | map directory, staging, backup, cached hash | `ensureLoaded`, `syncFromServer`, swap | a crash between any two file operations | a complete, patched map is there or will be |
| iOS sync and bootstrap, `src/ios/SrednaBG/App/SrednaBGApp.swift`, `SyncClient.swift`, `ZoneStore.swift` | zone file, settings, detector's catalog | `bootstrap`, `runZoneSync`, `runMapSync` | actor re-entrancy at each `await` | as on Android |
| iOS tracking, `ZoneTrackingService.swift`, `AnnouncementPolicy.swift` | as on Android, plus start/stop tasks | `start`, `stop`, `process`, `updateZones` | re-entrant start/stop, detached announcement tasks | as on Android |
| GPS filter, geometry, history statistics, sanitiser, status colours | filter covariance, or none | pure functions | floating point | reference definitions |
| Scrapers and validator, `src/scrapers/src/{bgtoll_scraper,tolltracker_fetcher,mvt,kml_scraper,validator,geo,roads}.py` | catalog under construction | `run_pipeline`: three scrapers, `merge_all` | three sources that disagree: sections one of them lacks, names in another order, surveys metres apart, lines cut by tiles | each section is published once, with ends, shape and limits that belong together; a warning means something |
| QA harness, `src/qa/srednabg_qa.py`, `runner.py`, `devices/android.py`, `scenarios/` | event queue, worker thread, abort flag, pinned catalog; the phone | suites, scenarios, `live_zones` pin and release | threads that outlive their deadline, log lines that arrive late, one phone and one queue for all scenarios, a publication in mid-run | a failure is explained, evidence is the scenario's own, the phone is handed back |
| Settings, permissions, overlay, Android Auto / CarPlay, UI, tile server | – | – | platform I/O | – |

`PROJECT.json` lists every component with its sources and status and, under
`hazards`, the places where this code is hard to test, each with the properties
that watch it or the reason none does yet.

## 2. Plan

1. **Zone detector** – `Traversal` (abstract contract), `ZoneDetector`
   (detailed), `ZoneDetectorProofs`; `Drive` on a road, `DriveProofs`. *Done.*
2. **Zone sync** – `ZoneSync` with the publication as its environment,
   `ZoneSyncProofs`. *Done.*
3. **Audio focus** – `AudioFocus`, `AudioFocusProofs`. *Done.*
4. **Publication** – `Publication`, `PublicationProofs`. *Done.*
5. **Scrapers** – `Sources`, `Pages`, `ZoneMerge`, `Scrape`, `ScrapeProofs`. *Done.*
6. **QA harness** – `Device`, `Scenarios`, `QaSuite`. *Done for Android.*
7. **Tracking** – `HistoryRecorder`, `AudioAlerts`, `Tracking`,
   `TrackingProofs`, over the `Traversal` contract. *Done for Android; the idle
   clock of the auto-stop is left.*
8. **Map installation** – directory states, crash between any two operations,
   recovery by `ensureLoaded` or the next sync; abstract specification: an atomic
   installation.
9. **iOS** – zone sync with its own suspension points; tracking start/stop and
   the order of detached announcements.
10. **History statistics** as operators against a reference.

## 3. Modules

### `Traversal`
What the detector promises its consumers (`core/Models.kt`, 101-151, and
`pendingEntryInfo`): a measured traversal opens from a candidate whose first fix saw
the zone's start and dates the entry, or from the offer of a zone just finished; not
before the last one ended. It keeps its zone and entry time, and ends in one exit
report or in a reset; an unmeasured zone never turns into a measured one nor
reports an exit. `Detect(t)` is what a call of `update` with a fix of time `t` may
do, a step of the contract and what `pendingEntryInfo` shows afterwards; `now` is
the time of the latest fix. `ZoneDetector` implements it, `Tracking` stands on it
and itself implements it, so the two proofs meet in one specification.

### `ZoneDetector`
One action per call: `Update(fix)` dispatches to the four handlers exactly as
`update` does; `Reset` is `reset()` or the replacement of the detector.

| TLA+ | Kotlin |
|---|---|
| `state` | `state`, each subclass a record with a `kind` |
| `track` | `activeZone`, `entryTime`, `distanceTraveled`, `totalStopDurationMs`, `stopStartTime`, `offRoadStreak`, `lastArcM` |
| `pendingEntry`, `handover`, `lastPoint` | the fields of those names |
| `now`, `lastExit` | environment clock; history of the last measured exit |

Abstractions. Geometry is a table (`Dist`, `Arc`, `ToEnd`, `Aligned`,
`EndToStart`, `Continues`), so `findMatchingZone`'s nearest-zone choice is kept
and ties are left open where the code takes the first of the list. Speeds are
m/s and times seconds, where the code has km/h and milliseconds. The average is the
fraction distance/active time. The candidate's fix counter saturates at the value
it is compared with. The display fields (maximal speed for the remainder,
remaining distance) and the vehicle's limit are left out: nothing in the detector
reads them back. Timestamps do not go back.

### `MCZoneDetector`, `Drive`, `MCDrive`
`MCZoneDetector` supplies a catalog around one camera site: two zones in a row and
the opposite carriageway, nine places among them the seam, a wide fix, the other
carriageway and nowhere. Fixes are arbitrary, the harshest stream there is.
`Drive` supplies the opposite: a car on a straight road of any zones (`Begin` says
where each lies), whose true position is known, so that what the detector credits
can be compared with what was driven. `MCDrive` gives it two zones in a row and
checks (`MCRoadIsDriven`) that the assumptions of `TrackedDriveIsMeasured` single out
the first as approached and the second as its successor.

### `ZoneSync`, `MCZoneSyncLaunch`
Each coroutine is a job with a program counter; an action is the code between two
suspension points. `syncFromServer` runs `StartSync`, `FetchVersion`,
`RecordSupport` (59-60), `Gate` (61-62), then `Backfill`, or nothing, or
`FetchZones` and the three writes `ReplaceAll`, `SetCachedHash`,
`SetCachedVersion`. `ensureLoaded` runs `StartLoad` (`LoadFromAssets` on an empty
store, else `CheckBundle` once per process and `Reseed`) and the same three
writes. `FetchFails` is any exception of a request. `PublishZones` and
`PublishVersion` are the two file replacements of `_write_feed`; `Kill` and
`Upgrade` end the process wherever its jobs stand, `Cancel` one coroutine (the
worker's constraints lost, a screen or service gone). A catalog is its content and
its scrape time; the hash is the content (`zone_schema.py`, 118-135), so a
re-scrape of unchanged roads has the same hash and another version. Malformed or
missing versions are `None`, not comparable. `MCZoneSyncLaunch` starts from one
situation: an upgraded app with a newer bundle, opened beside the launch worker.

### `AudioFocus`, `MCAudioFocusFlush`
The Main thread, the TTS engine and the binder threads between them. `queued`,
`calling` and `posted` follow an utterance from the engine's queue through the
callback to the runnable on Main. `Speak` is `speak()` whole: the cold-start
lead-in, the flush, the undo of what the engine rejects. An engine that fails to initialise leaves the
app silent (`OnInit`). What is announced and
when is `AudioAlerts`.

### `HistoryRecorder`, `AudioAlerts`, `Tracking`, `MCTracking`
`Tracking` is the service: `OnLocation` is the listener, which gives a fix to the
detector (`Detect`, a step of `Traversal`) and the pair of states to the alerts
(`Announce`) and the recorder (`Record`), in the code's order within one call.
`ZonesLoaded` and `ZonesChanged` are `initializeDetector`, `OnDestroy` whoever
called `stopSelf`, `ProcessDies` the end of everything but the table and the
setting. The recorder and the alerts are singletons and know nothing of a new
detector.

| TLA+ | Kotlin |
|---|---|
| `capture`, `recordingEnabled` | the fields of `HistoryRecorder` |
| `inserting`, `rows` | launched inserts, the table |
| `retention`, `pruned` | the setting, what the application's collector last applied |
| `jobs` | the coroutines of `onProvisionalEntry` and `onZoneStateChanged`, before and after their suspension on settings |
| `provisional`, `lastEntryTime`, `isInitialized` | the fields of `AudioAlertManager` |
| `service` | no instance, one that waits for its first catalog, one with a detector |
| `finished`, `skipped`, `owed`, `heard`, `dropped`, `lastSaid`, `late` | history: what was driven, what was due and what was said |

Abstractions. Of a row its zone, entry and exit are kept; samples, limits and
averages are not. The wall clock of the alerts is the time of the fixes. A fix the
listener drops before the detector is a longer gap. A coroutine runs up to its first
suspension within the fix that launched it; voice off, a slow car or a missing
average make an announcement inaudible from the start. Over-limit warnings and
periodic updates, and the outcome log of `trackProvisionalOutcome`, change none of
this state.

### `Publication`, `MCPublication`
A cron run, from `Start` to `Notify`. `Request` and `SourceFailure` are the
requests of the sources with their retries, `Merge` any catalog they may yield,
`Refuse` and `Accept` the guard over all feeds at once, and `Open`,
`CopySnapshot`, `ReplaceZones`, `ReplaceVersion`, `Prune` what `_write_feed` does
to the disk, one file operation each, feed after feed. `Killed` is the scraper
dying anywhere (the wrapper still reports), `HostDown` both. `EditManifest` is the
operator changing a feed's status, also to one that is none. A catalog is its hash,
its size, whether the required motorways are in it, and the set of client contracts
it breaks; a client is the feed it reads and its contract.

| TLA+ | Python |
|---|---|
| `zonesFile`, `versionFile`, `snapshots` | `zones.json`, `version.json`, `history/` of each feed |
| `status` | the feeds' statuses in the contracts' `manifest.json` |
| `pc`, `source`, `attempt`, `failed`, `db`, `todo`, `rc` | where the run is |
| `lastHash`, `told` | `last_hash` of the wrapper, its last message |
| `published`, `runs` | history: what the last run that published wrote; bound |

### `Sources`, `Pages`, `ZoneMerge`, `Scrape`, `MCScrape`
`Scrape` is `run_pipeline` and `merge_all`, one action per scraper and per stage,
over what the sites serve; the loops of `match_zones`, in which one choice takes a
candidate away from the next, take a step per match (`MatchBgToll`,
`AddTollTracker`, `MatchKml`, `AddKml`). A match holds the indices of its readings;
`used` are the code's three sets of used indices, `turn` is the match the map is
searched for next. `snap_junction_seams` takes a step per seam as well (`SnapNext`,
in the code's order, `TriedBefore`; `seam` is the one closed last), since closing one
moves what the next sees. The other stages are operators, one module per layer:
`Pages` finds the data (the marked table or the first that names a motorway; the
tile source behind the site's scripts with its fallback; tiles from their layers,
tags and geometry commands; the map's folders and descriptions), `Sources` makes
zones of it (directions, reversed drawings, stitching of tile pieces, nearest
placemarks), `ZoneMerge` matches, merges field by field, drops what BG TOLL does
not publish, numbers, joins seams, aligns and validates.

A road is a straight line: a coordinate is a place on it in metres, so distances
are differences and bearings are signs; four roads stand for the four kinds the
direction tables tell apart. Names are places with a spelling. `MCScrape` holds a
truth (a road with two sections in both directions) and writes the pages, tiles and
folders from it, each with the ways in which sources are wrong; what is published is
compared with that truth.

### `Device`, `Scenarios`, `QaSuite`, `MCQaSuite`
`Scenarios` writes every scenario of `qa/scenarios` as its commands and waits, and
the suites as sequences of scenarios; `Device` is the phone as a scenario sees
it: the settings a command changes, the catalog, the log lines a drive causes.
What the scenarios leave out of the phone is what no line and no check depends on: of a
combination's six settings voice, language and vehicle are kept.
`QaSuite` is the run: `NextScenario`, the worker's steps (`Work`), `WorkerEnded`
or `TimeOut`, the teardown and release by the main thread (`Direct`), and the event
queue they share. A step may fail or hang, the app may crash, a line may come late,
the run may be interrupted, a catalog may be published and the app may sync by
itself; a worker that missed its deadline goes on as an orphan (`Drift`). A drive ends
there if it sees the abort within the two seconds of grace; one blocked in adb does
not, and goes on when the next scenario has cleared the abort (`runner.py`, 125-130, 148).
Catalogs are numbered by age, so a version is a number and a hash the same number.
A drive is its log lines.

## 4. Runs

| run | what it shows | bounds |
|---|---|---|
| `detector` | all invariants of the detector and its refinement of `Traversal` | 3 zones, 9 places, 2 speeds, gaps of 5, 15 and 31 s, 50 s |
| `drive` | credited distance is driven distance; no tracked drive is missed | 2 zones of 1 km, tracked from 200 m before the first; speeds 0 and 20 m/s, gaps of 5 and 15 s (`Stride` 300 m), 140 s |
| `drive_stops` | violation: a stop inside the confirmation window dilutes the average | as above with stands of 30 s and more |
| `drive_dropout` | violation: a dropout across the end camera deflates the average | gaps of 5 and 40 s |
| `zone_sync` | three overlapping jobs: what a lone coroutine guarantees, what heals, retirement notice | 2 contents, 2 scrapes, 1 interruption: process death, upgrade or cancelled coroutine |
| `zone_sync_launch` | violation: the catalog need not converge | no interruption |
| `audio_focus` | focus is owed and released | 4 announcements, 2 sessions |
| `tracking` | rows are disjoint traversals; what is owed to the driver is said, once; exit lines agree with the history | 2 zones, gaps of 1 and 2 (windows 2, 2 and 3), 6 time units, 2 coroutines, 1 trouble |
| `audio_focus_flush` | violation: focus lost while speaking | 2 announcements, 1 session, engine accepts everything |
| `publication` | what clients and operator may rely on, whatever fails or dies | 3 runs, 2 feeds, 3 clients with 2 contracts, 6 catalogs, 2 sources, 2 attempts, 1 snapshot kept |
| `scrape` | what is published describes each section once and consistently, sections that share a camera meet at it; warnings mean something | 1 road of 4 kinds, 2 sections in 2 directions, 3 layouts, about 4 000 worlds of deviations |
| `qa_suite` | scenarios do not disturb one another unnoticed; what they turn over is turned back | 12 runs of 7 suites, 1 fault (short runs 2), 3 catalogs |

Why the bounds are enough. *Detector*: a gap of 31 s crosses every timeout
(confirmation, handover, stop), 15 s is a dropout, 5 s is neither; the horizon
holds an entry, its confirmation, a whole traversal, the handover and the second
zone, or an unmeasured join and its departure, with the three off-road fixes. The
places hold one of each kind the geometry can produce. *Drive*: 140 s at 20 m/s is
the length of both zones with room for stops. *Sync*: two contents tell "same" from
"different"; with two scrapes there is a bundled or stored catalog and a later one; three jobs
interleave in every order, around one interruption. *Audio*: four
announcements are more than a cold start, an addition, a flush and one late
callback take; two sessions let a callback cross a shutdown.

*Tracking*: a trouble is a stop, a process death, another catalog, the history
switched off, or the first coroutine that outlives the fix it belongs to; switching
the history on again and starting again are free. Six units hold a candidate, its
confirmation, a traversal on either side of every window, and its successor or a
second session; two coroutines are a provisional entry and its confirmation, or an
exit and the next entry, in either order. The same run with two troubles (11.7
million states) passes as well.

*Publication*: of the six
catalogs three may follow one another only one step at a time under the ratio guard
and each other one fails another part of the guard, one of them on one feed
only; three runs are a publication, one that is killed, and one that meets what it left;
a history of one makes every pruning decide. *Scrape*: the layouts are sections that
share a camera, short ones (closer than the matching threshold) and two 400 m apart
(inside the junction window, beyond the snapping distance); surveys 0, 20 and 50 m
off lie on both sides of the snapping distance; tiles are whole, cut, or have a
hole. Deviations are combined where they meet in the code. *QA*: a fault may hit
any step of any scenario; the short suites have two, so that one may strike while
another is being repaired. An orphaned thread and a
late result outlive their scenario by at most one scenario. `representative` stands for the four
combinations of settings on one zone, `full-zones` for one zone.

The properties are stated, each with the code it is about, at the end of their
modules. Those of the drive compare the detector with a truth the unit tests only
sample; `LoneWritersAgree` and `LoneSyncNeverDowngrades` say exactly how far
the sync's comments hold – as long as nothing overlaps and nothing is cut off – and
`ChangedPublicationHeals` bounds the damage otherwise. `EntryIsHeard` and
`EntryNotRepeated` do the same for the comments of `isProvisionalStillFresh`:

- The mark of a provisional entry is set before `speak`, also when the engine is not
  ready yet; then the line is dropped and the confirmed entry is silent too. This is
  the exception `dropped` of `EntryIsHeard`.
- Only the latest mark is kept: a candidate for A, one for B and again one for A
  are announced three times within the window. So "announced twice
  inside a minute" is claimed only when nothing else was said in between, and no
  coroutine outlived the next fix.
- The recorder and the alerts judge a short traversal by different clocks. One
  direction holds (`ExitMatchesHistory`); the other does not: a traversal that was
  confirmed late is stored although its exit is not spoken.

Type invariants that are proved (section 6) are not run again, but for
`AudioFocus`.

Deadlock checking is off where the system may stop: every bounded clock and counter
ends, and an idle phone is not a fault.

### Fairness
`ZoneSync`: a runnable coroutine runs (weak fairness of each job's steps);
WorkManager repeats the periodic sync (`ZoneSyncScheduler.enable`, every six
hours with a connection, retried by `ZoneSyncWorker` on failure) and not all of
its requests fail, hence strong fairness of the periodic job's two requests; a
publication that has begun finishes. Nothing is assumed of the button, of
interruptions or new publications, except that the bounds make them finitely many. A user who switches automatic updates off
is outside these properties. `AudioFocus`: the engine plays what it accepted,
binder calls return and the Main queue runs; nothing is assumed to be spoken or
shut down. `Publication`: the scraper's process runs on until it ends or is killed,
for every request has a timeout (`fetch.py`). `QaSuite`: threads are scheduled, calls
of adb end (each has a timeout) and logcat delivers in the end.

## 5. Findings

Four comments or tests say more than the code does; each has a run whose trace is
the disagreement, quoted in `PROJECT.json`.

1. *Stops while confirming* (`core/ZoneDetector.kt`, 333-355). The candidate
   collects distance but no stop time and confirmation resets the stop accounting.
2. *Dropouts across the end camera* (548). The projection stops at the end, the
   clock does not.
3. *Launch convergence* (`app/data/ZoneRepository.kt`, 82-84, 108-135). Both writers pass
   their gates, then interleave three writes; the store keeps the bundle under the
   labels of the served catalog until the next publication. The same race, or a
   death between the writes, also breaks "the server must never downgrade us", and
   "same data, so same version" (64-65) is not so, for the hash leaves the scrape time out.
4. *Late callbacks and flushes* (`app/service/AudioAlertManager.kt`, 415). A callback
   posted before a flush is counted against the announcement that flushed. The
   unconstrained model also reaches the same state when a flushing enqueue is rejected while
   an earlier utterance is playing.

## 6. Proofs

`ZoneDetectorProofs` proves, for every catalog, every geometry table, every set of
thresholds that satisfies the named assumptions and every stream of fixes in time
order: `TypeOK`, `StateMatchesTrack`, `StopsWithinTraversal`, `TraversalsDisjoint`,
`CandidateIsCurrent`, `OfferIsLatestExit`, the action property
`MeasuredEntryIsEarned` and the refinement `Spec => ImplementsContract`.

The inductive invariant is the conjunction

    IInv == TypeOK /\ StateMatchesTrack /\ ClockOK /\ TraversalsDisjoint
              /\ CandidateIsCurrent /\ OfferIsLatestExit

None is inductive alone. Types need the clock: a stop or an entry that lay in the
future would give negative durations. `ClockOK` says that every remembered time
(previous fix, entry, running stop, exit) is at most `now`, that a candidate began
no earlier than the last exit, and that excluded stop time fits in the traversal;
`StopsWithinTraversal` is part of it. Disjointness needs the candidate's bound,
and what a handover proves about an entry needs the offer to be the latest exit's.
The proof goes handler by handler (`OutsideStep`, `IntegratedFacts`, `ExitStep`,
`ContinueStep`, `UnmeasuredStep`, `ResetStep`), over lemmas on the helpers. The
refinement maps `kind`, `zone`, `entry` and `lastEnd` to `state.kind`,
`track.zone`, the entry time while measured, and the last exit; each handler is
shown to be a step of the contract or a stutter.

Assumptions: the geometry tables are functions of naturals with every projection
inside its zone; the thresholds are naturals, with at least two confirming fixes and at least
one grace fix; `None` is no value of any other type.

`AudioFocusProofs` proves `TypeOK` and `FocusIsOwed` for any number of
announcements and sessions; together they are inductive. The step that matters is
`SpeakCounts`: what `speak` adds to the counter is what it adds to the queue, also
when the engine rejects one utterance or both.

`ZoneSyncProofs` proves `TypeOK`, `FetchedIsNotOlder`, `LoneWritersAgree` and the
action property `LoneSyncNeverDowngrades` for any number of coroutines, catalogs,
publications and interruptions. Two strengthenings carry it. `PublicationOK`: the
version file never runs ahead of the zones file, the zones file is of the last
scrape while a publication is under way, no announcement in hand is newer than the
version file, and nothing on the device is newer than the last scrape. `LoneOK`:
while nothing overlaps, at most one job is in flight and where it stands tells
which of the three writes are done. The backfill is why the downgrade needs an
argument: it may lower the cached version below that of the stored zones, and what
then protects them is not the version but that the announcement has their hash
(`Safe`), and that any later publication is newer. Assumed: the jobs are disjoint,
the bounds are naturals, `None` is no value of any other type.

`PublicationProofs` proves all safety properties of `Publication` – `TypeOK`,
`ServedIsUsable`, `FeedsAgree`, `NoCollapse`, `NothingLost`, `HistoryKept`,
`SuccessMeansPublished` – for any feeds, clients, catalogs, retention and number of
runs, with a death between any two steps. The inductive invariant is

    IInv == TypeOK /\ IsFiniteSet(snapshots) /\ StepsOK /\ WritingOK
              /\ ServedIsUsable /\ FeedsAgree

`StepsOK` says what each program counter has behind it (before the zones file of a
feed is replaced, what it announced is in the history, whole). `WritingOK` says
why a run that writes feed after feed is safe: all feeds passed the guard before
the first was touched, those behind hold and announce the catalog, and those ahead
still announce what the ratio was judged against. `HistoryKept` needs the snapshots
to be finite, since "the newest" of them counts the newer ones. That the feeds are
written in order rests on a least element of a set of naturals, taken from the
library's well-foundedness of `<`. Assumed (`PublicationAssumption`): feeds are finitely
many positive naturals, 1 among them, a catalog is a record of the four fields with a size in the
naturals, at least one snapshot is kept, at least one attempt is made.

`TrackingProofs` proves `RowsAreTraversals`, `RowsDisjoint`, `EntryIsHeard` and
`TypeOK` for any set of zones, any windows, drives of any length and any number of
disturbances and coroutines. The history rests on

    HInv == HistoryOK /\ ContractOK /\ BufferOK /\ FinishedOK /\ RowsAreTraversals

`BufferOK` is the argument: an open buffer is either that of the open traversal, or
it belongs to a detector that is gone – and then the new one stands outside with
neither candidate nor offer, so it cannot open a zone on its first fix, and that fix
clears the buffer. `FinishedOK` needs from the contract that a candidate is not older
than the last end. The alerts rest on

    AInv == AlertsOK /\ MarkIsHonest /\ EntryIsHeard /\ ClockOK

`MarkIsHonest` says of the mark that its zone was heard since, or will be by a
coroutine past its checks, or found no engine; so a confirmed entry that is skipped
because of it was heard less than the window before it was owed. Assumed: gaps
between fixes are positive, the repeat window is positive, `Nowhere` and `Never` are
no values of other types.

`ExitMatchesHistory` and the action property `EntryNotRepeated` speak of coroutines
that finish before the next fix, and rest on both invariants above and

    TInv == EntryTimesOK /\ OnTime /\ Marked /\ Said

`OnTime`: as long as nothing was late there is at most one announcement under way,
that of the latest fix, and the detector's state is the one it speaks of. `Marked`
ties the alerts' clock to the recorder's: inside an announced zone the time of the
announcement is at or after the back-dated entry, or about to be; so an exit line
that passes the alerts' window has passed the recorder's. That the recorder's window
is no longer than the alerts' is an assumption (`MirrorAssumption`; the comment at
`HistoryRecorder.kt`, 181-183, asks for it and both are 5 s). `Said`: until a
traversal is over, the one mark that is kept is that of the line said last, so what
is about to be said is not its repetition. `TrackingKeepsContract` closes the
composition: under restarts, catalog changes and process deaths the service moves
the detector only by steps of the contract that `ZoneDetector` implements, with the
same clock.

`DriveProofs` proves `DistanceMatchesRoad` for any number of zones anywhere on the
road, any thresholds, cadence, speeds, stops and dropouts. Added to the detector's
`IInv` is an account (`CreditOK`), kept for the candidate and for the traversal
alike: the distance credited is at most the road driven since the entry, and short
of it at most by the part before the zone's start, which is within the band. The
trapezoid and the bridged projection both keep it (`CreditAdvances`), the second one
only because the traversal ends as soon as the projection stops at the zone's end.
Assumed (`RoadAssumption`): the projection is that of a straight road, a zone is
no nearer than its start, and its end no nearer than along the road; gaps are positive,
and no two fixes are further apart than `Stride` (any bound will do).
A fix of the drive is the detector's own `Update`, with nothing added but the car.

`TrackedDriveIsMeasured` is proved on every such road, for the zones its operators
single out. `Approached` asks of a zone that tracking starts before its camera, that
the first fix its band can hold is early enough to witness the entry, that nothing else
matches until it ends and that what matched before is over a stride earlier;
`Follows` that a successor shares the camera and the heading and nothing else
matches near it; `Steady` that the longest silence fits the confirmation and the handover
timeouts and two fixes confirm. None of this is assumed of every zone: the property
speaks of those for which it is so. The invariant is

    TInv == IInv /\ OnTheWay /\ Counted

`OnTheWay` places the car between the reach and the end of the zone it is in.
`Counted` says for an approached zone that it is measured, finishing, or a candidate
first seen early (`Waiting`: its first arc is within what `FirstSeenBy` allows, and with
a second fix it lacks progress, so the car is short of `ConfirmedBy`); for a
successor inside the handover window, that the offer of the latest exit stands until the
first fix beyond the camera takes it (`HandingOver`); and after the window, that the
successor is shown or waits in turn (`TakingOver`). `HandledFix` first reduces the four
handlers to the three things that matter on a road: a fix meets a zone, stays in one, or
leaves it.

`ScrapeProofs` proves five results for every set of pages the sites may serve, any
number of zones and any thresholds; the first three are about every step of the run.

- `EveryReadingOnce`, from `MInv`: what is noted as used is exactly what the
  matches hold, no two matches share a reading of one source, and a match whose turn
  has not come holds no segment of the map. `Merge` comes only when nothing is
  left unused.
- `LimitsArePlausible`, from `LInv`, which adds that the readings of one match are of
  one road and direction (`OneGroup`; `merge_match`'s docstring, "sources within one match
  can never disagree"). It is needed because `_pick_limit` judges a limit by the
  road BG TOLL or TollTracker gives and publishes it under the road the map gives.
- `JunctionsMeet`, from `JInv`: however many seams are closed, in whatever order ids put
  their zones, two zones that alone share a camera end up at one of the two places
  their sources gave it. While seams are closed (`Junctions`) the pair is either
  still apart by the same gap, and then its seam is still to come (`OpenIsSeam`), or has
  met; no other seam touches it, since closing one moves an end only to where another
  camera of the group is (`SnapStaysApart`), and those are too far
  (`LoneJunction`). Alignment leaves starts and ends alone. The theorem is about
  catalogs whose zones are whole records (`IsCatalog`); that numbering yields one is
  checked by the run (`EndsAgree`), since it sorts.
- `NumbersAreUnique`: zones of a road get distinct ids. Those with one base are told
  apart by their occurrence, and the number of a section grows with its first zone;
  that two finite sets of one size, one inside the other, are equal does the rest.
- `AlignedStaysAligned`: the two ends of the line, its length and that a second
  alignment changes nothing, for any line of at least two points.

Only model-checked:

- `ShapesAgree`, the whole of a published shape (part of `EndsAgree`): the parts that are
  not induction over data are `JunctionsMeet` and `AlignedStaysAligned`.
  `QuietMeansDecodable`: that a zone has a line of two points and a length rests on
  the stitching of tiles and on validation's filter, recursions over sequences.
- `EndsAgree`, `PublishedOnce`, `NoFalseAlarm`: they compare with the truth of
  `MCScrape`, a finite set of worlds.
- the two violations of the drive, which are about its speeds and stands.
- the invariants of `qa_suite`: what holds of a run depends on which scenarios it has and
  in which order, and those are data. `EvidenceIsOwn` shows it: the teardown of
  `zones_remote_older` swallows a missing sync result, and a nightly run filtered down to
  that scenario takes the late result as evidence of its pin; the suites as they are do not.
- every liveness property (`FocusIsReleased`, `RetirementIsNoticed`,
  `ChangedPublicationHeals`, `RunEnds`, `SuiteEnds`), since liveness under
  fairness is outside the prover's reach.

## 7. Not modelled

- The GPS filter and the geometry: floating-point numerics. The detector's
  model accepts any fix and any table, so its results do not depend on them;
  `Drive` uses an ideal receiver.
- The zone sanitiser: a catalog stands for its usable zones.
- Clocks that step back, and integer width: times are 64-bit milliseconds and
  counters small, so overflow is not a question here.
- A TTS engine that dies without an answer, and a focus request that is refused:
  the code ignores the answer.
- *Tracking*: what the listener computes of a raw fix and the polling cadence, the
  overlay, the idle clock of the auto-stop (the model's service may be
  stopped at any time), and two service instances at once. *History*: the months of a
  retention, which lie beyond a drive; a row whose insert runs after the purge of
  `NONE` stays until the next launch or change, which the model has and no property
  forbids. The statistics are display only.
- The map installation and the iOS twins: section 2, steps 8 and 9. They are
  components of their own, as large as the sync and the tracking modules; their
  hazards are listed. User interface, overlay, Android Auto, CarPlay, tile
  server: platform I/O.
- *Publication*: two cron runs at once (they would share `zones.json.tmp`; nothing
  in the repository locks or forbids them), and a manifest edited during a run.
  The motorway coverage is one Boolean and a client's contract one
  name. A version file that cannot be read switches the ratio guard off (as one that
  is missing does, which is modelled). The wrapper stores the hash
  before it sends the message, and a message that fails to go out is not repeated.
  Only feed 1 has a projection today; others are a parameter.
- *Scrapers*: bytes and characters (protobuf wire types, HTML, KML), a title
  without its separator, aliases of road names, and the OSM source, which is
  disabled and always empty. A road that bends sideways. What `PublishedOnce`,
  `EndsAgree` and `NoFalseAlarm` exempt is what the code cannot know: names that are
  crossed on the map without a placemark to tell, a misspelt name
  without km or on sections shorter than the matching threshold, a
  road the direction tables do not list, and a genuine stretch of 400 m between two
  sections, which is warned about as a gap.
  Only two required motorways are in these worlds, so each says that the other, or both,
  are not covered; that is what `NoFalseAlarm` expects and `QuietMeansDecodable` passes over.
- *QA harness*: iOS, `validate_zones.py` and `colocated_zones.py`, the screenshot and
  demo tools, reports and parsers. A command fails with an exception or is obeyed; a broadcast
  the app ignores without a word is not modelled. `DeviceHandedBack` says of voice and
  vehicle only how a run that passed leaves them: each scenario sets them for itself
  and none puts them back, so a run that failed may leave a silent phone or that of a bus. The
  language is not put back either (`font_scale_cards.py`, 65, leaves English after
  a run that passed). A hash no catalog has may stay in the settings after a sync
  scenario that failed; what is required is that the next update arrives all the same
  (`CatchesUp`). Interrupts skip the teardown, so `DeviceHandedBack`
  does not speak of them. Two faults in the nightly or history suite can leave the
  phone changed: a scenario that hung resumes after the pin and unfreezes the phone, or
  the reset of the retention fails as well. The next run heals a frozen phone only
  if it pins or runs the sync scenarios, which is less than `live_zones.py`, 27-29,
  says.
