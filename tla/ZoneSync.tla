------------------------------ MODULE ZoneSync ------------------------------
(***************************************************************************)
(* The zone catalog on Android: what the scraper's cron run publishes, what *)
(* the installed app bundles, and the two coroutines of ZoneRepository that *)
(* write the local copy, syncFromServer and ensureLoaded.  Nothing keeps    *)
(* them apart: they interleave wherever they suspend, and the Room table,   *)
(* the cached hash and the cached version are three separate writes.        *)
(*                                                                         *)
(* A catalog is its content and the scrape time it was stamped with.  The   *)
(* hash identifies the content, so two scrapes of unchanged roads share it. *)
(***************************************************************************)
EXTENDS Integers

CONSTANTS
  Syncs,        \* coroutines that run syncFromServer: the worker, a button
  Loaders,      \* coroutines that run ensureLoaded: the service, the UI
  Periodic,     \* the one of Syncs that WorkManager runs every six hours
  Contents, None,
  MaxVersion,   \* bound on scrapes; no code counterpart
  MaxInterruptions  \* bound on interruptions; no code counterpart

Jobs == Syncs \cup Loaders

ASSUME JobsAssumption == Syncs \cap Loaders = {} /\ Periodic \in Syncs
ASSUME BoundsAssumption == MaxVersion \in Nat /\ MaxInterruptions \in Nat

VARIABLES
  zonesFile, versionFile,        \* the two files of the served feed
  bundle,                        \* the catalog inside the installed app
  store, hash, version,          \* Room and the two cached settings
  feedUnsupported,               \* the setting behind the update notice
  checked,                       \* bundleRecencyChecked, per process
  jobs,                          \* where each coroutine stands
  scrapes,
  interruptions,                 \* process deaths and cancelled coroutines
  clean,      \* history: no two jobs overlapped, none was cut off
  healing     \* history: a publication the local labels are behind of

server == <<zonesFile, versionFile, scrapes>>
local == <<store, hash, version, feedUnsupported>>
vars == <<server, bundle, local, checked, jobs, interruptions, clean,
          healing>>

-----------------------------------------------------------------------------
Catalog == [content : Contents, version : Nat]
Announcement == [content : Contents, version : Nat, retired : BOOLEAN]

ASSUME NoneAssumption ==
  /\ None \notin Nat /\ None \notin Contents
  /\ None \notin Catalog /\ None \notin Announcement

Job ==
  [pc : {"idle", "version", "support", "decide", "backfill", "zones",
         "reseed", "replace", "hash", "stamp"},
   meta : Announcement \cup {None},    \* the version response
   hash : Contents \cup {None},        \* the cached hash it has read
   response : Catalog \cup {None}]     \* the catalog it is about to write

Idle == [pc |-> "idle", meta |-> None, hash |-> None, response |-> None]

InFlight == {j \in Jobs : jobs[j].pc # "idle"}

Served(announcement) ==
  [content |-> announcement.content, version |-> announcement.version]

(* ZoneDataRecency.isStrictlyNewer; a missing version is not comparable. *)
IsStrictlyNewer(candidate, baseline) ==
  candidate # None /\ baseline # None /\ candidate > baseline

(* Mutant of Decide: the hash alone decides, as before the recency gate. *)
DecideByHash(remote, cachedHash, cachedVersion) ==
  IF remote.content = cachedHash THEN "UP_TO_DATE" ELSE "APPLY_REMOTE"

(* Mutant of Decide: server data needs to be provably newer, like a bundle. *)
DecideConservatively(remote, cachedHash, cachedVersion) ==
  IF remote.content = cachedHash THEN "UP_TO_DATE"
  ELSE IF IsStrictlyNewer(remote.version, cachedVersion)
       THEN "APPLY_REMOTE" ELSE "SKIP_REMOTE_STALE"

(* ZoneDataRecency.decide *)
Decide(remote, cachedHash, cachedVersion) ==
  IF remote.content = cachedHash THEN "UP_TO_DATE"
  ELSE IF IsStrictlyNewer(cachedVersion, remote.version)
       THEN "SKIP_REMOTE_STALE" ELSE "APPLY_REMOTE"

(* ZoneDataRecency.shouldReseedFromBundle *)
ShouldReseedFromBundle(cachedHash, cachedVersion) ==
  /\ bundle.content # cachedHash
  /\ IsStrictlyNewer(bundle.version, cachedVersion)

-----------------------------------------------------------------------------
(* A coroutine moves on without touching anything but its own record. *)
Advance(j, job) == jobs' = [jobs EXCEPT ![j] = job]

Start(j, job) ==
  /\ jobs[j].pc = "idle"
  /\ Advance(j, job)
  /\ clean' = (clean /\ InFlight = {})

StartSync(j) ==
  /\ Start(j, [Idle EXCEPT !.pc = "version"])
  /\ UNCHANGED <<server, bundle, local, checked, interruptions, healing>>

FetchVersion(j) ==
  /\ jobs[j].pc = "version"
  /\ Advance(j, [jobs[j] EXCEPT !.pc = "support", !.meta = versionFile])
  /\ UNCHANGED <<server, bundle, local, checked, interruptions, clean,
                 healing>>

(* Mutant of RecordSupport: the flag is recorded only with new data. *)
RecordSupportWithData(j) ==
  /\ jobs[j].pc = "support"
  /\ feedUnsupported' = (IF jobs[j].meta.content = hash THEN feedUnsupported
                         ELSE jobs[j].meta.retired)
  /\ Advance(j, [jobs[j] EXCEPT !.pc = "decide", !.hash = hash])
  /\ UNCHANGED <<server, bundle, store, hash, version, checked, interruptions,
                 clean, healing>>

(* The support flag is recorded before the recency gate; the cached hash is
   read next, and nothing else reads the flag in between.                  *)
RecordSupport(j) ==
  /\ jobs[j].pc = "support"
  /\ feedUnsupported' = jobs[j].meta.retired
  /\ Advance(j, [jobs[j] EXCEPT !.pc = "decide", !.hash = hash])
  /\ UNCHANGED <<server, bundle, store, hash, version, checked, interruptions,
                 clean, healing>>

(* The cached version is read and the gate is evaluated. *)
Gate(j) ==
  /\ jobs[j].pc = "decide"
  /\ LET decision == Decide(jobs[j].meta, jobs[j].hash, version)
     IN Advance(j, CASE decision = "UP_TO_DATE" ->
                          [jobs[j] EXCEPT !.pc = "backfill", !.hash = None]
                     [] decision = "SKIP_REMOTE_STALE" -> Idle
                     [] decision = "APPLY_REMOTE" ->
                          [jobs[j] EXCEPT !.pc = "zones", !.hash = None])
  /\ UNCHANGED <<server, bundle, local, checked, interruptions, clean,
                 healing>>

Backfill(j) ==
  /\ jobs[j].pc = "backfill"
  /\ version' = jobs[j].meta.version
  /\ Advance(j, Idle)
  /\ UNCHANGED <<server, bundle, store, hash, feedUnsupported, checked,
                 interruptions, clean, healing>>

FetchZones(j) ==
  /\ jobs[j].pc = "zones"
  /\ Advance(j, [jobs[j] EXCEPT !.pc = "replace", !.response = zonesFile])
  /\ UNCHANGED <<server, bundle, local, checked, interruptions, clean,
                 healing>>

(* Either request may throw: SyncResult.Failed, to be retried. *)
FetchFails(j) ==
  /\ jobs[j].pc \in {"version", "zones"}
  /\ Advance(j, Idle)
  /\ UNCHANGED <<server, bundle, local, checked, interruptions, clean, healing>>

(* ensureLoaded: seed an empty store, or look once per process whether the
   bundle is newer.  The cached hash is read on the way.                   *)
LoadFromAssets(j) ==
  /\ store = None /\ bundle # None
  /\ Start(j, [Idle EXCEPT !.pc = "replace", !.response = bundle])
  /\ UNCHANGED checked

CheckBundle(j) ==
  /\ store # None /\ ~checked
  /\ checked' = TRUE
  /\ Start(j, IF bundle = None THEN Idle
              ELSE [Idle EXCEPT !.pc = "reseed", !.hash = hash])

StartLoad(j) ==
  /\ LoadFromAssets(j) \/ CheckBundle(j)
  /\ UNCHANGED <<server, bundle, local, interruptions, healing>>

Reseed(j) ==
  /\ jobs[j].pc = "reseed"
  /\ Advance(j, IF ShouldReseedFromBundle(jobs[j].hash, version)
                THEN [Idle EXCEPT !.pc = "replace", !.response = bundle]
                ELSE Idle)
  /\ UNCHANGED <<server, bundle, local, checked, interruptions, clean,
                 healing>>

(* The three writes that every path to new data ends in. *)
ReplaceAll(j) ==
  /\ jobs[j].pc = "replace"
  /\ store' = jobs[j].response
  /\ Advance(j, [jobs[j] EXCEPT !.pc = "hash"])
  /\ UNCHANGED <<server, bundle, hash, version, feedUnsupported, checked,
                 interruptions, clean, healing>>

(* Mutant of SetCachedHash: the hash of the announcement is kept, not that
   of the catalog which was fetched after it.                              *)
CacheAnnouncedHash(j) ==
  /\ jobs[j].pc = "hash"
  /\ hash' = IF jobs[j].meta = None THEN jobs[j].response.content
             ELSE jobs[j].meta.content
  /\ Advance(j, [jobs[j] EXCEPT !.pc = "stamp"])
  /\ UNCHANGED <<server, bundle, store, version, feedUnsupported, checked,
                 interruptions, clean, healing>>

SetCachedHash(j) ==
  /\ jobs[j].pc = "hash"
  /\ hash' = jobs[j].response.content
  /\ Advance(j, [jobs[j] EXCEPT !.pc = "stamp"])
  /\ UNCHANGED <<server, bundle, store, version, feedUnsupported, checked,
                 interruptions, clean, healing>>

SetCachedVersion(j) ==
  /\ jobs[j].pc = "stamp"
  /\ version' = jobs[j].response.version
  /\ Advance(j, Idle)
  /\ UNCHANGED <<server, bundle, store, hash, feedUnsupported, checked,
                 interruptions, clean, healing>>

-----------------------------------------------------------------------------
(* The cron run replaces the zones file first and the version file second. *)
Scraped(content) == [content |-> content, version |-> scrapes + 1]

(* Mutant of PublishZones: the version file is replaced first. *)
PublishVersionFirst(content) ==
  /\ zonesFile = Served(versionFile) /\ scrapes < MaxVersion
  /\ scrapes' = scrapes + 1
  /\ versionFile' = [content |-> content, version |-> scrapes + 1,
                     retired |-> versionFile.retired]
  /\ healing' = FALSE
  /\ UNCHANGED <<zonesFile, bundle, local, checked, jobs, interruptions, clean>>

PublishZones(content) ==
  /\ zonesFile = Served(versionFile) /\ scrapes < MaxVersion
  /\ scrapes' = scrapes + 1
  /\ zonesFile' = Scraped(content)
  /\ healing' = FALSE
  /\ UNCHANGED <<versionFile, bundle, local, checked, jobs, interruptions, clean>>

(* For the history variable: the local labels are older than the zones file,
   and nothing but a sync will touch them in this process.                 *)
Outdated ==
  /\ InFlight = {} /\ checked /\ store # None
  /\ hash # zonesFile.content
  /\ version # None => version < zonesFile.version

(* A retired feed stays retired. *)
PublishVersion(retired) ==
  /\ zonesFile # Served(versionFile)
  /\ versionFile' = [content |-> zonesFile.content,
                     version |-> zonesFile.version,
                     retired |-> versionFile.retired \/ retired]
  /\ healing' = Outdated
  /\ UNCHANGED <<zonesFile, scrapes, bundle, local, checked, jobs, interruptions, clean>>

Interrupt ==
  /\ interruptions < MaxInterruptions
  /\ interruptions' = interruptions + 1

(* A coroutine is cancelled where it stands: the worker when its constraints
   are no longer met or syncing is switched off, the others with the screen or
   the service they belong to.                                             *)
Cancel(j) ==
  /\ Interrupt
  /\ jobs[j].pc # "idle"
  /\ Advance(j, Idle)
  /\ clean' = FALSE
  /\ UNCHANGED <<server, bundle, local, checked, healing>>

(* The process dies, wherever its coroutines stand, and starts again. *)
Restart ==
  /\ Interrupt
  /\ checked' = FALSE
  /\ jobs' = [j \in Jobs |-> Idle]
  /\ clean' = (clean /\ InFlight = {})
  /\ healing' = FALSE

Kill ==
  /\ Restart
  /\ UNCHANGED <<server, bundle, local>>

(* An upgrade also ends the process, and brings a bundle built from the
   served catalog or from a fresher local scrape; nobody scrapes, builds and
   installs one between the two writes of a cron run.                      *)
Upgrade(content) ==
  /\ Restart
  /\ \/ bundle' = zonesFile /\ UNCHANGED scrapes
     \/ /\ zonesFile = Served(versionFile)
        /\ scrapes < MaxVersion /\ scrapes' = scrapes + 1
        /\ bundle' = Scraped(content)
  /\ UNCHANGED <<zonesFile, versionFile, local>>

(* A fresh install, bundling a scrape made before or after the served one, or
   nothing readable.                                                       *)
Init ==
  /\ zonesFile \in {[content |-> c, version |-> 1] : c \in Contents}
  /\ versionFile = [content |-> zonesFile.content, version |-> 1,
                    retired |-> FALSE]
  /\ \/ bundle = None /\ scrapes = 1
     \/ bundle = zonesFile /\ scrapes = 1
     \/ /\ bundle \in {[content |-> c, version |-> 2] : c \in Contents}
        /\ scrapes = 2
  /\ store = None /\ hash = None /\ version = None
  /\ feedUnsupported = FALSE
  /\ checked = FALSE
  /\ jobs = [j \in Jobs |-> Idle]
  /\ interruptions = 0
  /\ clean = TRUE /\ healing = FALSE

SyncStep(j) ==
  \/ FetchVersion(j) \/ RecordSupport(j) \/ Gate(j) \/ Backfill(j)
  \/ FetchZones(j) \/ FetchFails(j)

WriteStep(j) == ReplaceAll(j) \/ SetCachedHash(j) \/ SetCachedVersion(j)

Next ==
  \/ \E j \in Syncs : StartSync(j) \/ SyncStep(j)
  \/ \E j \in Loaders : StartLoad(j) \/ Reseed(j)
  \/ \E j \in Jobs : WriteStep(j) \/ Cancel(j)
  \/ \E content \in Contents : PublishZones(content) \/ Upgrade(content)
  \/ \E retired \in BOOLEAN : PublishVersion(retired)
  \/ Kill

Spec == Init /\ [][Next]_vars

(* A coroutine that can run is run; WorkManager repeats the periodic sync and
   not all of its requests fail; a cron run that has begun publishing
   finishes.                                                               *)
Fairness ==
  /\ \A j \in Syncs : WF_vars(SyncStep(j))
  /\ SF_vars(FetchVersion(Periodic)) /\ SF_vars(FetchZones(Periodic))
  /\ \A j \in Loaders : WF_vars(Reseed(j))
  /\ \A j \in Jobs : WF_vars(WriteStep(j))
  /\ WF_vars(StartSync(Periodic))
  /\ WF_vars(\E retired \in BOOLEAN : PublishVersion(retired))

FairSpec == Spec /\ Fairness

-----------------------------------------------------------------------------
(* Every variable keeps its declared shape (ZoneRepository.kt, SettingsStore,
   output.py), and a job that writes has something to write.               *)
TypeOK ==
  /\ zonesFile \in Catalog /\ versionFile \in Announcement
  /\ bundle \in Catalog \cup {None} /\ store \in Catalog \cup {None}
  /\ hash \in Contents \cup {None} /\ version \in Nat \cup {None}
  /\ feedUnsupported \in BOOLEAN /\ checked \in BOOLEAN
  /\ jobs \in [Jobs -> Job]
  /\ scrapes \in Nat /\ interruptions \in Nat
  /\ clean \in BOOLEAN /\ healing \in BOOLEAN
  /\ \A j \in Jobs :
       /\ jobs[j].pc \in {"support", "decide", "backfill", "zones"} =>
            jobs[j].meta # None
       /\ jobs[j].pc \in {"replace", "hash", "stamp"} =>
            jobs[j].response # None

(* The gate is evaluated on the version file and the data comes from the
   zones file in a second request; because the cron run replaces the zones
   first, what is fetched is never older than what was announced
   (ZoneRepository.kt, lines 54-79; output.py, lines 292-305).             *)
FetchedIsNotOlder ==
  \A j \in Jobs :
    jobs[j].meta # None /\ jobs[j].response # None =>
      jobs[j].response.version >= jobs[j].meta.version

(* As long as no two of the coroutines have overlapped and none was cut off
   midway, the cached hash is that of the stored catalog whenever none runs:
   a failed or skipped sync cannot split them (lines 82-84, 102-104,
   132-134).                                                               *)
LoneWritersAgree ==
  clean /\ InFlight = {} =>
    IF store = None THEN hash = None ELSE hash = store.content

(* And under the same condition "the server must never downgrade us": a sync
   never replaces newer data (lines 69-77).                                *)
LoneSyncNeverDowngrades ==
  [][\A j \in Syncs :
       clean /\ store # None /\ ReplaceAll(j) =>
         store'.version >= store.version]_vars

(* A feed that is retired for good ends up flagged on the device, also when
   its data never changes again and when an older answer was recorded in
   between (lines 55-59).                                                  *)
RetirementIsNoticed == <>[](versionFile.retired => feedUnsupported)

(* Whatever overlapping or interrupted coroutines have left behind is repaired by
   the next publication that the local labels are behind of.               *)
ChangedPublicationHeals ==
  healing ~> (~healing \/ store = zonesFile)
=============================================================================
