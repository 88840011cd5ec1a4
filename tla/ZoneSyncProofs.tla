--------------------------- MODULE ZoneSyncProofs ---------------------------
(***************************************************************************)
(* What the catalog sync keeps true for any number of coroutines, catalogs, *)
(* publications, interruptions and upgrades.                                *)
(***************************************************************************)
EXTENDS ZoneSync, TLAPS

(* What a job has in hand where it stands: a sync knows the announcement
   from its first answer to its first write, a catalog is in hand while the
   writes last, a job that considers the bundle has one.                   *)
JobOK(j, job) ==
  /\ job \in Job
  /\ job.pc \in {"support", "decide", "backfill", "zones"} => job.meta # None
  /\ job.pc \in {"replace", "hash", "stamp"} => job.response # None
  /\ job.pc \notin {"replace", "hash", "stamp"} => job.response = None
  /\ job.pc = "reseed" => bundle # None
  /\ job.pc = "replace" /\ j \in Syncs => job.meta # None

JobsOK == \A j \in Jobs : JobOK(j, jobs[j])

(* Nothing on the device is newer than the last scrape, and a publication
   that has begun is of the last scrape.                                   *)
PublicationOK ==
  /\ versionFile.version <= zonesFile.version
  /\ zonesFile.version <= scrapes
  /\ zonesFile # Served(versionFile) => zonesFile.version = scrapes
  /\ bundle # None => bundle.version <= scrapes
  /\ store # None => store.version <= scrapes
  /\ \A j \in Jobs :
       /\ jobs[j].meta # None => jobs[j].meta.version <= versionFile.version
       /\ jobs[j].response # None => jobs[j].response.version <= scrapes

(* The announcement does not tempt a sync to older data. *)
Safe(announcement) ==
  \/ store.version <= announcement.version
  \/ announcement.content = store.content

(* The labels between two writes: the hash is that of the stored catalog,
   and the version guards it, or was lowered for an announcement that does
   not need guarding against.                                              *)
LabelsOK ==
  /\ IF store = None THEN hash = None ELSE hash = store.content
  /\ store # None =>
       version # None /\ (version >= store.version \/ Safe(versionFile))

(* Where a lone job stands tells which of the writes are done and what the
   gate has established.                                                   *)
LoneJob(job) ==
  /\ job.pc = "hash" => store = job.response
  /\ job.pc = "stamp" => store = job.response /\ hash = job.response.content
  /\ job.pc = "decide" => job.hash = hash
  /\ job.pc = "backfill" => job.meta.content = hash
  /\ job.pc \in {"support", "decide", "backfill"} /\ store # None =>
       /\ version >= store.version \/ Safe(job.meta)
       /\ \/ versionFile.content = job.meta.content
          \/ store.version <= versionFile.version
  /\ job.pc \in {"zones", "replace"} /\ job.meta # None /\ store # None =>
       store.version <= job.meta.version

LoneOK ==
  clean =>
    /\ \A i, j \in InFlight : i = j
    /\ (\A j \in Jobs : jobs[j].pc \notin {"hash", "stamp"}) => LabelsOK
    /\ \A j \in Jobs : LoneJob(jobs[j])

IInv == TypeOK /\ JobsOK /\ PublicationOK /\ FetchedIsNotOlder /\ LoneOK

-----------------------------------------------------------------------------
(* A job that is not running is sound. *)
LEMMA IdleOK ==
  ASSUME NEW j \in Jobs
  PROVE  Idle \in Job /\ JobOK(j, Idle) /\ Idle.pc = "idle"
BY DEF Idle, Job, JobOK

(* The types of a job's fields. *)
LEMMA JobTyped ==
  ASSUME TypeOK, NEW j \in Jobs
  PROVE  /\ jobs[j] \in Job
         /\ jobs[j].pc \in {"idle", "version", "support", "decide", "backfill",
                           "zones", "reseed", "replace", "hash", "stamp"}
         /\ jobs[j].meta \in Announcement \cup {None}
         /\ jobs[j].hash \in Contents \cup {None}
         /\ jobs[j].response \in Catalog \cup {None}
         /\ jobs[j] = [pc |-> jobs[j].pc, meta |-> jobs[j].meta,
                       hash |-> jobs[j].hash, response |-> jobs[j].response]
BY DEF TypeOK, Job

(* A coroutine that moves on to a sound record leaves all records sound. *)
LEMMA MoveOK ==
  ASSUME TypeOK, JobsOK, NEW j \in Jobs, NEW job, JobOK(j, job),
         Advance(j, job), UNCHANGED bundle
  PROVE  /\ jobs' \in [Jobs -> Job]
         /\ jobs'[j] = job
         /\ \A k \in Jobs : k # j => jobs'[k] = jobs[k]
         /\ JobsOK'
         /\ \A k \in Jobs :
              /\ jobs'[k].pc \in {"support", "decide", "backfill", "zones"} =>
                   jobs'[k].meta # None
              /\ jobs'[k].pc \in {"replace", "hash", "stamp"} =>
                   jobs'[k].response # None
<1>1. job \in Job /\ jobs \in [Jobs -> Job]
  BY DEF JobOK, TypeOK
<1>2. /\ jobs' \in [Jobs -> Job]
      /\ jobs'[j] = job
      /\ \A k \in Jobs : k # j => jobs'[k] = jobs[k]
  BY <1>1 DEF Advance
<1>3. \A k \in Jobs : JobOK(k, jobs'[k])
  BY <1>2 DEF JobsOK
<1>4. JobsOK'
  BY <1>3 DEF JobsOK, JobOK
<1>5. QED BY <1>2, <1>3, <1>4 DEF JobOK

(* Every action leaves the types and the jobs sound. *)
LEMMA TypeStep ==
  ASSUME TypeOK, JobsOK, [Next]_vars
  PROVE  TypeOK' /\ JobsOK'
<1>1. CASE \E j \in Syncs : StartSync(j)
  <2>1. PICK j \in Syncs : StartSync(j) BY <1>1
  <2> DEFINE job == [Idle EXCEPT !.pc = "version"]
  <2>2. j \in Jobs BY DEF Jobs
  <2>3. JobOK(j, job)
    BY <2>1, <2>2, JobTyped, NoneAssumption, JobsAssumption
    DEF StartSync, Start, TypeOK, JobsOK, JobOK, Job, Idle, Catalog,
        Announcement
  <2>4. Advance(j, job) /\ UNCHANGED bundle BY <2>1 DEF StartSync, Start
  <2> HIDE DEF job
  <2>5. QED
    BY <2>1, <2>2, <2>3, <2>4, MoveOK, JobTyped
    DEF StartSync, Start, TypeOK, server, local, Announcement, Catalog
<1>2. CASE \E j \in Syncs : FetchVersion(j)
  <2>1. PICK j \in Syncs : FetchVersion(j) BY <1>2
  <2> DEFINE job == [jobs[j] EXCEPT !.pc = "support", !.meta = versionFile]
  <2>2. j \in Jobs BY DEF Jobs
  <2>3. JobOK(j, job)
    <3>1. JobOK(j, jobs[j]) BY <2>2 DEF JobsOK
    <3>2. job \in Job BY <2>2, JobTyped DEF TypeOK, Job
    <3>3. QED
      BY <2>1, <2>2, <3>1, <3>2, JobTyped, NoneAssumption
      DEF FetchVersion, TypeOK, JobOK
  <2>4. Advance(j, job) /\ UNCHANGED bundle BY <2>1 DEF FetchVersion
  <2> HIDE DEF job
  <2>5. QED
    BY <2>1, <2>2, <2>3, <2>4, MoveOK, JobTyped
    DEF FetchVersion, TypeOK, server, local, Announcement, Catalog
<1>3. CASE \E j \in Syncs : RecordSupport(j)
  <2>1. PICK j \in Syncs : RecordSupport(j) BY <1>3
  <2> DEFINE job == [jobs[j] EXCEPT !.pc = "decide", !.hash = hash]
  <2>2. j \in Jobs BY DEF Jobs
  <2>3. JobOK(j, job)
    <3>1. JobOK(j, jobs[j]) BY <2>2 DEF JobsOK
    <3>2. job \in Job BY <2>2, JobTyped DEF TypeOK, Job
    <3>3. QED
      BY <2>1, <2>2, <3>1, <3>2, JobTyped, NoneAssumption
      DEF RecordSupport, TypeOK, JobOK
  <2>4. Advance(j, job) /\ UNCHANGED bundle BY <2>1 DEF RecordSupport
  <2> HIDE DEF job
  <2>5. QED
    BY <2>1, <2>2, <2>3, <2>4, MoveOK, JobTyped
    DEF RecordSupport, TypeOK, server, local, Announcement, Catalog
<1>4. CASE \E j \in Syncs : Backfill(j)
  <2>1. PICK j \in Syncs : Backfill(j) BY <1>4
  <2>2. j \in Jobs /\ JobOK(j, Idle) BY IdleOK DEF Jobs
  <2>3. Advance(j, Idle) /\ UNCHANGED bundle BY <2>1 DEF Backfill
  <2>4. QED
    BY <2>1, <2>2, <2>3, MoveOK, JobTyped
    DEF Backfill, TypeOK, server, local, Announcement, Catalog
<1>5. CASE \E j \in Syncs : FetchZones(j)
  <2>1. PICK j \in Syncs : FetchZones(j) BY <1>5
  <2> DEFINE job == [jobs[j] EXCEPT !.pc = "replace", !.response = zonesFile]
  <2>2. j \in Jobs BY DEF Jobs
  <2>3. JobOK(j, job)
    <3>1. JobOK(j, jobs[j]) BY <2>2 DEF JobsOK
    <3>2. job \in Job BY <2>2, JobTyped DEF TypeOK, Job
    <3>3. QED
      BY <2>1, <2>2, <3>1, <3>2, JobTyped, NoneAssumption
      DEF FetchZones, TypeOK, JobOK
  <2>4. Advance(j, job) /\ UNCHANGED bundle BY <2>1 DEF FetchZones
  <2> HIDE DEF job
  <2>5. QED
    BY <2>1, <2>2, <2>3, <2>4, MoveOK, JobTyped
    DEF FetchZones, TypeOK, server, local, Announcement, Catalog
<1>6. CASE \E j \in Syncs : FetchFails(j)
  <2>1. PICK j \in Syncs : FetchFails(j) BY <1>6
  <2>2. j \in Jobs /\ JobOK(j, Idle) BY IdleOK DEF Jobs
  <2>3. Advance(j, Idle) /\ UNCHANGED bundle BY <2>1 DEF FetchFails
  <2>4. QED
    BY <2>1, <2>2, <2>3, MoveOK, JobTyped
    DEF FetchFails, TypeOK, server, local, Announcement, Catalog
<1>7. CASE \E j \in Jobs : ReplaceAll(j)
  <2>1. PICK j \in Jobs : ReplaceAll(j) BY <1>7
  <2> DEFINE job == [jobs[j] EXCEPT !.pc = "hash"]
  <2>2. j \in Jobs BY DEF Jobs
  <2>3. JobOK(j, job)
    <3>1. JobOK(j, jobs[j]) BY <2>2 DEF JobsOK
    <3>2. job \in Job BY <2>2, JobTyped DEF TypeOK, Job
    <3>3. QED
      BY <2>1, <2>2, <3>1, <3>2, JobTyped, NoneAssumption
      DEF ReplaceAll, TypeOK, JobOK
  <2>4. Advance(j, job) /\ UNCHANGED bundle BY <2>1 DEF ReplaceAll
  <2> HIDE DEF job
  <2>5. QED
    BY <2>1, <2>2, <2>3, <2>4, MoveOK, JobTyped
    DEF ReplaceAll, TypeOK, server, local, Announcement, Catalog
<1>8. CASE \E j \in Jobs : SetCachedHash(j)
  <2>1. PICK j \in Jobs : SetCachedHash(j) BY <1>8
  <2> DEFINE job == [jobs[j] EXCEPT !.pc = "stamp"]
  <2>2. j \in Jobs BY DEF Jobs
  <2>3. JobOK(j, job)
    <3>1. JobOK(j, jobs[j]) BY <2>2 DEF JobsOK
    <3>2. job \in Job BY <2>2, JobTyped DEF TypeOK, Job
    <3>3. QED
      BY <2>1, <2>2, <3>1, <3>2, JobTyped, NoneAssumption
      DEF SetCachedHash, TypeOK, JobOK
  <2>4. Advance(j, job) /\ UNCHANGED bundle BY <2>1 DEF SetCachedHash
  <2> HIDE DEF job
  <2>5. QED
    BY <2>1, <2>2, <2>3, <2>4, MoveOK, JobTyped
    DEF SetCachedHash, TypeOK, server, local, Announcement, Catalog
<1>9. CASE \E j \in Jobs : SetCachedVersion(j)
  <2>1. PICK j \in Jobs : SetCachedVersion(j) BY <1>9
  <2>2. j \in Jobs /\ JobOK(j, Idle) BY IdleOK DEF Jobs
  <2>3. Advance(j, Idle) /\ UNCHANGED bundle BY <2>1 DEF SetCachedVersion
  <2>4. QED
    BY <2>1, <2>2, <2>3, MoveOK, JobTyped
    DEF SetCachedVersion, TypeOK, server, local, Announcement, Catalog
<1>10. CASE \E j \in Jobs : Cancel(j)
  <2>1. PICK j \in Jobs : Cancel(j) BY <1>10
  <2>2. j \in Jobs /\ JobOK(j, Idle) BY IdleOK DEF Jobs
  <2>3. Advance(j, Idle) /\ UNCHANGED bundle BY <2>1 DEF Cancel, Interrupt
  <2>4. interruptions' \in Nat BY <2>1 DEF Cancel, Interrupt, TypeOK
  <2>5. QED
    BY <2>1, <2>2, <2>3, <2>4, MoveOK, JobTyped
    DEF Cancel, TypeOK, server, local, Announcement, Catalog
<1>11. CASE \E j \in Syncs : Gate(j)
  <2>1. PICK j \in Syncs : Gate(j) BY <1>11
  <2>2. j \in Jobs BY DEF Jobs
  <2>3. PICK job \in {[jobs[j] EXCEPT !.pc = "backfill", !.hash = None], Idle,
                     [jobs[j] EXCEPT !.pc = "zones", !.hash = None]} :
          Advance(j, job)
    BY <2>1 DEF Gate, Decide
  <2>4. JobOK(j, job)
    <3>1. JobOK(j, jobs[j]) BY <2>2 DEF JobsOK
    <3>2. jobs[j].meta # None /\ jobs[j].response = None
      BY <2>1, <3>1 DEF Gate, JobOK
    <3>3. [jobs[j] EXCEPT !.pc = "backfill", !.hash = None] \in Job
      BY <2>2, JobTyped DEF Job
    <3>4. JobOK(j, [jobs[j] EXCEPT !.pc = "backfill", !.hash = None])
      BY <2>2, <3>2, <3>3, JobTyped DEF JobOK
    <3>5. [jobs[j] EXCEPT !.pc = "zones", !.hash = None] \in Job
      BY <2>2, JobTyped DEF Job
    <3>6. JobOK(j, [jobs[j] EXCEPT !.pc = "zones", !.hash = None])
      BY <2>2, <3>2, <3>5, JobTyped DEF JobOK
    <3>7. QED BY <2>2, <2>3, <3>4, <3>6, IdleOK
  <2>5. QED
    BY <2>1, <2>2, <2>3, <2>4, MoveOK DEF Gate, TypeOK, server, local
<1>12. CASE \E j \in Loaders : StartLoad(j)
  <2>1. PICK j \in Loaders : StartLoad(j) BY <1>12
  <2>2. j \in Jobs /\ j \notin Syncs BY JobsAssumption DEF Jobs
  <2>3. PICK job \in {Idle, [Idle EXCEPT !.pc = "reseed", !.hash = hash],
                     [Idle EXCEPT !.pc = "replace", !.response = bundle]} :
          /\ Advance(j, job)
          /\ job # Idle => bundle # None
    BY <2>1 DEF StartLoad, LoadFromAssets, CheckBundle, Start
  <2>4. JobOK(j, job)
    BY <2>2, <2>3, IdleOK DEF TypeOK, JobOK, Job, Idle
  <2>5. QED
    BY <2>1, <2>2, <2>3, <2>4, MoveOK
    DEF StartLoad, LoadFromAssets, CheckBundle, Start, TypeOK, server, local
<1>13. CASE \E j \in Loaders : Reseed(j)
  <2>1. PICK j \in Loaders : Reseed(j) BY <1>13
  <2>2. j \in Jobs /\ j \notin Syncs BY JobsAssumption DEF Jobs
  <2>3. bundle # None
    BY <2>1, <2>2 DEF Reseed, JobsOK, JobOK
  <2>4. PICK job \in {Idle,
                     [Idle EXCEPT !.pc = "replace", !.response = bundle]} :
          Advance(j, job)
    BY <2>1 DEF Reseed
  <2>5. JobOK(j, job)
    BY <2>2, <2>3, <2>4, IdleOK DEF TypeOK, JobOK, Job, Idle
  <2>6. QED
    BY <2>1, <2>2, <2>4, <2>5, MoveOK DEF Reseed, TypeOK, server, local
<1>14. CASE \E content \in Contents : PublishZones(content)
  <2>1. PICK content \in Contents : PublishZones(content) BY <1>14
  <2>2. scrapes' \in Nat /\ zonesFile' \in Catalog
    BY <2>1 DEF PublishZones, Scraped, TypeOK, Catalog
  <2>3. UNCHANGED <<versionFile, bundle, local, checked, jobs, interruptions,
                    clean>>
    BY <2>1 DEF PublishZones
  <2>4. healing' \in BOOLEAN
    BY <2>1 DEF PublishZones
  <2>5. QED BY <2>2, <2>3, <2>4 DEF TypeOK, JobsOK, JobOK, local
<1>15. CASE \E retired \in BOOLEAN : PublishVersion(retired)
  BY <1>15
  DEF PublishVersion, Outdated, TypeOK, JobsOK, JobOK, Catalog, Announcement,
      local
<1>16. CASE \/ Kill
          \/ \E content \in Contents : Upgrade(content)
  <2>1. Restart /\ UNCHANGED <<zonesFile, versionFile, local>>
    BY <1>16 DEF Kill, Upgrade, server
  <2>2. bundle' \in Catalog \cup {None} /\ scrapes' \in Nat
    BY <1>16 DEF Kill, Upgrade, Scraped, TypeOK, Catalog, server
  <2>3. /\ jobs' \in [Jobs -> Job]
        /\ \A j \in Jobs : jobs'[j] = Idle
    BY <2>1, IdleOK DEF Restart
  <2>4. JobsOK'
    BY <2>3 DEF JobsOK, JobOK, Idle, Job
  <2>5. clean' \in BOOLEAN
    BY <2>1, Zenon DEF Restart, TypeOK
  <2>6. interruptions' \in Nat
    BY <2>1 DEF Restart, Interrupt, TypeOK
  <2>7. healing' \in BOOLEAN /\ checked' \in BOOLEAN
    BY <2>1, Zenon DEF Restart
  <2>8. /\ zonesFile' \in Catalog /\ versionFile' \in Announcement
        /\ store' \in Catalog \cup {None}
        /\ hash' \in Contents \cup {None} /\ version' \in Nat \cup {None}
        /\ feedUnsupported' \in BOOLEAN
    BY <2>1, Zenon DEF local, TypeOK
  <2>9. QED
    BY <2>2, <2>3, <2>4, <2>5, <2>6, <2>7, <2>8 DEF TypeOK, Idle
<1>17. CASE UNCHANGED vars
  BY <1>17 DEF vars, server, local, TypeOK, JobsOK, JobOK
<1>18. QED
  BY <1>1, <1>2, <1>3, <1>4, <1>5, <1>6, <1>7, <1>8, <1>9, <1>10, <1>11,
     <1>12, <1>13, <1>14, <1>15, <1>16, <1>17
  DEF Next, SyncStep, WriteStep

(* What a job that moves leaves alone. *)
LEMMA AdvanceOnly ==
  ASSUME TypeOK, NEW j \in Jobs, NEW job, Advance(j, job)
  PROVE  jobs'[j] = job /\ \A k \in Jobs : k # j => jobs'[k] = jobs[k]
BY DEF Advance, TypeOK

(* Whatever the gate decides, the job keeps or drops what it has in hand. *)
LEMMA GateKeepsOrDrops ==
  ASSUME TypeOK, NEW j \in Syncs, Gate(j)
  PROVE  /\ jobs'[j].meta \in {None, jobs[j].meta}
         /\ jobs'[j].response \in {None, jobs[j].response}
         /\ \A k \in Jobs : k # j => jobs'[k] = jobs[k]
         /\ UNCHANGED <<server, bundle, local>>
<1>1. j \in Jobs BY DEF Jobs
<1>2. UNCHANGED <<server, bundle, local>> BY DEF Gate
<1>3. jobs[j] \in Job BY <1>1 DEF TypeOK
<1> DEFINE decision == Decide(jobs[j].meta, jobs[j].hash, version)
<1>4. CASE decision = "UP_TO_DATE"
  <2>1. Advance(j, [jobs[j] EXCEPT !.pc = "backfill", !.hash = None])
    BY <1>4 DEF Gate
  <2>2. /\ jobs'[j] = [jobs[j] EXCEPT !.pc = "backfill", !.hash = None]
        /\ \A k \in Jobs : k # j => jobs'[k] = jobs[k]
    BY <1>1, <2>1, AdvanceOnly
  <2>3. QED BY <1>2, <1>3, <2>2 DEF Job
<1>5. CASE decision = "SKIP_REMOTE_STALE"
  <2>1. Advance(j, Idle) BY <1>5 DEF Gate
  <2>2. jobs'[j] = Idle /\ \A k \in Jobs : k # j => jobs'[k] = jobs[k]
    BY <1>1, <2>1, AdvanceOnly
  <2>3. QED BY <1>2, <2>2 DEF Idle
<1>6. CASE decision = "APPLY_REMOTE"
  <2>1. Advance(j, [jobs[j] EXCEPT !.pc = "zones", !.hash = None])
    BY <1>6 DEF Gate
  <2>2. /\ jobs'[j] = [jobs[j] EXCEPT !.pc = "zones", !.hash = None]
        /\ \A k \in Jobs : k # j => jobs'[k] = jobs[k]
    BY <1>1, <2>1, AdvanceOnly
  <2>3. QED BY <1>2, <1>3, <2>2 DEF Job
<1>7. QED BY <1>4, <1>5, <1>6 DEF Decide

(* The writes of a publication and the two requests of a sync are in opposite
   orders, so what is fetched cannot be older than what was announced.     *)
LEMMA PublicationStep ==
  ASSUME TypeOK, TypeOK', JobsOK, PublicationOK, FetchedIsNotOlder, [Next]_vars
  PROVE  PublicationOK' /\ FetchedIsNotOlder'
<1> USE NoneAssumption
    DEF PublicationOK, FetchedIsNotOlder, TypeOK, Job, Idle, Catalog,
        Announcement, Served, Advance, server, local
<1>1. CASE \E j \in Syncs : StartSync(j)
  BY <1>1 DEF StartSync, Start
<1>2. CASE \E j \in Syncs : FetchVersion(j)
  <2>1. PICK j \in Syncs : FetchVersion(j) BY <1>2
  <2>2. j \in Jobs /\ jobs[j].response = None
    BY <2>1 DEF FetchVersion, JobsOK, JobOK, Jobs
  <2>3. /\ jobs'[j].meta = versionFile /\ jobs'[j].response = None
        /\ \A k \in Jobs : k # j => jobs'[k] = jobs[k]
    BY <2>1, <2>2 DEF FetchVersion
  <2>4. QED BY <2>1, <2>3 DEF FetchVersion
<1>3. CASE \E j \in Syncs : RecordSupport(j)
  BY <1>3 DEF RecordSupport
<1>4. CASE \E j \in Syncs : Gate(j)
  <2>1. PICK j \in Syncs : Gate(j) BY <1>4
  <2>2. j \in Jobs BY <2>1 DEF Jobs
  <2>3. /\ jobs'[j].meta \in {None, jobs[j].meta}
        /\ jobs'[j].response \in {None, jobs[j].response}
        /\ \A k \in Jobs : k # j => jobs'[k] = jobs[k]
        /\ UNCHANGED <<server, bundle, local>>
    BY <2>1, GateKeepsOrDrops
  <2>4. PublicationOK' BY <2>2, <2>3
  <2>5. FetchedIsNotOlder' BY <2>2, <2>3
  <2>6. QED BY <2>4, <2>5
<1>5. CASE \E j \in Syncs : Backfill(j)
  BY <1>5 DEF Backfill
<1>6. CASE \E j \in Syncs : FetchZones(j)
  BY <1>6 DEF FetchZones
<1>7. CASE \E j \in Syncs : FetchFails(j)
  BY <1>7 DEF FetchFails
<1>8. CASE \E j \in Loaders : StartLoad(j)
  <2>1. PICK j \in Loaders : StartLoad(j) BY <1>8
  <2>2. j \in Jobs /\ UNCHANGED <<server, bundle, local>>
    BY <2>1 DEF StartLoad, Jobs
  <2>3. /\ jobs'[j].meta = None /\ jobs'[j].response \in {None, bundle}
        /\ \A k \in Jobs : k # j => jobs'[k] = jobs[k]
    <3>1. CASE LoadFromAssets(j) BY <2>2, <3>1 DEF LoadFromAssets, Start
    <3>2. CASE CheckBundle(j) BY <2>2, <3>2 DEF CheckBundle, Start
    <3>3. QED BY <2>1, <3>1, <3>2 DEF StartLoad
  <2>4. QED BY <2>2, <2>3
<1>9. CASE \E j \in Loaders : Reseed(j)
  BY <1>9 DEF Reseed
<1>10. CASE \E j \in Jobs : ReplaceAll(j)
  BY <1>10 DEF ReplaceAll
<1>11. CASE \E j \in Jobs : SetCachedHash(j)
  BY <1>11 DEF SetCachedHash
<1>12. CASE \E j \in Jobs : SetCachedVersion(j)
  BY <1>12 DEF SetCachedVersion
<1>13. CASE \E j \in Jobs : Cancel(j)
  BY <1>13 DEF Cancel, Interrupt
<1>14. CASE \E content \in Contents : PublishZones(content)
  BY <1>14 DEF PublishZones, Scraped
<1>15. CASE \E retired \in BOOLEAN : PublishVersion(retired)
  BY <1>15 DEF PublishVersion
<1>16. CASE \E content \in Contents : Upgrade(content)
  BY <1>16 DEF Upgrade, Restart, Scraped
<1>17. CASE Kill
  BY <1>17 DEF Kill, Restart
<1>18. CASE UNCHANGED vars
  BY <1>18 DEF vars
<1>19. QED
  BY <1>1, <1>2, <1>3, <1>4, <1>5, <1>6, <1>7, <1>8, <1>9, <1>10, <1>11,
     <1>12, <1>13, <1>14, <1>15, <1>16, <1>17, <1>18
  DEF Next, SyncStep, WriteStep

(* While nothing overlaps at most one job is under way, so a job that moves
   finds the others idle and only its own claims are to be renewed.        *)
LEMMA LoneMove ==
  ASSUME LoneOK, NEW j \in Jobs, jobs[j].pc # "idle", clean' => clean,
         \A k \in Jobs : k # j => jobs'[k] = jobs[k],
         clean => LoneJob(jobs[j])',
         clean /\ jobs'[j].pc \notin {"hash", "stamp"} => LabelsOK'
  PROVE  LoneOK'
<1> SUFFICES ASSUME clean' PROVE LoneOK'
  BY DEF LoneOK
<1>1. \A k \in Jobs : k # j => jobs[k].pc = "idle" /\ jobs'[k].pc = "idle"
  BY DEF LoneOK, InFlight
<1>2. \A i, k \in InFlight' : i = k
  BY <1>1 DEF InFlight
<1>3. \A k \in Jobs : LoneJob(jobs[k])'
  BY <1>1 DEF LoneJob
<1>4. (\A k \in Jobs : jobs'[k].pc \notin {"hash", "stamp"}) => LabelsOK'
  OBVIOUS
<1>5. QED BY <1>2, <1>3, <1>4 DEF LoneOK

(* A lone job outside its last two writes finds the labels in order. *)
LEMMA LoneLabels ==
  ASSUME LoneOK, clean, NEW j \in Jobs,
         jobs[j].pc \notin {"idle", "hash", "stamp"}
  PROVE  LabelsOK
BY DEF LoneOK, InFlight

(* A job that only gives up keeps what it leaves behind in order, unless it
   stood between two writes.                                               *)
LEMMA GivingUp ==
  ASSUME IInv, NEW j \in Jobs, jobs[j].pc \notin {"idle", "hash", "stamp"},
         Advance(j, Idle), UNCHANGED <<local, versionFile, clean>>
  PROVE  LoneOK'
<1>1. LoneOK /\ TypeOK BY DEF IInv
<1>2. jobs'[j] = Idle /\ \A k \in Jobs : k # j => jobs'[k] = jobs[k]
  BY <1>1, AdvanceOnly
<1>3. LoneJob(jobs[j])'
  BY <1>2 DEF LoneJob, Idle
<1>4. clean => LabelsOK'
  BY <1>1, LoneLabels DEF LabelsOK, Safe, local
<1>5. QED BY <1>1, <1>2, <1>3, <1>4, LoneMove

(* A lone sync that is let through by the gate is not about to downgrade. *)
LEMMA GatedIsNotOlder ==
  ASSUME IInv, clean, NEW j \in Syncs, jobs[j].pc = "decide", store # None,
         Decide(jobs[j].meta, jobs[j].hash, version) = "APPLY_REMOTE"
  PROVE  store.version <= jobs[j].meta.version
<1>1. j \in Jobs BY DEF Jobs
<1>2. jobs[j].meta \in Announcement
  BY <1>1 DEF IInv, TypeOK, Job
<1>3. /\ store \in Catalog /\ hash = store.content
      /\ version \in Nat
  BY <1>1, LoneLabels DEF IInv, TypeOK, LabelsOK
<1>4. jobs[j].hash = hash /\ (version >= store.version \/ Safe(jobs[j].meta))
  BY <1>1 DEF IInv, LoneOK, LoneJob
<1>5. jobs[j].meta.content # hash /\ ~(version > jobs[j].meta.version)
  BY <1>2, <1>3, <1>4, NoneAssumption
  DEF Decide, IsStrictlyNewer, Announcement
<1>6. store.version \in Nat /\ jobs[j].meta.version \in Nat
  BY <1>2, <1>3 DEF Catalog, Announcement
<1>7. QED BY <1>3, <1>4, <1>5, <1>6 DEF Safe

(* While nothing overlaps, the labels follow the stored catalog. *)
LEMMA LoneStep ==
  ASSUME IInv, TypeOK', [Next]_vars
  PROVE  LoneOK'
<1> USE JobsAssumption, NoneAssumption
<1>0. TypeOK /\ JobsOK /\ PublicationOK /\ FetchedIsNotOlder /\ LoneOK
  BY DEF IInv
<1>1. CASE \E j \in Syncs : StartSync(j)
  <2>1. PICK j \in Syncs : StartSync(j) BY <1>1
  <2>2. j \in Jobs /\ UNCHANGED <<server, local>>
    BY <2>1 DEF StartSync, Jobs
  <2>3. /\ jobs'[j].pc = "version"
        /\ \A k \in Jobs : k # j => jobs'[k] = jobs[k]
    BY <1>0, <2>1, <2>2 DEF StartSync, Start, Advance, Idle, TypeOK
  <2>4. clean' => clean /\ \A k \in Jobs : jobs[k].pc = "idle"
    BY <2>1 DEF StartSync, Start, InFlight
  <2>5. QED
    BY <1>0, <2>2, <2>3, <2>4
    DEF LoneOK, LoneJob, LabelsOK, Safe, InFlight, server, local
<1>2. CASE \E j \in Syncs : FetchVersion(j)
  <2>1. PICK j \in Syncs : FetchVersion(j) BY <1>2
  <2>2. /\ j \in Jobs /\ jobs[j].pc = "version"
        /\ UNCHANGED <<server, local, clean>>
    BY <2>1 DEF FetchVersion, Jobs
  <2>3. /\ jobs'[j] = [jobs[j] EXCEPT !.pc = "support", !.meta = versionFile]
        /\ \A k \in Jobs : k # j => jobs'[k] = jobs[k]
    BY <1>0, <2>1, <2>2, AdvanceOnly DEF FetchVersion
  <2>4. jobs'[j].pc = "support" /\ jobs'[j].meta = versionFile
    BY <1>0, <2>2, <2>3 DEF TypeOK, Job
  <2>5. clean => LabelsOK /\ LabelsOK'
    BY <1>0, <2>2, LoneLabels DEF LabelsOK, Safe, server, local
  <2>6. clean => LoneJob(jobs[j])'
    BY <2>2, <2>4, <2>5 DEF LoneJob, LabelsOK, Safe, server, local
  <2>7. QED BY <1>0, <2>2, <2>3, <2>5, <2>6, LoneMove
<1>3. CASE \E j \in Syncs : RecordSupport(j)
  <2>1. PICK j \in Syncs : RecordSupport(j) BY <1>3
  <2>2. /\ j \in Jobs /\ jobs[j].pc = "support"
        /\ UNCHANGED <<server, store, hash, version, clean>>
    BY <2>1 DEF RecordSupport, Jobs
  <2>3. /\ jobs'[j] = [jobs[j] EXCEPT !.pc = "decide", !.hash = hash]
        /\ \A k \in Jobs : k # j => jobs'[k] = jobs[k]
    BY <1>0, <2>1, <2>2, AdvanceOnly DEF RecordSupport
  <2>4. /\ jobs'[j].pc = "decide" /\ jobs'[j].meta = jobs[j].meta
        /\ jobs'[j].hash = hash
    BY <1>0, <2>2, <2>3 DEF TypeOK, Job
  <2>5. clean => LabelsOK'
    BY <1>0, <2>2, LoneLabels DEF LabelsOK, Safe, server
  <2>6. clean => LoneJob(jobs[j])
    BY <1>0, <2>2 DEF LoneOK
  <2>7. clean => LoneJob(jobs[j])'
    BY <2>2, <2>4, <2>6 DEF LoneJob, Safe, server
  <2>8. QED BY <1>0, <2>2, <2>3, <2>5, <2>7, LoneMove
<1>4. CASE \E j \in Syncs : Gate(j)
  <2>1. PICK j \in Syncs : Gate(j) BY <1>4
  <2>2. /\ j \in Jobs /\ jobs[j].pc = "decide"
        /\ UNCHANGED <<server, local, clean>>
    BY <2>1 DEF Gate, Jobs
  <2> DEFINE decision == Decide(jobs[j].meta, jobs[j].hash, version)
  <2>3. clean => LabelsOK'
    BY <1>0, <2>2, LoneLabels DEF LabelsOK, Safe, server, local
  <2>4. clean => LoneJob(jobs[j])
    BY <1>0, <2>2 DEF LoneOK
  <2>5. CASE decision = "UP_TO_DATE"
    <3>1. /\ jobs'[j] = [jobs[j] EXCEPT !.pc = "backfill", !.hash = None]
          /\ \A k \in Jobs : k # j => jobs'[k] = jobs[k]
      BY <1>0, <2>1, <2>2, <2>5, AdvanceOnly DEF Gate
    <3>2. jobs'[j].pc = "backfill" /\ jobs'[j].meta = jobs[j].meta
      BY <1>0, <2>2, <3>1 DEF TypeOK, Job
    <3>3. jobs[j].meta.content = jobs[j].hash
      BY <2>5 DEF Decide
    <3>4. clean => LoneJob(jobs[j])'
      BY <2>2, <2>4, <3>2, <3>3 DEF LoneJob, Safe, server, local
    <3>5. QED BY <1>0, <2>2, <2>3, <3>1, <3>4, LoneMove
  <2>6. CASE decision = "SKIP_REMOTE_STALE"
    <3>1. Advance(j, Idle) BY <2>1, <2>6 DEF Gate
    <3>2. QED BY <2>2, <3>1, GivingUp DEF server
  <2>7. CASE decision = "APPLY_REMOTE"
    <3>1. /\ jobs'[j] = [jobs[j] EXCEPT !.pc = "zones", !.hash = None]
          /\ \A k \in Jobs : k # j => jobs'[k] = jobs[k]
      BY <1>0, <2>1, <2>2, <2>7, AdvanceOnly DEF Gate
    <3>2. jobs'[j].pc = "zones" /\ jobs'[j].meta = jobs[j].meta
      BY <1>0, <2>2, <3>1 DEF TypeOK, Job
    <3>3. clean /\ store # None => store.version <= jobs[j].meta.version
      BY <2>2, <2>7, GatedIsNotOlder
    <3>4. clean => LoneJob(jobs[j])'
      BY <2>2, <3>2, <3>3 DEF LoneJob, server, local
    <3>5. QED BY <1>0, <2>2, <2>3, <3>1, <3>4, LoneMove
  <2>8. QED BY <2>5, <2>6, <2>7 DEF Decide
<1>5. CASE \E j \in Syncs : Backfill(j)
  <2>1. PICK j \in Syncs : Backfill(j) BY <1>5
  <2>2. /\ j \in Jobs /\ jobs[j].pc = "backfill"
        /\ version' = jobs[j].meta.version
        /\ UNCHANGED <<server, store, hash, clean>>
    BY <2>1 DEF Backfill, Jobs
  <2>3. jobs'[j] = Idle /\ \A k \in Jobs : k # j => jobs'[k] = jobs[k]
    BY <1>0, <2>1, <2>2, AdvanceOnly DEF Backfill
  <2>4. LoneJob(jobs[j])'
    BY <2>3 DEF LoneJob, Idle
  <2>5. clean => LabelsOK /\ LoneJob(jobs[j])
    BY <1>0, <2>2, LoneLabels DEF LoneOK
  <2>6. jobs[j].meta \in Announcement /\ versionFile \in Announcement
    BY <1>0, <2>2 DEF TypeOK, Job
  <2>7. ASSUME clean, store # None
        PROVE  /\ version' # None
               /\ version' >= store.version \/ Safe(versionFile)
    <3>1. /\ jobs[j].meta.content = store.content
          /\ \/ versionFile.content = jobs[j].meta.content
             \/ store.version <= versionFile.version
      BY <2>2, <2>5, <2>7 DEF LoneJob, LabelsOK
    <3>2. Safe(versionFile) BY <3>1 DEF Safe
    <3>3. QED BY <2>2, <2>6, <3>2 DEF Announcement
  <2>8. clean => LabelsOK'
    BY <2>2, <2>5, <2>7 DEF LabelsOK, Safe, server
  <2>9. QED BY <1>0, <2>2, <2>3, <2>4, <2>8, LoneMove
<1>6. CASE \E j \in Syncs : FetchZones(j)
  <2>1. PICK j \in Syncs : FetchZones(j) BY <1>6
  <2>2. /\ j \in Jobs /\ jobs[j].pc = "zones"
        /\ UNCHANGED <<server, local, clean>>
    BY <2>1 DEF FetchZones, Jobs
  <2>3. /\ jobs'[j] = [jobs[j] EXCEPT !.pc = "replace", !.response = zonesFile]
        /\ \A k \in Jobs : k # j => jobs'[k] = jobs[k]
    BY <1>0, <2>1, <2>2, AdvanceOnly DEF FetchZones
  <2>4. jobs'[j].pc = "replace" /\ jobs'[j].meta = jobs[j].meta
    BY <1>0, <2>2, <2>3 DEF TypeOK, Job
  <2>5. clean => LabelsOK'
    BY <1>0, <2>2, LoneLabels DEF LabelsOK, Safe, server, local
  <2>6. clean => LoneJob(jobs[j])
    BY <1>0, <2>2 DEF LoneOK
  <2>7. clean => LoneJob(jobs[j])'
    BY <2>2, <2>4, <2>6 DEF LoneJob, server, local
  <2>8. QED BY <1>0, <2>2, <2>3, <2>5, <2>7, LoneMove
<1>7. CASE \E j \in Syncs : FetchFails(j)
  <2>1. PICK j \in Syncs : FetchFails(j) BY <1>7
  <2>2. QED BY <2>1, GivingUp DEF FetchFails, Jobs, server
<1>8. CASE \E j \in Loaders : StartLoad(j)
  <2>1. PICK j \in Loaders : StartLoad(j) BY <1>8
  <2>2. j \in Jobs /\ UNCHANGED <<server, local>>
    BY <2>1 DEF StartLoad, Jobs
  <2>3. /\ jobs'[j].pc \in {"idle", "reseed", "replace"}
        /\ jobs'[j].meta = None
        /\ \A k \in Jobs : k # j => jobs'[k] = jobs[k]
    <3>1. CASE LoadFromAssets(j)
      BY <1>0, <2>2, <3>1 DEF LoadFromAssets, Start, Advance, Idle, TypeOK
    <3>2. CASE CheckBundle(j)
      BY <1>0, <2>2, <3>2 DEF CheckBundle, Start, Advance, Idle, TypeOK
    <3>3. QED BY <2>1, <3>1, <3>2 DEF StartLoad
  <2>4. clean' => clean /\ \A k \in Jobs : jobs[k].pc = "idle"
    BY <2>1 DEF StartLoad, LoadFromAssets, CheckBundle, Start, InFlight
  <2>5. QED
    BY <1>0, <2>2, <2>3, <2>4
    DEF LoneOK, LoneJob, LabelsOK, Safe, InFlight, server, local
<1>9. CASE \E j \in Loaders : Reseed(j)
  <2>1. PICK j \in Loaders : Reseed(j) BY <1>9
  <2>2. /\ j \in Jobs /\ jobs[j].pc = "reseed"
        /\ UNCHANGED <<server, local, clean>>
    BY <2>1 DEF Reseed, Jobs
  <2>3. /\ jobs'[j].pc \in {"idle", "replace"} /\ jobs'[j].meta = None
        /\ \A k \in Jobs : k # j => jobs'[k] = jobs[k]
    BY <1>0, <2>1, <2>2 DEF Reseed, Advance, Idle, TypeOK
  <2>4. LoneJob(jobs[j])'
    BY <2>3 DEF LoneJob
  <2>5. clean => LabelsOK'
    BY <1>0, <2>2, LoneLabels DEF LabelsOK, Safe, server, local
  <2>6. QED BY <1>0, <2>2, <2>3, <2>4, <2>5, LoneMove
<1>10. CASE \E j \in Jobs : ReplaceAll(j)
  <2>1. PICK j \in Jobs : ReplaceAll(j) BY <1>10
  <2>2. /\ jobs[j].pc = "replace" /\ store' = jobs[j].response
        /\ UNCHANGED clean
    BY <2>1 DEF ReplaceAll
  <2>3. /\ jobs'[j] = [jobs[j] EXCEPT !.pc = "hash"]
        /\ \A k \in Jobs : k # j => jobs'[k] = jobs[k]
    BY <1>0, <2>1, AdvanceOnly DEF ReplaceAll
  <2>4. jobs'[j].pc = "hash" /\ jobs'[j].response = jobs[j].response
    BY <1>0, <2>1, <2>3 DEF TypeOK, Job
  <2>5. LoneJob(jobs[j])'
    BY <2>2, <2>4 DEF LoneJob
  <2>6. QED BY <1>0, <2>1, <2>2, <2>3, <2>4, <2>5, LoneMove
<1>11. CASE \E j \in Jobs : SetCachedHash(j)
  <2>1. PICK j \in Jobs : SetCachedHash(j) BY <1>11
  <2>2. /\ jobs[j].pc = "hash" /\ hash' = jobs[j].response.content
        /\ UNCHANGED <<store, clean>>
    BY <2>1 DEF SetCachedHash
  <2>3. /\ jobs'[j] = [jobs[j] EXCEPT !.pc = "stamp"]
        /\ \A k \in Jobs : k # j => jobs'[k] = jobs[k]
    BY <1>0, <2>1, AdvanceOnly DEF SetCachedHash
  <2>4. jobs'[j].pc = "stamp" /\ jobs'[j].response = jobs[j].response
    BY <1>0, <2>1, <2>3 DEF TypeOK, Job
  <2>5. clean => store = jobs[j].response
    BY <1>0, <2>1, <2>2 DEF LoneOK, LoneJob
  <2>6. clean => LoneJob(jobs[j])'
    BY <2>2, <2>4, <2>5 DEF LoneJob
  <2>7. QED BY <1>0, <2>1, <2>2, <2>3, <2>4, <2>6, LoneMove
<1>12. CASE \E j \in Jobs : SetCachedVersion(j)
  <2>1. PICK j \in Jobs : SetCachedVersion(j) BY <1>12
  <2>2. /\ jobs[j].pc = "stamp" /\ version' = jobs[j].response.version
        /\ UNCHANGED <<server, store, hash, clean>>
    BY <2>1 DEF SetCachedVersion
  <2>3. jobs'[j] = Idle /\ \A k \in Jobs : k # j => jobs'[k] = jobs[k]
    BY <1>0, <2>1, AdvanceOnly DEF SetCachedVersion
  <2>4. LoneJob(jobs[j])'
    BY <2>3 DEF LoneJob, Idle
  <2>5. clean => store = jobs[j].response /\ hash = jobs[j].response.content
    BY <1>0, <2>1, <2>2 DEF LoneOK, LoneJob
  <2>6. jobs[j].response \in Catalog
    BY <1>0, <2>1, <2>2 DEF TypeOK, Job
  <2>7. clean => LabelsOK'
    BY <2>2, <2>5, <2>6 DEF LabelsOK, Catalog
  <2>8. QED BY <1>0, <2>1, <2>2, <2>3, <2>4, <2>7, LoneMove
<1>13. CASE \E j \in Jobs : Cancel(j)
  BY <1>13 DEF Cancel, LoneOK
<1>14. CASE \E content \in Contents : PublishZones(content)
  <2>1. UNCHANGED <<versionFile, local, jobs, clean>>
    BY <1>14 DEF PublishZones
  <2>2. QED
    BY <1>0, <2>1 DEF LoneOK, LoneJob, LabelsOK, Safe, InFlight, local
<1>15. CASE \E retired \in BOOLEAN : PublishVersion(retired)
  <2>1. PICK retired \in BOOLEAN : PublishVersion(retired) BY <1>15
  <2>2. /\ zonesFile.version = scrapes /\ versionFile'.version = scrapes
        /\ UNCHANGED <<local, jobs, clean>>
    BY <1>0, <2>1 DEF PublishVersion, PublicationOK
  <2>3. store # None => store.version <= versionFile'.version
    BY <1>0, <2>2 DEF PublicationOK
  <2>4. (clean /\ \A j \in Jobs : jobs[j].pc \notin {"hash", "stamp"}) =>
          LabelsOK'
    BY <1>0, <2>2, <2>3 DEF LoneOK, LabelsOK, Safe, local
  <2>5. clean => \A j \in Jobs : LoneJob(jobs[j])'
    BY <1>0, <2>2, <2>3 DEF LoneOK, LoneJob, Safe, local
  <2>6. QED BY <1>0, <2>2, <2>4, <2>5 DEF LoneOK, InFlight
<1>16. CASE Kill \/ \E content \in Contents : Upgrade(content)
  <2>1. Restart /\ UNCHANGED <<versionFile, local>>
    BY <1>16 DEF Kill, Upgrade, server
  <2>2. \A j \in Jobs : jobs'[j].pc = "idle"
    BY <2>1 DEF Restart, Idle
  <2>3. clean' => clean /\ \A j \in Jobs : jobs[j].pc = "idle"
    BY <2>1 DEF Restart, InFlight
  <2>4. clean' => LabelsOK'
    BY <1>0, <2>1, <2>3 DEF LoneOK, LabelsOK, Safe, local
  <2>5. QED BY <2>2, <2>4 DEF LoneOK, LoneJob, InFlight
<1>17. CASE UNCHANGED vars
  BY <1>0, <1>17
  DEF vars, server, local, LoneOK, LoneJob, LabelsOK, Safe, InFlight
<1>18. QED
  BY <1>1, <1>2, <1>3, <1>4, <1>5, <1>6, <1>7, <1>8, <1>9, <1>10, <1>11,
     <1>12, <1>13, <1>14, <1>15, <1>16, <1>17
  DEF Next, SyncStep, WriteStep

-----------------------------------------------------------------------------
(* A fresh install satisfies the invariant. *)
LEMMA Initially == Init => IInv
<1> SUFFICES ASSUME Init PROVE IInv OBVIOUS
<1>1. TypeOK /\ JobsOK
  <2>1. /\ zonesFile \in Catalog /\ versionFile \in Announcement
        /\ bundle \in Catalog \cup {None} /\ scrapes \in Nat
    BY DEF Init, Catalog, Announcement
  <2>2. JobsOK /\ jobs \in [Jobs -> Job] /\ \A j \in Jobs : jobs[j].pc = "idle"
    BY IdleOK DEF Init, JobsOK
  <2>3. QED BY <2>1, <2>2 DEF Init, TypeOK
<1>2. PublicationOK /\ FetchedIsNotOlder
  BY DEF Init, PublicationOK, FetchedIsNotOlder, Served, Idle
<1>3. LoneOK
  BY DEF Init, LoneOK, LabelsOK, LoneJob, InFlight, Idle
<1>4. QED BY <1>1, <1>2, <1>3 DEF IInv

(* The invariant is inductive. *)
LEMMA Invariant == Spec => []IInv
<1>1. IInv /\ [Next]_vars => IInv'
  BY TypeStep, PublicationStep, LoneStep DEF IInv
<1>2. QED BY <1>1, Initially, PTL DEF Spec

(* Every variable of the sync keeps its shape, and a coroutine that writes
   has something to write (ZoneRepository.kt).                             *)
THEOREM TypeCorrect == Spec => []TypeOK
<1>1. IInv => TypeOK BY DEF IInv
<1>2. QED BY <1>1, Invariant, PTL

(* What a sync fetches is never older than what was announced to it, whatever
   is published between its two requests (output.py, lines 292-305).       *)
THEOREM FetchedIsNotOlderHolds == Spec => []FetchedIsNotOlder
<1>1. IInv => FetchedIsNotOlder BY DEF IInv
<1>2. QED BY <1>1, Invariant, PTL

(* Coroutines that do not overlap and are not cut off leave the hash of the
   stored catalog (ZoneRepository.kt, lines 82-84, 102-104, 132-134).      *)
THEOREM LoneWritersAgreeHolds == Spec => []LoneWritersAgree
<1>1. IInv => LoneWritersAgree
  BY DEF IInv, LoneOK, LabelsOK, LoneWritersAgree, InFlight
<1>2. QED BY <1>1, Invariant, PTL

(* And a sync among them never replaces newer data, also after the backfill
   has lowered the cached version (lines 63-77).                           *)
THEOREM LoneSyncNeverDowngradesHolds == Spec => LoneSyncNeverDowngrades
<1>1. IInv /\ [Next]_vars =>
        [\A j \in Syncs :
           clean /\ store # None /\ ReplaceAll(j) =>
             store'.version >= store.version]_vars
  <2> SUFFICES ASSUME IInv, NEW j \in Syncs, clean, store # None, ReplaceAll(j)
               PROVE  store'.version >= store.version
    OBVIOUS
  <2>1. /\ jobs[j].pc = "replace" /\ store' = jobs[j].response
        /\ j \in Jobs
    BY DEF ReplaceAll, Jobs
  <2>2. jobs[j].meta # None /\ jobs[j].response # None
    BY <2>1 DEF IInv, JobsOK, JobOK
  <2>3. store.version <= jobs[j].meta.version
    BY <2>1, <2>2 DEF IInv, LoneOK, LoneJob
  <2>4. jobs[j].meta.version <= jobs[j].response.version
    BY <2>1, <2>2, JobTyped DEF IInv, FetchedIsNotOlder, Catalog, Announcement
  <2>5. /\ store.version \in Nat /\ jobs[j].meta.version \in Nat
        /\ jobs[j].response.version \in Nat
    BY <2>1, <2>2, JobTyped DEF IInv, TypeOK, Catalog, Announcement
  <2>6. QED BY <2>1, <2>3, <2>4, <2>5
<1>2. QED BY <1>1, Invariant, PTL DEF LoneSyncNeverDowngrades, Spec

=============================================================================
