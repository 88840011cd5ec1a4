----------------------------- MODULE Publication -----------------------------
(***************************************************************************)
(* A cron run of the scraper (run_cron.sh and output.main) over the public  *)
(* directory: the sources are fetched, the catalog is guarded, and each     *)
(* feed gets a snapshot of what it replaces, a zones file and a version     *)
(* file, one file after the other.  The scraper may be killed between any   *)
(* two steps, and so may the wrapper that started it.                       *)
(*                                                                         *)
(* A catalog is its hash, the number of its zones, whether it covers the    *)
(* required motorways and the contracts of clients it breaks.               *)
(***************************************************************************)
EXTENDS Integers, FiniteSets, FiniteSetsExt

CONSTANTS
  None,
  Feeds,        \* feeds the manifest declares; 1 is DEFAULT_FEED
  Projected,    \* feeds with a projection (PROJECTIONS)
  Contracts,    \* the files beside the manifest, one for each way to decode
  Clients,      \* the manifest's clients: feed, None if it states none, contract
  Catalogs,     \* what merge_all may make of the sources
  Sources,      \* number of sources
  Attempts,     \* ATTEMPTS of fetch.py
  MinZones,     \* MIN_PUBLISH_ZONES
  Retention,    \* SNAPSHOT_RETENTION
  MaxRuns       \* bound of the model: runs of the cron job

ASSUME PublicationAssumption ==
  /\ Feeds \subseteq Nat \ {0} /\ IsFiniteSet(Feeds) /\ 1 \in Feeds
  /\ Projected \subseteq Feeds
  /\ Clients \subseteq [feed : Feeds \cup {None}, contract : Contracts]
  /\ Catalogs \subseteq [hash : Nat, count : Nat, roads : BOOLEAN,
                         breaks : SUBSET Contracts]
  /\ Sources \in Nat \ {0} /\ Attempts \in Nat \ {0} /\ MinZones \in Nat
  /\ Retention \in Nat \ {0} /\ MaxRuns \in Nat
  /\ None \notin Catalogs
  /\ None \notin [hash : Nat, count : Nat, unsupported : BOOLEAN]

VARIABLES
  status,       \* of each feed in contracts/manifest.json
  zonesFile,    \* zones.json of each feed
  versionFile,  \* version.json of each feed
  snapshots,    \* the history beside them
  runs,         \* runs begun; the timestamp of the current one
  pc,           \* what the run does next
  source,       \* the source being fetched
  attempt,      \* requests that failed for it
  failed,       \* a source failed in this run
  db,           \* the catalog to be published
  todo,         \* served feeds still to be written
  rc,           \* how the scraper ended
  lastHash,     \* state/last_hash of the wrapper
  told,         \* the message to the operator, until the next run starts
  published     \* ghost: what the last run that wrote anything came to; None
                \* once a run was killed while it wrote

run == <<source, attempt, failed, db, todo>>
disk == <<zonesFile, versionFile, snapshots>>
wrapper == <<lastHash, told>>
vars == <<status, disk, runs, pc, run, rc, wrapper, published>>

FeedStatuses == {"active", "unsupported", "retired"}
Statuses == FeedStatuses \cup {"mistyped"}
Meta == [hash : Nat, count : Nat, unsupported : BOOLEAN]
Snapshot == [feed : Feeds, time : 1..MaxRuns, content : Catalogs, whole : BOOLEAN]
Message == [ok : BOOLEAN, changed : BOOLEAN, hash : Nat \cup {None}]

TypeOK ==
  /\ status \in [Feeds -> Statuses]
  /\ zonesFile \in [Feeds -> Catalogs \cup {None}]
  /\ versionFile \in [Feeds -> Meta \cup {None}]
  /\ snapshots \subseteq Snapshot
  /\ runs \in 0..MaxRuns
  /\ pc \in {"idle", "fetch", "merge", "guard", "open", "copy", "zones",
             "version", "prune", "exit"}
  /\ pc # "idle" => runs > 0
  /\ source \in 1..(Sources + 1)
  /\ attempt \in 0..(Attempts - 1)
  /\ failed \in BOOLEAN
  /\ db \in Catalogs \cup {None}
  /\ todo \subseteq Feeds
  /\ rc \in {0, 1}
  /\ lastHash \in Nat \cup {None}
  /\ told \in Message \cup {None}
  /\ published \in [feeds : SUBSET Feeds, hash : Nat] \cup {None}

Init ==
  /\ status \in [Feeds -> FeedStatuses]
  /\ zonesFile = [f \in Feeds |-> None]
  /\ versionFile = [f \in Feeds |-> None]
  /\ snapshots = {}
  /\ runs = 0 /\ pc = "idle" /\ source = 1 /\ attempt = 0 /\ failed = FALSE
  /\ db = None /\ todo = {} /\ rc = 0
  /\ lastHash = None /\ told = None /\ published = None

-----------------------------------------------------------------------------
(* Somebody edits the manifest between two runs. *)
EditManifest(f, s) ==
  /\ pc = "idle" /\ status[f] # s
  /\ status' = [status EXCEPT ![f] = s]
  /\ UNCHANGED <<disk, runs, pc, run, rc, wrapper, published>>

Start ==
  /\ pc = "idle" /\ runs < MaxRuns
  /\ runs' = runs + 1 /\ pc' = "fetch"
  /\ told' = None
  /\ UNCHANGED <<status, disk, run, rc, lastHash, published>>

(* fetch._get and output._scrape_source: a 4xx answer, a page that cannot be
   parsed and one without zones fail the source at once, a timeout or a 5xx
   after the last attempt; the next source is read all the same.           *)
Answer(fails) ==
  /\ source' = source + 1 /\ attempt' = 0
  /\ failed' = (failed \/ fails)
  /\ pc' = IF source = Sources THEN "merge" ELSE "fetch"

(* Mutant of Transient: every attempt is followed by another. *)
RetryForever ==
  /\ UNCHANGED <<source, failed, pc>>
  /\ attempt' = (attempt + 1) % Attempts

Transient ==
  IF attempt + 1 < Attempts
  THEN attempt' = attempt + 1 /\ UNCHANGED <<source, failed, pc>>
  ELSE Answer(TRUE)

Request ==
  /\ pc = "fetch"
  /\ Answer(FALSE) \/ Answer(TRUE) \/ Transient
  /\ UNCHANGED <<status, disk, runs, db, todo, rc, wrapper, published>>

(* Mutant of Exit: a run that gives up ends without a code. *)
ExitWithoutCode(code) == rc' = 0 /\ pc' = "exit"

Exit(code) == rc' = code /\ pc' = "exit"

(* What the process held in memory is gone when it has ended. *)
Forget == source' = 1 /\ attempt' = 0 /\ failed' = FALSE /\ db' = None /\ todo' = {}

(* output.run_pipeline *)
SourceFailure ==
  /\ pc = "merge" /\ failed
  /\ Exit(1)
  /\ UNCHANGED <<status, disk, runs, run, wrapper, published>>

Merge ==
  /\ pc = "merge" /\ ~failed
  /\ db' \in Catalogs
  /\ pc' = "guard"
  /\ UNCHANGED <<status, disk, runs, source, attempt, failed, todo, rc, wrapper,
                 published>>

(* client_contract.load_feeds: one feed with a status that is none spoils the
   manifest.                                                               *)
ContractError == \E f \in Feeds : status[f] \notin FeedStatuses

(* feeds.served_feeds *)
Served == {f \in Feeds : status[f] \in {"active", "unsupported"}}
FeedError == ContractError \/ Served = {} \/ ~(Served \subseteq Projected)

(* client_contract.load_manifest: clients of before there were feeds name none.
   contract_violations: only those compiled against the feed are asked.    *)
FeedOf(client) == IF client.feed = None THEN 1 ELSE client.feed

ContractViolations(catalog, f) ==
  {client.contract : client \in {c \in Clients : FeedOf(c) = f}} \cap catalog.breaks

(* Mutant of TooFew: every feed is compared with what feed 1 announces. *)
TooFewOnFeed1(catalog, f) ==
  versionFile[1] # None /\ 10 * catalog.count < 7 * versionFile[1].count

(* output.publish_guard_errors; feed 1 serves the catalog itself. *)
TooFew(catalog, f) ==
  /\ versionFile[f] # None
  /\ 10 * catalog.count < 7 * versionFile[f].count

Acceptable(catalog, f) ==
  catalog.count >= MinZones /\ catalog.roads /\ ContractViolations(catalog, f) = {}

(* Mutant of Refused: each feed is guarded for itself. *)
RefusedByAll ==
  FeedError \/ \A f \in Served : ~Acceptable(db, f) \/ TooFew(db, f)

Refused ==
  FeedError \/ \E f \in Served : ~Acceptable(db, f) \/ TooFew(db, f)

Refuse ==
  /\ pc = "guard" /\ Refused
  /\ Exit(1)
  /\ UNCHANGED <<status, disk, runs, run, wrapper, published>>

(* Mutant of Accept: nothing but feed 1 is written if that has not changed. *)
AcceptChanged ==
  /\ pc = "guard" /\ ~Refused
  /\ todo' = IF 1 \in Served /\ versionFile[1] # None /\ versionFile[1].hash = db.hash
             THEN {1} ELSE Served
  /\ pc' = "open"
  /\ UNCHANGED <<status, disk, runs, source, attempt, failed, db, rc, wrapper,
                 published>>

Accept ==
  /\ pc = "guard" /\ ~Refused
  /\ todo' = Served
  /\ pc' = "open"
  /\ UNCHANGED <<status, disk, runs, source, attempt, failed, db, rc, wrapper,
                 published>>

-----------------------------------------------------------------------------
(* output._write_feed, one served feed after the other *)
Feed == Min(todo)

(* Mutant of HasChanged: the first replacement of a feed leaves no snapshot. *)
HasHistory(f) ==
  /\ \E s \in snapshots : s.feed = f
  /\ versionFile[f] # None /\ versionFile[f].hash # db.hash

(* A snapshot is taken when the hash that is served differs. *)
HasChanged(f) ==
  /\ zonesFile[f] # None
  /\ versionFile[f] # None /\ versionFile[f].hash # db.hash

Open ==
  /\ pc = "open"
  /\ pc' = IF HasChanged(Feed) THEN "copy" ELSE "zones"
  /\ UNCHANGED <<status, disk, runs, run, rc, wrapper, published>>

Copied(whole) ==
  snapshots' = snapshots \cup {[feed |-> Feed, time |-> runs, whole |-> whole,
                                content |-> zonesFile[Feed]]}

CopySnapshot ==
  /\ pc = "copy"
  /\ Copied(TRUE)
  /\ pc' = "zones"
  /\ UNCHANGED <<status, zonesFile, versionFile, runs, run, rc, wrapper, published>>

ReplaceZones ==
  /\ pc = "zones"
  /\ zonesFile' = [zonesFile EXCEPT ![Feed] = db]
  /\ pc' = "version"
  /\ UNCHANGED <<status, versionFile, snapshots, runs, run, rc, wrapper, published>>

ReplaceVersion ==
  /\ pc = "version"
  /\ versionFile' = [versionFile EXCEPT ![Feed] =
       [hash |-> db.hash, count |-> db.count,
        unsupported |-> status[Feed] = "unsupported"]]
  /\ pc' = "prune"
  /\ UNCHANGED <<status, zonesFile, snapshots, runs, run, rc, wrapper, published>>

(* Mutant of SnapshotGlob: a pattern that fits the numbered names too. *)
WideGlob(f) == {s \in snapshots : s.feed >= f}

(* feeds.snapshot_glob: the snapshots of feed 1 carry no number. *)
SnapshotGlob(f) == {s \in snapshots : s.feed = f}

(* All but the newest names; those of a later feed sort behind. *)
Newer(s, t) == s.feed > t.feed \/ (s.feed = t.feed /\ s.time > t.time)

Outdated(f) ==
  {s \in SnapshotGlob(f) :
     Cardinality({t \in SnapshotGlob(f) : Newer(t, s)}) >= Retention}

Prune ==
  /\ pc = "prune"
  /\ snapshots' = snapshots \ Outdated(Feed)
  /\ todo' = todo \ {Feed}
  /\ IF todo = {Feed}
     THEN Exit(0) /\ published' = [feeds |-> Served, hash |-> db.hash]
     ELSE pc' = "open" /\ UNCHANGED <<rc, published>>
  /\ UNCHANGED <<status, zonesFile, versionFile, runs, source, attempt, failed,
                 db, wrapper>>

-----------------------------------------------------------------------------
Writing == pc \in {"open", "copy", "zones", "version", "prune"}

(* The scraper dies; a snapshot it was copying stays behind in part. *)
Die ==
  /\ pc \notin {"idle", "exit"}
  /\ UNCHANGED snapshots \/ (pc = "copy" /\ Copied(FALSE))
  /\ published' = IF Writing THEN None ELSE published
  /\ UNCHANGED <<status, zonesFile, versionFile, runs, wrapper>>

Killed == Die /\ Exit(1) /\ UNCHANGED run

(* The wrapper dies with it, and nobody is told. *)
HostDown ==
  \/ Die /\ pc' = "idle" /\ rc' = 0 /\ Forget
  \/ /\ pc = "exit" /\ pc' = "idle" /\ rc' = 0 /\ Forget
     /\ UNCHANGED <<status, disk, runs, wrapper, published>>

(* run_cron.sh: the hash that is served now is remembered and compared with
   the one of the last run that went well (notify.format_success).         *)
ServedHash == IF versionFile[1] = None THEN None ELSE versionFile[1].hash

Report ==
  /\ lastHash' = IF rc = 0 /\ ServedHash # None THEN ServedHash ELSE lastHash
  /\ told' = [ok |-> rc = 0, hash |-> ServedHash,
              changed |-> lastHash = None \/ lastHash # ServedHash]

Notify ==
  /\ pc = "exit"
  /\ Report
  /\ pc' = "idle" /\ rc' = 0 /\ Forget
  /\ UNCHANGED <<status, disk, runs, published>>

Step == \/ Request \/ SourceFailure \/ Merge \/ Refuse \/ Accept \/ Open
        \/ CopySnapshot \/ ReplaceZones \/ ReplaceVersion \/ Prune \/ Notify

Next == \/ Step \/ Start \/ Killed \/ HostDown
        \/ \E f \in Feeds, s \in Statuses : EditManifest(f, s)

(* The process runs on until it ends or is killed: nothing it does waits for
   another, and every request has a timeout.                               *)
Spec == Init /\ [][Next]_vars /\ WF_vars(Step)

-----------------------------------------------------------------------------
(* Whatever dies when, every client is served a catalog of plausible size
   that covers the motorways and that it can decode
   (publish_guard_errors).                                                 *)
ServedIsUsable ==
  \A f \in Feeds : zonesFile[f] # None => Acceptable(zonesFile[f], f)

(* "A half-updated /api is worse than a uniformly stale one": unless a run
   was killed while it wrote, the feeds that were served by the last run that
   published hold its catalog, and announce what they hold, whatever failed
   or was refused since.                                                   *)
FeedsAgree ==
  published # None /\ ~Writing =>
    \A f \in published.feeds :
      /\ zonesFile[f] # None /\ zonesFile[f].hash = published.hash
      /\ versionFile[f] # None /\ versionFile[f].hash = published.hash
      /\ versionFile[f].count = zonesFile[f].count

(* One run takes away at most three zones in ten from what a feed serves.  A
   run that died between the two files leaves a count nobody announced, and
   the next one is not held to it (output.main, _read_version_meta).       *)
Announced(f) ==
  /\ zonesFile[f] # None /\ versionFile[f] # None
  /\ zonesFile[f].hash = versionFile[f].hash
  /\ zonesFile[f].count = versionFile[f].count

NoCollapse ==
  [][\A f \in Feeds : Announced(f) =>
       10 * zonesFile'[f].count >= 7 * zonesFile[f].count]_vars

(* What was announced to clients is not overwritten by something else before
   it is in the feed's history, whole (_write_feed).                       *)
NothingLost ==
  [][\A f \in Feeds :
       Announced(f) /\ zonesFile'[f].hash # zonesFile[f].hash =>
         \E s \in snapshots : s.feed = f /\ s.whole /\ s.content = zonesFile[f]]_vars

(* The newest snapshots of a feed outlive every run, of this feed or another
   (snapshot_glob: "rotating feed 1 would prune feed 2's history"); a retired
   feed keeps all it has (served_feeds).                                   *)
Recent(f) ==
  {s \in snapshots : /\ s.feed = f
                     /\ Cardinality({t \in snapshots : t.feed = f /\ t.time > s.time})
                          < Retention}

HistoryKept ==
  [][\A f \in Feeds :
       /\ \A s \in Recent(f) : s \in snapshots'
       /\ status[f] = "retired" =>
            /\ zonesFile'[f] = zonesFile[f] /\ versionFile'[f] = versionFile[f]
            /\ \A s \in snapshots : s.feed = f => s \in snapshots']_vars

(* The operator is told of a success only when the run published what it
   merged on every feed that is served (run_cron.sh).                      *)
SuccessMeansPublished ==
  [][told = None /\ told' # None /\ told'.ok =>
       /\ db # None
       /\ \A f \in Served : zonesFile[f] = db /\ versionFile[f].hash = db.hash]_vars

(* A run comes to an end however the sources answer. *)
RunEnds == pc # "idle" ~> pc = "idle"
=============================================================================
