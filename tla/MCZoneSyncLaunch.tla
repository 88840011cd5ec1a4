-------------------------- MODULE MCZoneSyncLaunch --------------------------
(***************************************************************************)
(* The launch that ZoneRepository.kt (lines 108-115) is about: an upgraded  *)
(* app, bundling a newer scrape than it has stored, is opened while the     *)
(* launch ZoneSyncWorker runs.  Nothing is killed.                          *)
(***************************************************************************)
EXTENDS ZoneSync

CONSTANTS Stored, Bundled   \* two different contents

Old == [content |-> Stored, version |-> 1]

(* Served and stored are the first scrape, bundled is the second. *)
LaunchInit ==
  /\ zonesFile = Old
  /\ versionFile = [content |-> Stored, version |-> 1, retired |-> FALSE]
  /\ bundle = [content |-> Bundled, version |-> 2] /\ scrapes = 2
  /\ store = Old /\ hash = Stored /\ version = 1
  /\ feedUnsupported = FALSE /\ checked = FALSE
  /\ jobs = [j \in Jobs |-> Idle]
  /\ interruptions = 0
  /\ clean = TRUE /\ healing = FALSE

LaunchSpec == LaunchInit /\ [][Next]_vars /\ Fairness

-----------------------------------------------------------------------------
(* "Ordering vs the launch ZoneSyncWorker is convergent either way: whichever
   of the two applies newer data first, the other's recency gate then skips"
   (ZoneRepository.kt, lines 112-114): once publications stop, the device
   ends up with the served data or with newer.                             *)
CatalogConverges ==
  <>[](store.content = zonesFile.content \/ store.version > zonesFile.version)
=============================================================================
