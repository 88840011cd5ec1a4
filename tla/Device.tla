------------------------------- MODULE Device -------------------------------
(***************************************************************************)
(* The phone of the QA harness (qa/devices/android.py) as its scenarios see  *)
(* it: the state a command changes or a later command depends on, and the    *)
(* log lines the app answers with.  Catalogs are numbered in the order they  *)
(* were scraped; the same number is their version and stands for their hash. *)
(***************************************************************************)
EXTENDS Integers, Sequences, SequencesExt

CONSTANT Bundled        \* the catalog in the APK and in backend/data

Sentinel == 0           \* a cached hash no catalog has
Ancient == 0            \* 2020-01-01
Future == 9             \* 2099-01-01
Unset == -1             \* an empty cached version compares with nothing

Clean ==
  [voice |-> TRUE, language |-> "system", vehicle |-> "car", autoStop |-> FALSE, retention |-> TRUE,
   syncOn |-> TRUE, hash |-> Bundled, version |-> Bundled, zones |-> Bundled,
   unsupported |-> FALSE, online |-> TRUE, tracking |-> FALSE, large |-> FALSE,
   allowed |-> TRUE, rows |-> FALSE, drawn |-> FALSE, grown |-> FALSE,
   crashed |-> FALSE]

(* What a killed live run leaves: pinned to an older catalog, and frozen. *)
Frozen == [Clean EXCEPT !.syncOn = FALSE, !.version = Future, !.zones = 1, !.hash = 1]

(* SET_SETTING: retention "none" also deletes the rows there are. *)
SetSetting(d, key, value) ==
  LET new == [d EXCEPT ![key] = value]
  IN  IF key = "retention" /\ ~value
      THEN [new EXCEPT !.rows = FALSE, !.drawn = FALSE, !.grown = d.grown \/ d.rows]
      ELSE new

(* SEED_HISTORY: other rows, with the geometry of their zones or (legacy) without. *)
Seeded(d, withGeometry) == [d EXCEPT !.rows = TRUE, !.drawn = withGeometry]

(* pm revoke: the process is killed, the system may start the service again. *)
Revoked(d) ==
  {[d EXCEPT !.allowed = FALSE, !.tracking = restarted] :
     restarted \in {FALSE, d.tracking}}

(* SYNC_ZONES: syncFromServer with what is served. *)
SyncOutcome(d, served) ==
  IF ~d.online THEN "Failed"
  ELSE IF d.hash = served \/ d.version >= served THEN "UpToDate" ELSE "Updated"

Synced(d, served) ==
  LET outcome == SyncOutcome(d, served)
      answered == [d EXCEPT !.unsupported = FALSE]
  IN  CASE outcome = "Failed" -> d
        [] outcome = "Updated" ->
             [answered EXCEPT !.zones = served, !.hash = served, !.version = served]
        [] d.hash = served -> [answered EXCEPT !.version = served]
        [] OTHER -> answered

(* What the app does by itself: the sync worker, and the bundle at launch. *)
Refreshed(d, served) == IF d.syncOn THEN Synced(d, served) ELSE d

Reseeded(d) ==
  IF d.hash # Bundled /\ d.version # Unset /\ Bundled > d.version
  THEN [d EXCEPT !.zones = Bundled, !.hash = Bundled, !.version = Bundled]
  ELSE d

(* The app dies with an exception: the system may start its service again
   (START_STICKY), and keeps the crash in its buffer.                      *)
Crashed(d) ==
  {[d EXCEPT !.tracking = restarted, !.crashed = TRUE] :
     restarted \in {FALSE, d.tracking}}

-----------------------------------------------------------------------------
(* Log lines of one kind of drive, in order. *)
Spoken == {"leadIn", "speak", "warning"}

Journey(kind) ==
  CASE kind = "through"     -> <<"leadIn", "speak", "InZone", "speak", "Exiting">>
    [] kind = "overLimit"   -> <<"leadIn", "speak", "InZone", "warning", "Exiting">>
    [] kind = "into"        -> <<"leadIn", "speak", "InZone", "warning">>
    [] kind = "rest"        -> <<"InZone", "speak", "Exiting">>
    [] kind = "dense"       -> <<"leadIn", "speak", "InZone", "Exiting">>
    [] kind = "join"        -> <<"Unmeasured">>
    [] kind = "provisional" -> <<"announced", "speak", "InZone", "confirmed">>
    [] kind = "abandoned"   -> <<"announced", "speak", "abandoned">>
    [] kind = "away"        -> <<"Outside">>
    [] kind = "still"       -> <<"slow">>

(* Drives that reach their zone before ten seconds are over. *)
Prompt == {"dense", "join"}
Zoneless == {"away", "still"}

(* With the ten second limit of edge.auto_stop the service is gone before the
   others get that far; on a catalog other than the harness's nobody knows
   what a drive meets.                                                     *)
Lines(d, kind) ==
  LET all == IF ~d.autoStop \/ kind = "still" THEN Journey(kind)
             ELSE IF kind \in Prompt
                  THEN SelectSeq(Journey(kind), LAMBDA l : l # "Exiting") \o <<"autoStop">>
                  ELSE <<"Outside", "autoStop">>
  IN  IF ~d.tracking THEN <<>>
      ELSE SelectSeq(all, LAMBDA l : l \in Spoken => d.voice)

(* The drives that may be made of it, each its log lines and the device after. *)
Driven(d, kind, catalog) ==
  {[lines |-> l,
    dev |-> LET recorded == d.retention /\ Contains(l, "InZone") /\ Contains(l, "Exiting")
            IN  [d EXCEPT !.rows = @ \/ recorded, !.drawn = @ \/ recorded,
                          !.grown = @ \/ recorded,
                          !.tracking = @ /\ ~Contains(l, "autoStop")]] :
     l \in {Lines(d, kind)} \cup
           (IF d.zones = catalog \/ kind \in Zoneless \/ ~d.tracking THEN {}
            ELSE {<<"Outside">>})}

(* The auto-stop check of an idle service. *)
Idled(d) ==
  IF d.tracking /\ d.autoStop
  THEN [lines |-> <<"autoStop">>, dev |-> [d EXCEPT !.tracking = FALSE]]
  ELSE [lines |-> <<>>, dev |-> d]
=============================================================================
