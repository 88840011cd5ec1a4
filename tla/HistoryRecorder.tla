--------------------------- MODULE HistoryRecorder ---------------------------
(***************************************************************************)
(* How finished traversals become rows of the History tab                  *)
(* (service/HistoryRecorder.kt, data/HistoryRepository.kt and the          *)
(* retention collector of SrednaBGApp.kt).                                 *)
(*                                                                         *)
(* The recorder is a singleton: its buffer outlives the tracking service   *)
(* and every detector.  It sees the setting through a mirror that lags, it *)
(* hands a finished row to a coroutine, and the table is pruned by another *)
(* collector of the same setting.  Of a row only what identifies the       *)
(* traversal is kept; rows older than the months of a retention are beyond *)
(* the horizon of a drive.                                                 *)
(***************************************************************************)
EXTENDS Traversal

CONSTANT TRANSIENT_EXIT_WINDOW

ASSUME WindowAssumption == TRANSIENT_EXIT_WINDOW \in Nat \ {0}

VARIABLES
  retention,         \* the setting
  pruned,            \* the retention the launch collector last applied, or Nowhere
  recordingEnabled,  \* the recorder's mirror of it
  capture,           \* the in-progress traversal, or Nowhere
  inserting,         \* rows whose insert is launched and not done
  rows,              \* the table
  finished,          \* history: the traversals the detector reported finished
  skipped            \* history: those of them judged transient

buffer == <<capture, inserting, finished, skipped>>
setting == <<retention, pruned, recordingEnabled>>
hvars == <<setting, buffer, rows>>

NONE == "none"
Retentions == {NONE, "3months"}

Row == [zone : Zones, entry : Nat, exit : Nat]

-----------------------------------------------------------------------------
(* A buffer for another zone is dropped rather than mis-attributed. *)
Captured ==
  IF capture # Nowhere /\ capture.zone = zone' THEN capture
  ELSE [zone |-> zone', entry |-> entry']

(* Mutant of Cleared: the buffer stays open. *)
LeftOpen == capture

(* Outside and after an exit no buffer is left. *)
Cleared == Nowhere

(* finalize, of the buffer of the zone that is left. *)
Finalize(t) ==
  LET row == [zone |-> capture.zone, entry |-> capture.entry, exit |-> t]
  IN IF t - capture.entry < TRANSIENT_EXIT_WINDOW
     THEN /\ skipped' = skipped \cup {row}
          /\ UNCHANGED inserting
     ELSE /\ inserting' = inserting \cup {row}
          /\ UNCHANGED skipped

(* onZoneStateChanged, for the fix of time t that the detector has taken. *)
Record(t) ==
  /\ finished' = IF kind = "InZone" /\ kind' = "Exiting"
                 THEN finished \cup {[zone |-> zone, entry |-> entry, exit |-> t]}
                 ELSE finished
  /\ \/ ~recordingEnabled
        /\ capture' = Nowhere /\ UNCHANGED <<inserting, skipped>>
     \/ recordingEnabled /\ kind' = "InZone"
        /\ capture' = Captured /\ UNCHANGED <<inserting, skipped>>
     \/ recordingEnabled /\ kind' = "Exiting"
        /\ capture' = Cleared
        /\ IF capture # Nowhere /\ capture.zone = zone'
           THEN Finalize(t) ELSE UNCHANGED <<inserting, skipped>>
     \/ recordingEnabled /\ kind' \in {"Unmeasured", "Outside"}
        /\ capture' = Cleared /\ UNCHANGED <<inserting, skipped>>

-----------------------------------------------------------------------------
ChangeRetention ==
  /\ retention' \in Retentions \ {retention}
  /\ UNCHANGED <<pruned, recordingEnabled, buffer, rows>>

(* The recorder's collector. *)
MirrorRetention ==
  /\ recordingEnabled # (retention # NONE)
  /\ recordingEnabled' = (retention # NONE)
  /\ UNCHANGED <<retention, pruned, buffer, rows>>

(* The application's collector: once on launch, then on every change. *)
Prune ==
  /\ pruned # retention
  /\ pruned' = retention
  /\ rows' = IF retention = NONE THEN {} ELSE rows
  /\ UNCHANGED <<retention, recordingEnabled, buffer>>

RowId(row) == <<row.zone, row.exit>>

(* The insert replaces a row of the same id. *)
Insert ==
  \E row \in inserting :
    /\ rows' = {old \in rows : RowId(old) # RowId(row)} \cup {row}
    /\ inserting' = inserting \ {row}
    /\ UNCHANGED <<setting, capture, finished, skipped>>

(* The process dies; the table and the setting survive. *)
HistoryDies ==
  /\ capture' = Nowhere /\ inserting' = {}
  /\ recordingEnabled' = TRUE /\ pruned' = Nowhere
  /\ UNCHANGED <<retention, rows, finished, skipped>>

HistoryInit ==
  /\ retention = "3months" /\ pruned = retention
  /\ recordingEnabled = TRUE
  /\ capture = Nowhere /\ inserting = {} /\ rows = {}
  /\ finished = {} /\ skipped = {}

HistoryOK ==
  /\ retention \in Retentions /\ pruned \in Retentions \cup {Nowhere}
  /\ recordingEnabled \in BOOLEAN
  /\ capture \in [zone : Zones, entry : Nat] \cup {Nowhere}
  /\ inserting \subseteq Row /\ rows \subseteq Row
  /\ finished \subseteq Row /\ skipped \subseteq Row

(* Every row, stored or on its way, is one traversal that one detector saw
   from its entry to its exit.  The buffer outlives the service, a catalog
   change and the retention setting; a traversal cut short by any of them must
   never lend its entry time to a later one of the same zone
   (HistoryRecorder.kt, lines 88-120; LocationTrackingService.kt, line 511). *)
RowsAreTraversals == inserting \cup rows \subseteq finished

(* No two rows share time, although entries are back-dated, detectors are
   replaced in mid-zone and inserts run late; so no insert ever replaces
   another traversal's row ("Two distinct traversals can't share a zone +
   exit millisecond", lines 142-144).                                      *)
RowsDisjoint ==
  \A r, s \in inserting \cup rows :
    r # s => r.exit <= s.entry \/ s.exit <= r.entry
=============================================================================
