------------------------------ MODULE Tracking ------------------------------
(***************************************************************************)
(* The tracking service (service/LocationTrackingService.kt) and the two   *)
(* consumers it drives: the history recorder and the audio alerts.  The    *)
(* detector is taken at its contract, Traversal, which ZoneDetector        *)
(* implements; the service hands each of its steps to both consumers.      *)
(*                                                                         *)
(* Time is that of the fixes, and the wall clock agrees with it.  Fixes    *)
(* the listener drops before the detector (no detector yet, too coarse, no *)
(* course, displaced by a debug feed) are longer gaps between fixes.       *)
(***************************************************************************)
EXTENDS HistoryRecorder, AudioAlerts

CONSTANTS
  Gaps,         \* times between fixes that reach the detector
  MaxTime, MaxJobs, MaxTroubles   \* bounds; no code counterpart

ASSUME GapsAssumption == Gaps \subseteq Nat \ {0}

ASSUME NowhereAssumption ==
  /\ Nowhere \notin Zones /\ Nowhere \notin Candidate
  /\ Nowhere \notin [zone : Zones, entry : Nat]
  /\ Nowhere \notin [zone : Zones, at : Nat]
  /\ Never \notin Nat

(* HistoryRecorder.kt, lines 181-183: the recorder's window mirrors the one of
   the alerts; it need only not be longer.                                 *)
ASSUME MirrorAssumption == TRANSIENT_EXIT_WINDOW <= SUPPRESS_EXIT_WINDOW

VARIABLES
  service,  \* "stopped", "loading" (no detector yet) or "tracking"
  troubles, \* environment: what has disturbed the drive so far
  late      \* history: an announcement once outlived the next fix or detector

vars == <<tvars, hvars, avars, service, now, troubles, late>>

-----------------------------------------------------------------------------
Troubled == troubles < MaxTroubles /\ troubles' = troubles + 1

Overtaken == late' = (late \/ jobs # {})

(* The listener: the detector first, then the alerts, then the recorder. *)
OnLocation ==
  /\ service = "tracking" /\ Cardinality(jobs) < MaxJobs
  /\ \E gap \in Gaps, audible \in BOOLEAN :
       /\ now + gap <= MaxTime
       /\ now' = now + gap
       /\ Detect(now')
       /\ Announce(now', audible)
       /\ Record(now')
  /\ Overtaken
  /\ IF late' = late THEN UNCHANGED troubles ELSE Troubled
  /\ UNCHANGED <<setting, rows, service>>

-----------------------------------------------------------------------------
(* onStartCommand: the catalog and the engine are asked for. *)
OnStartCommand ==
  /\ service = "stopped" /\ service' = "loading"
  /\ UNCHANGED <<tvars, hvars, avars, now, troubles, late>>

(* The first catalog arrives: initializeDetector. *)
ZonesLoaded ==
  /\ service = "loading" /\ service' = "tracking"
  /\ Reset /\ DetectorReplaced
  /\ UNCHANGED <<hvars, now, troubles, late>>

(* Another one arrives: the detector is replaced wherever the car is. *)
ZonesChanged ==
  /\ service = "tracking" /\ Troubled
  /\ Reset /\ DetectorReplaced /\ Overtaken
  /\ UNCHANGED <<hvars, service, now>>

TtsInitialized ==
  /\ service # "stopped" /\ EngineReady
  /\ UNCHANGED <<tvars, hvars, service, now, troubles, late>>

(* onDestroy, whoever stopped the service: the user, the idle timer, the task
   list.  The recorder is not told.                                        *)
OnDestroy ==
  /\ service # "stopped" /\ Troubled
  /\ service' = "stopped"
  /\ Reset /\ ShutdownAlerts /\ Overtaken
  /\ UNCHANGED <<hvars, now>>

ProcessDies ==
  /\ Troubled
  /\ service' = "stopped"
  /\ Reset /\ HistoryDies /\ AlertsDie
  /\ UNCHANGED <<now, late>>

(* Switching the history off disturbs a drive; switching it on again is part
   of the same disturbance.                                                *)
SettingChanges ==
  /\ ChangeRetention
  /\ IF retention' = NONE THEN Troubled ELSE UNCHANGED troubles
  /\ UNCHANGED <<tvars, avars, service, now, late>>

Announcing ==
  /\ \E j \in jobs : Resume(j, now) \/ SpeakMessage(j, now)
  /\ UNCHANGED <<tvars, hvars, service, now, troubles, late>>

Bookkeeping ==
  /\ MirrorRetention \/ Prune \/ Insert
  /\ UNCHANGED <<tvars, avars, service, now, troubles, late>>

Init ==
  /\ TInit /\ HistoryInit /\ AlertsInit
  /\ service = "stopped" /\ now = 0 /\ troubles = 0 /\ late = FALSE

Next ==
  \/ OnLocation \/ OnStartCommand \/ ZonesLoaded \/ ZonesChanged
  \/ TtsInitialized \/ OnDestroy \/ ProcessDies \/ SettingChanges
  \/ Announcing \/ Bookkeeping

Spec == Init /\ [][Next]_vars

-----------------------------------------------------------------------------
(* The fields of the three parts keep their types. *)
TypeOK ==
  /\ HistoryOK /\ AlertsOK
  /\ service \in {"stopped", "loading", "tracking"}
  /\ now \in Nat /\ troubles \in Nat /\ late \in BOOLEAN

(* A traversal whose entry was to be announced is one the driver was told
   about, no longer than the repeat window before it opened: "inside it the
   driver has heard this zone" (AudioAlertManager.kt, lines 498-500).  The mark
   that silences the confirmed entry is written by one coroutine and read by
   others, across shutdowns and new detectors; it must never be ahead of what
   was said.  A line that found no engine is the one exception.            *)
EntryIsHeard ==
  /\ kind = "InZone" /\ owed # Never /\ zone \notin dropped
  /\ \A j \in jobs : j.zone = zone => j.says = "exit"
  => /\ heard[zone] # Never
     /\ heard[zone] > owed - PROVISIONAL_REPEAT_WINDOW

(* "the driver does not need to hear the same zone announced twice inside a
   minute" (AudioAlertManager.kt, lines 479-483): between two entry lines for
   one zone the window passes, or another zone is announced, a traversal ends
   or the detector is replaced.  It takes coroutines that finish before the
   next fix.                                                               *)
SaidAgain(j) ==
  /\ j.stage = "message" /\ j.says # "exit" /\ j \notin jobs'
  /\ j.zone = lastSaid /\ isInitialized

EntryNotRepeated ==
  [][\A j \in jobs : SaidAgain(j) /\ ~late /\ service # "stopped" =>
       now - heard[lastSaid] >= PROVISIONAL_REPEAT_WINDOW]_vars

(* The recorder and the alerts judge a traversal transient by different
   clocks, one from the back-dated entry, the other from the announcement
   ("so history matches the audio", HistoryRecorder.kt, lines 132-134).  One
   direction holds: what the recorder skips as transient is never summed up to
   the driver, if its entry was announced and no coroutine ran late.       *)
ExitMatchesHistory ==
  \A j \in jobs :
    j.says = "exit" /\ j.stage = "message" /\ j.since # Never /\ ~late =>
      [zone |-> j.zone, entry |-> j.since, exit |-> j.at] \notin skipped
=============================================================================
