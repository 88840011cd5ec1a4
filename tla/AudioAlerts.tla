----------------------------- MODULE AudioAlerts -----------------------------
(***************************************************************************)
(* What the driver is told about entering and leaving zones                *)
(* (service/AudioAlertManager.kt: onProvisionalEntry, onZoneStateChanged,  *)
(* shutdown).                                                              *)
(*                                                                         *)
(* Each announcement is a coroutine of its own.  It suspends on a setting  *)
(* before it reads and writes the fields of the manager, and once more to  *)
(* word the message before it speaks; the coroutines under way resume in   *)
(* any order, and they survive shutdown.  Warnings and periodic updates    *)
(* about the average share none of these fields and are left out; what     *)
(* speak() does with the utterance is AudioFocus.                          *)
(***************************************************************************)
EXTENDS Traversal, FiniteSets

CONSTANTS
  PROVISIONAL_REPEAT_WINDOW,
  SUPPRESS_EXIT_WINDOW       \* its TRANSIENT_EXIT_WINDOW_MS

ASSUME WindowsAssumption ==
  PROVISIONAL_REPEAT_WINDOW \in Nat \ {0} /\ SUPPRESS_EXIT_WINDOW \in Nat

VARIABLES
  isInitialized,   \* the engine is ready to speak
  jobs,            \* announcements under way
  provisional,     \* provisionalZoneId and provisionalTime, or Nowhere
  lastEntryTime,   \* Never stands for the epoch
  owed,            \* history: when the open traversal's entry was to be said
  heard,           \* history: zone -> when its entry was last said
  dropped,         \* history: zones whose last entry line found no engine
  lastSaid         \* history: zone of the latest entry line, if nothing since

avars == <<isInitialized, jobs, provisional, lastEntryTime, owed, heard,
           dropped, lastSaid>>

Times == Nat \cup {Never}

Job ==
  [says : {"provisional", "enter", "chain", "exit"}, zone : Zones, at : Nat,
   since : Times, stage : {"settings", "message"}]

-----------------------------------------------------------------------------
(* Mutant of IsAlreadyAnnounced: a repeat is no repeat. *)
NeverAnnounced(z, t) == FALSE

(* Mutant of IsAlreadyAnnounced: the recency clause is gone. *)
AnnouncedOnce(z, t) == provisional # Nowhere /\ provisional.zone = z

IsAlreadyAnnounced(z, t) ==
  /\ provisional # Nowhere /\ provisional.zone = z
  /\ t - provisional.at < PROVISIONAL_REPEAT_WINDOW

(* The tracking service hands over a candidate that is new, leaves the state
   Outside and saw the start (isNewProvisionalCandidate and the arc guard). *)
NewCandidate ==
  /\ candidate' # Nowhere /\ kind' = "Outside"
  /\ candidate = Nowhere \/ candidate.zone # candidate'.zone
  /\ candidate'.witnessed

Start(says, z, t, since) ==
  {[says |-> says, zone |-> z, at |-> t, since |-> since,
    stage |-> "settings"]}

(* The announcement a fix calls for, if any: at most one of the two calls of
   the service has something to say.                                       *)
Announcements(t) ==
  IF NewCandidate /\ ~IsAlreadyAnnounced(candidate'.zone, t)
  THEN Start("provisional", candidate'.zone, t, Never)
  ELSE IF kind = "Outside" /\ kind' = "InZone"
  THEN Start("enter", zone', t, Never)
  ELSE IF kind = "Exiting" /\ kind' = "InZone" /\ zone # zone'
  THEN Start("chain", zone', t, Never)
  ELSE IF kind = "InZone" /\ kind' = "Exiting"
  THEN Start("exit", zone', t, IF owed = Never THEN Never ELSE entry)
  ELSE {}

(* The two calls for one fix.  A voice that is switched off, a car below
   MIN_ANNOUNCE_SPEED_KMH or a missing average keep it silent.             *)
Announce(t, audible) ==
  LET begun == Announcements(t)
  IN /\ audible => begun # {}
     /\ jobs' = IF audible THEN jobs \cup begun ELSE jobs
     /\ owed' = IF kind' # "InZone" THEN Never
                ELSE IF kind = "InZone" THEN owed
                ELSE IF audible THEN t ELSE Never
     /\ lastSaid' = IF kind' = "Exiting" THEN Nowhere ELSE lastSaid
     /\ UNCHANGED <<isInitialized, provisional, lastEntryTime, heard, dropped>>

-----------------------------------------------------------------------------
Going(j) == jobs' = (jobs \ {j}) \cup {[j EXCEPT !.stage = "message"]}
Gone(j) == jobs' = jobs \ {j}

ProvisionalMarks(j) ==
  /\ j.says = "provisional"
  /\ provisional' = [zone |-> j.zone, at |-> j.at]
  /\ lastEntryTime' = j.at
  /\ Going(j)

(* Mutant of EnterChecks: the entry is said whatever was said before. *)
EnterRepeats(j, t) ==
  /\ j.says = "enter" /\ lastEntryTime' = t
  /\ Going(j) /\ UNCHANGED provisional

(* Outside -> InZone: not said again when the candidate was announced. *)
EnterChecks(j, t) ==
  /\ j.says = "enter"
  /\ lastEntryTime' = t
  /\ IF IsAlreadyAnnounced(j.zone, t)
     THEN provisional' = Nowhere /\ Gone(j)
     ELSE Going(j) /\ UNCHANGED provisional

(* Exiting -> InZone of another zone. *)
ChainEnters(j, t) ==
  /\ j.says = "chain"
  /\ lastEntryTime' = t /\ provisional' = Nowhere
  /\ Going(j)

(* Mutant of ExitChecks: a short traversal is summed up as well. *)
ExitAlways(j, t) ==
  /\ j.says = "exit" /\ Going(j) /\ UNCHANGED <<lastEntryTime, provisional>>

(* InZone -> Exiting: silent when the entry was only just announced. *)
ExitChecks(j, t) ==
  /\ j.says = "exit"
  /\ IF lastEntryTime # Never /\ t - lastEntryTime < SUPPRESS_EXIT_WINDOW
     THEN Gone(j) ELSE Going(j)
  /\ UNCHANGED <<lastEntryTime, provisional>>

(* A coroutine resumes with its settings. *)
Resume(j, t) ==
  /\ j.stage = "settings"
  /\ \/ ProvisionalMarks(j) \/ EnterChecks(j, t)
     \/ ChainEnters(j, t) \/ ExitChecks(j, t)
  /\ UNCHANGED <<isInitialized, owed, heard, dropped, lastSaid>>

(* It speaks: an engine that is not ready drops the line. *)
SpeakMessage(j, t) ==
  /\ j.stage = "message" /\ Gone(j)
  /\ provisional' = IF j.says = "enter" THEN Nowhere ELSE provisional
  /\ IF j.says = "exit" THEN UNCHANGED <<heard, dropped, lastSaid>>
     ELSE IF isInitialized
     THEN /\ heard' = [heard EXCEPT ![j.zone] = t]
          /\ dropped' = dropped \ {j.zone} /\ lastSaid' = j.zone
     ELSE /\ dropped' = dropped \cup {j.zone}
          /\ UNCHANGED <<heard, lastSaid>>
  /\ UNCHANGED <<isInitialized, lastEntryTime, owed>>

EngineReady ==
  /\ ~isInitialized /\ isInitialized' = TRUE
  /\ UNCHANGED <<jobs, provisional, lastEntryTime, owed, heard, dropped,
                 lastSaid>>

(* shutdown; the coroutines under way are not cancelled. *)
ShutdownAlerts ==
  /\ isInitialized' = FALSE /\ provisional' = Nowhere
  /\ owed' = Never /\ lastSaid' = Nowhere
  /\ UNCHANGED <<jobs, lastEntryTime, heard, dropped>>

(* A new detector is none of the manager's business. *)
DetectorReplaced ==
  /\ owed' = Never /\ lastSaid' = Nowhere
  /\ UNCHANGED <<isInitialized, jobs, provisional, lastEntryTime, heard,
                 dropped>>

AlertsInit ==
  /\ isInitialized = FALSE /\ jobs = {} /\ provisional = Nowhere
  /\ lastEntryTime = Never /\ owed = Never
  /\ heard = [z \in Zones |-> Never] /\ dropped = {} /\ lastSaid = Nowhere

AlertsDie ==
  /\ isInitialized' = FALSE /\ jobs' = {} /\ provisional' = Nowhere
  /\ lastEntryTime' = Never /\ owed' = Never /\ lastSaid' = Nowhere
  /\ dropped' = {}
  /\ UNCHANGED heard

AlertsOK ==
  /\ isInitialized \in BOOLEAN /\ jobs \subseteq Job
  /\ provisional \in [zone : Zones, at : Nat] \cup {Nowhere}
  /\ lastEntryTime \in Times /\ owed \in Times
  /\ heard \in [Zones -> Times] /\ dropped \subseteq Zones
  /\ lastSaid \in Zones \cup {Nowhere}
=============================================================================
