--------------------------- MODULE TrackingProofs ---------------------------
(***************************************************************************)
(* Proofs about Tracking, for every set of zones, every window and drives  *)
(* without bound.                                                          *)
(***************************************************************************)
EXTENDS Tracking, TLAPS

(* The detector's side: entries and candidates lie behind no earlier end, and
   a candidate stands only outside.                                        *)
ContractOK ==
  /\ kind \in {"Outside", "Unmeasured", "InZone", "Exiting"}
  /\ lastEnd \in Nat /\ offered \in BOOLEAN
  /\ candidate \in Candidate \cup {Nowhere}
  /\ candidate # Nowhere => kind = "Outside" /\ candidate.since >= lastEnd
  /\ kind = "InZone" => zone \in Zones /\ entry \in Nat /\ entry >= lastEnd

(* An open buffer is the open traversal's, or belongs to a detector that is
   gone and whose successor cannot open a zone on its first fix.           *)
BufferOK ==
  capture # Nowhere =>
    \/ kind = "InZone" /\ capture = [zone |-> zone, entry |-> entry]
    \/ kind = "Outside" /\ candidate = Nowhere /\ ~offered

(* The finished traversals lie in the past and share no time. *)
FinishedOK ==
  /\ \A r \in finished : r.entry <= r.exit /\ r.exit <= lastEnd
  /\ \A r, s \in finished :
       r # s => r.exit <= s.entry \/ s.exit <= r.entry

HInv ==
  /\ now \in Nat /\ HistoryOK /\ ContractOK /\ BufferOK /\ FinishedOK
  /\ RowsAreTraversals

(* The mark that silences a confirmed entry is never ahead of what was said,
   is about to be said, or found no engine.                                *)
MarkIsHonest ==
  provisional # Nowhere =>
    LET z == provisional.zone
    IN \/ z \in dropped
       \/ \E j \in jobs : /\ j.says = "provisional" /\ j.stage = "message"
                          /\ j.zone = z
       \/ heard[z] # Never /\ heard[z] >= provisional.at

(* Nothing the alerts remember lies in the future. *)
ClockOK ==
  /\ owed # Never => owed <= now
  /\ provisional # Nowhere => provisional.at <= now
  /\ \A j \in jobs : j.at <= now

RestOK ==
  /\ service \in {"stopped", "loading", "tracking"}
  /\ troubles \in Nat /\ late \in BOOLEAN

AInv == AlertsOK /\ MarkIsHonest /\ EntryIsHeard /\ ClockOK

-----------------------------------------------------------------------------
(* One fix, as the detector's contract has it. *)
Opening ==
  /\ kind # "InZone" /\ kind' = "InZone" /\ lastEnd' = lastEnd
  /\ kind = "Outside" => candidate # Nowhere \/ offered

Ending(t) ==
  /\ kind = "InZone" /\ kind' = "Exiting"
  /\ zone' = zone /\ entry' = entry /\ lastEnd' = t /\ t >= entry

Staying ==
  /\ kind = "InZone" /\ kind' = "InZone"
  /\ zone' = zone /\ entry' = entry /\ lastEnd' = lastEnd

Idling ==
  /\ kind # "InZone" /\ kind' \in {"Outside", "Unmeasured"}
  /\ lastEnd' = lastEnd

LEMMA OpenedFacts ==
  ASSUME ContractOK, NEW z \in Zones, NEW since \in Nat, since >= lastEnd,
         kind # "InZone", Opened(z, since)
  PROVE  ContractOK' /\ kind' = "InZone" /\ lastEnd' = lastEnd
BY DEF ContractOK, Opened

LEMMA DetectFacts ==
  ASSUME ContractOK, NEW t \in Nat, Detect(t)
  PROVE  ContractOK' /\ (Opening \/ Ending(t) \/ Staying \/ Idling)
<1>1. candidate # Nowhere =>
        /\ kind = "Outside" /\ candidate.zone \in Zones
        /\ candidate.since \in Nat /\ candidate.since >= lastEnd
  BY DEF ContractOK, Candidate
<1>2. CASE Confirm
  BY <1>1, <1>2, OpenedFacts DEF Confirm, Opening
<1>3. CASE Join
  BY <1>3 DEF Join, ContractOK, Idling
<1>4. CASE Finish(t)
  <2>1. candidate = Nowhere
    BY <1>1, <1>4 DEF Finish
  <2>2. QED BY <1>4, <2>1 DEF Finish, ContractOK, Ending
<1>5. ASSUME NEW z \in Zones, HandOver(z, t)
      PROVE  ContractOK' /\ Opening
  BY <1>5, OpenedFacts DEF HandOver, Free, Opening
<1>6. CASE candidate # Nowhere /\ HandOver(candidate.zone, candidate.since)
  BY <1>1, <1>6, OpenedFacts DEF HandOver, Opening
<1>7. ASSUME NEW c \in {Nowhere, candidate}
                 \cup [zone : Zones, since : {t}, witnessed : BOOLEAN],
             NEW o \in BOOLEAN, Look(c, o)
      PROVE  ContractOK' /\ Idling
  <2>1. c \in Candidate \cup {Nowhere}
    BY DEF ContractOK, Candidate
  <2>2. c # Nowhere => c.since >= lastEnd
    BY <1>1, <1>7 DEF Look
  <2>3. /\ kind # "InZone" /\ kind' = "Outside" /\ lastEnd' = lastEnd
        /\ candidate' = c /\ offered' = o
    BY <1>7 DEF Look
  <2>4. QED BY <2>1, <2>2, <2>3 DEF ContractOK, Idling
<1>8. CASE kind \in {"InZone", "Unmeasured"} /\ UNCHANGED tvars
  BY <1>8 DEF tvars, ContractOK, Staying, Idling
<1>9. QED BY <1>2, <1>3, <1>4, <1>5, <1>6, <1>7, <1>8 DEF Detect

-----------------------------------------------------------------------------
(* A fix preserves what is known of the history. *)
LEMMA RecordStep ==
  ASSUME HInv, NEW t \in Nat, Detect(t), Record(t),
         UNCHANGED <<setting, rows>>, now' \in Nat
  PROVE  HInv'
<1>1. ContractOK' /\ (Opening \/ Ending(t) \/ Staying \/ Idling)
  BY DetectFacts DEF HInv
<1>2. capture # Nowhere => ~Opening
  BY DEF HInv, BufferOK, Opening
<1>3. kind = "InZone" => zone \in Zones /\ entry \in Nat /\ entry >= lastEnd
  BY DEF HInv, ContractOK
<1> DEFINE row == [zone |-> zone, entry |-> entry, exit |-> t]
<1>4. CASE Ending(t)
  <2>1. row \in Row
    BY <1>3, <1>4 DEF Ending, Row
  <2>2. finished' = finished \cup {row}
    BY <1>4 DEF Record, Ending
  <2>3. /\ capture' = Nowhere
        /\ inserting' \subseteq inserting \cup {row}
        /\ skipped' \subseteq skipped \cup {row}
    <3>1. capture # Nowhere => capture = [zone |-> zone, entry |-> entry]
      BY <1>4 DEF HInv, BufferOK, Ending
    <3>2. CASE ~recordingEnabled \/ capture = Nowhere
      BY <1>4, <3>2 DEF Record, Ending, Cleared
    <3>3. CASE recordingEnabled /\ capture # Nowhere
      <4>1. capture' = Nowhere
            /\ (Finalize(t) \/ UNCHANGED <<inserting, skipped>>)
        BY <1>4, <3>3 DEF Record, Ending, Cleared
      <4>2. QED BY <3>1, <3>3, <4>1 DEF Finalize
    <3>4. QED BY <3>2, <3>3
  <2>4. HistoryOK'
    BY <2>1, <2>2, <2>3 DEF HInv, HistoryOK, setting
  <2>5. BufferOK' /\ RowsAreTraversals'
    BY <2>2, <2>3 DEF HInv, BufferOK, RowsAreTraversals
  <2>6. FinishedOK'
    <3>1. \A r \in finished : /\ r.entry \in Nat /\ r.exit \in Nat
                              /\ r.entry <= r.exit /\ r.exit <= lastEnd
      BY DEF HInv, HistoryOK, FinishedOK, Row
    <3>2. /\ row.entry = entry /\ row.exit = t /\ t >= entry
          /\ entry >= lastEnd /\ lastEnd' = t /\ entry \in Nat
          /\ lastEnd \in Nat
      BY <1>3, <1>4 DEF Ending, HInv, ContractOK
    <3> HIDE DEF row
    <3>3. \A r \in finished' : r.entry <= r.exit /\ r.exit <= lastEnd'
      BY <2>2, <3>1, <3>2
    <3>4. \A r, s \in finished' :
            r # s => r.exit <= s.entry \/ s.exit <= r.entry
      BY <2>2, <3>1, <3>2 DEF HInv, FinishedOK
    <3>5. QED BY <3>3, <3>4 DEF FinishedOK
  <2>7. QED BY <1>1, <2>4, <2>5, <2>6 DEF HInv
<1>5. CASE Opening \/ Staying \/ Idling
  <2>1. /\ finished' = finished /\ lastEnd' = lastEnd
        /\ inserting' = inserting /\ skipped' = skipped
    BY <1>5 DEF Record, Opening, Staying, Idling
  <2>2. capture' # Nowhere =>
          kind' = "InZone" /\ capture' = [zone |-> zone', entry |-> entry']
    <3>1. CASE kind' = "InZone"
      <4>1. capture # Nowhere =>
              capture = [zone |-> zone', entry |-> entry']
        BY <1>2, <1>5, <3>1 DEF HInv, BufferOK, Staying, Idling
      <4>2. QED BY <3>1, <4>1 DEF Record, Captured
    <3>2. CASE kind' # "InZone"
      BY <1>5, <3>2 DEF Record, Cleared, Opening, Staying, Idling
    <3>3. QED BY <3>1, <3>2
  <2>3. BufferOK'
    BY <2>2 DEF BufferOK
  <2>4. capture' \in [zone : Zones, entry : Nat] \cup {Nowhere}
    BY <1>1, <2>2 DEF ContractOK
  <2>5. HistoryOK'
    BY <2>1, <2>4 DEF HInv, HistoryOK, setting
  <2>6. FinishedOK' /\ RowsAreTraversals'
    BY <2>1 DEF HInv, FinishedOK, RowsAreTraversals
  <2>7. QED BY <1>1, <2>3, <2>5, <2>6 DEF HInv
<1>6. QED BY <1>1, <1>4, <1>5

(* A detector that is reset, or replaced, leaves a buffer nothing can use. *)
LEMMA ResetStep ==
  ASSUME HInv, Reset, UNCHANGED now, inserting' \subseteq inserting,
         UNCHANGED <<rows, finished, skipped>>,
         UNCHANGED <<retention, pruned, recordingEnabled, capture>>
           \/ HistoryDies
  PROVE  HInv'
<1>1. ContractOK'
  BY DEF HInv, ContractOK, Reset
<1>2. BufferOK'
  BY DEF HInv, BufferOK, Reset, HistoryDies
<1>3. HistoryOK'
  BY DEF HInv, HistoryOK, HistoryDies
<1>4. FinishedOK' /\ RowsAreTraversals'
  BY DEF HInv, FinishedOK, RowsAreTraversals, Reset
<1>5. QED BY <1>1, <1>2, <1>3, <1>4 DEF HInv

-----------------------------------------------------------------------------
LEMMA InitHInv == Init => HInv
<1> SUFFICES ASSUME Init PROVE HInv
  OBVIOUS
<1>1. HistoryOK
  BY DEF Init, HistoryInit, HistoryOK, Retentions
<1>2. ContractOK
  BY DEF Init, TInit, ContractOK
<1>3. BufferOK /\ FinishedOK /\ RowsAreTraversals
  BY DEF Init, HistoryInit, BufferOK, FinishedOK, RowsAreTraversals
<1>4. QED BY <1>1, <1>2, <1>3 DEF HInv, Init

(* Only what the predicates read need stay the same. *)
LEMMA HInvUnchanged ==
  ASSUME HInv, UNCHANGED <<tvars, hvars, now>>
  PROVE  HInv'
BY DEF HInv, HistoryOK, ContractOK, BufferOK, FinishedOK, RowsAreTraversals,
       tvars, hvars, setting, buffer

(* The collectors and the inserts move rows, and open no buffer. *)
LEMMA BookkeepingStep ==
  ASSUME HInv, UNCHANGED <<tvars, now>>,
         MirrorRetention \/ Prune \/ Insert \/ ChangeRetention
  PROVE  HInv'
<1>1. UNCHANGED <<capture, finished, skipped>>
  BY DEF MirrorRetention, Prune, Insert, ChangeRetention, buffer
<1>2. inserting' \cup rows' \subseteq inserting \cup rows
  <2>1. CASE Insert
    <3>1. PICK row \in inserting :
            /\ rows' = {old \in rows : RowId(old) # RowId(row)} \cup {row}
            /\ inserting' = inserting \ {row}
      BY <2>1 DEF Insert
    <3>2. QED BY <3>1
  <2>2. CASE MirrorRetention \/ Prune \/ ChangeRetention
    BY <2>2 DEF MirrorRetention, Prune, ChangeRetention, buffer
  <2>3. QED BY <2>1, <2>2
<1>3. /\ retention' \in Retentions /\ pruned' \in Retentions \cup {Nowhere}
      /\ recordingEnabled' \in BOOLEAN
  BY DEF HInv, HistoryOK, MirrorRetention, Prune, Insert,
         ChangeRetention, setting
<1>4. HistoryOK'
  BY <1>1, <1>2, <1>3 DEF HInv, HistoryOK
<1>5. ContractOK' /\ BufferOK' /\ FinishedOK'
  BY <1>1 DEF HInv, ContractOK, BufferOK, FinishedOK, tvars
<1>6. RowsAreTraversals'
  BY <1>1, <1>2 DEF HInv, RowsAreTraversals
<1>7. QED BY <1>4, <1>5, <1>6 DEF HInv

LEMMA HInvStep == HInv /\ [Next]_vars => HInv'
<1> SUFFICES ASSUME HInv, [Next]_vars PROVE HInv'
  OBVIOUS
<1>1. CASE OnLocation
  <2>1. PICK gap \in Gaps, audible \in BOOLEAN :
          /\ now' = now + gap
          /\ Detect(now') /\ Announce(now', audible) /\ Record(now')
    BY <1>1 DEF OnLocation
  <2>2. now' \in Nat
    BY <2>1, GapsAssumption DEF HInv
  <2>3. UNCHANGED <<setting, rows>>
    BY <1>1 DEF OnLocation
  <2>4. QED BY <2>1, <2>2, <2>3, RecordStep
<1>2. CASE OnStartCommand \/ TtsInitialized \/ Announcing
  BY <1>2, HInvUnchanged DEF OnStartCommand, TtsInitialized, Announcing
<1>3. CASE ZonesLoaded \/ ZonesChanged \/ OnDestroy
  BY <1>3, ResetStep
     DEF ZonesLoaded, ZonesChanged, OnDestroy, hvars, setting, buffer
<1>4. CASE ProcessDies
  <2>1. inserting' \subseteq inserting /\ UNCHANGED <<rows, finished, skipped>>
    BY <1>4 DEF ProcessDies, HistoryDies
  <2>2. QED BY <1>4, <2>1, ResetStep DEF ProcessDies
<1>5. CASE SettingChanges
  BY <1>5, BookkeepingStep DEF SettingChanges
<1>6. CASE Bookkeeping
  BY <1>6, BookkeepingStep DEF Bookkeeping
<1>7. CASE UNCHANGED vars
  BY <1>7, HInvUnchanged DEF vars
<1>8. QED BY <1>1, <1>2, <1>3, <1>4, <1>5, <1>6, <1>7 DEF Next

LEMMA HInvHolds == Spec => []HInv
<1>1. Init => HInv
  BY InitHInv
<1>2. HInv /\ [Next]_vars => HInv'
  BY HInvStep
<1>3. QED BY <1>1, <1>2, PTL DEF Spec

(* A row never lends the entry time of one traversal to another, over any
   number of service restarts, catalog and retention changes
   (HistoryRecorder.kt, lines 88-120).                                     *)
THEOREM RowsAreTraversalsHolds == Spec => []RowsAreTraversals
<1>1. HInv => RowsAreTraversals
  BY DEF HInv
<1>2. QED BY <1>1, HInvHolds, PTL

(* Two rows share no time, so none replaces another's by its id
   (HistoryRecorder.kt, lines 142-144).                                    *)
THEOREM RowsDisjointHolds == Spec => []RowsDisjoint
<1>1. HInv => RowsDisjoint
  BY DEF HInv, RowsAreTraversals, FinishedOK, RowsDisjoint
<1>2. QED BY <1>1, HInvHolds, PTL

-----------------------------------------------------------------------------
(* The alerts. *)
LEMMA InitAInv == Init => AInv
<1> SUFFICES ASSUME Init PROVE AInv
  OBVIOUS
<1>1. AlertsOK
  BY DEF Init, AlertsInit, AlertsOK, Times
<1>2. MarkIsHonest /\ EntryIsHeard /\ ClockOK
  BY DEF Init, AlertsInit, MarkIsHonest, EntryIsHeard, ClockOK
<1>3. QED BY <1>1, <1>2 DEF AInv

LEMMA AInvUnchanged ==
  ASSUME AInv, UNCHANGED <<kind, zone, now, jobs, provisional, lastEntryTime,
                           owed, heard, dropped, lastSaid>>,
         isInitialized' \in BOOLEAN
  PROVE  AInv'
BY DEF AInv, AlertsOK, MarkIsHonest, EntryIsHeard, ClockOK

(* A detector reset, a shutdown and a crash leave nothing owed. *)
LEMMA NothingOwedStep ==
  ASSUME AInv, UNCHANGED <<now, heard>>, kind' = "Outside",
         DetectorReplaced \/ ShutdownAlerts \/ AlertsDie
  PROVE  AInv'
<1>1. AlertsOK'
  BY DEF AInv, AlertsOK, Times, DetectorReplaced, ShutdownAlerts, AlertsDie
<1>2. EntryIsHeard'
  BY DEF EntryIsHeard
<1>3. MarkIsHonest' /\ ClockOK'
  BY DEF AInv, MarkIsHonest, ClockOK, DetectorReplaced, ShutdownAlerts,
         AlertsDie
<1>4. QED BY <1>1, <1>2, <1>3 DEF AInv

(* What a fix begins is a job of that fix; one that opens a zone aloud begins
   the announcement of its entry.                                          *)
LEMMA AnnouncementFacts ==
  ASSUME ContractOK, ContractOK', AlertsOK, NEW t \in Nat,
         kind = "InZone" /\ kind' = "Exiting" => zone' = zone
  PROVE  /\ \A j \in Announcements(t) : j \in Job /\ j.at = t
         /\ kind # "InZone" /\ kind' = "InZone" =>
              \A j \in Announcements(t) : j.zone = zone' /\ j.says # "exit"
<1>1. NewCandidate => candidate'.zone \in Zones /\ kind' = "Outside"
  BY DEF NewCandidate, ContractOK, Candidate
<1>2. kind' = "InZone" => zone' \in Zones
  BY DEF ContractOK
<1>3. kind = "InZone" => zone \in Zones /\ entry \in Nat
  BY DEF ContractOK
<1>4. CASE NewCandidate /\ ~IsAlreadyAnnounced(candidate'.zone, t)
  <2>1. Announcements(t) = Start("provisional", candidate'.zone, t, Never)
    BY <1>4 DEF Announcements
  <2>2. QED BY <1>1, <1>4, <2>1 DEF Start, Job, Times
<1>5. CASE ~(NewCandidate /\ ~IsAlreadyAnnounced(candidate'.zone, t))
  <2>1. CASE kind = "Outside" /\ kind' = "InZone"
    <3>1. Announcements(t) = Start("enter", zone', t, Never)
      BY <1>5, <2>1 DEF Announcements
    <3>2. QED BY <1>2, <2>1, <3>1 DEF Start, Job, Times
  <2>2. CASE kind = "Exiting" /\ kind' = "InZone" /\ zone # zone'
    <3>1. Announcements(t) = Start("chain", zone', t, Never)
      BY <1>5, <2>2 DEF Announcements
    <3>2. QED BY <1>2, <2>2, <3>1 DEF Start, Job, Times
  <2>3. CASE kind = "InZone" /\ kind' = "Exiting"
    <3>1. Announcements(t) =
            Start("exit", zone', t, IF owed = Never THEN Never ELSE entry)
      BY <1>5, <2>3 DEF Announcements
    <3>2. (IF owed = Never THEN Never ELSE entry) \in Times
      BY <1>3, <2>3 DEF Times
    <3>3. zone' \in Zones
      BY <1>3, <2>3
    <3>4. QED BY <2>3, <3>1, <3>2, <3>3 DEF Start, Job
  <2>4. CASE /\ ~(kind = "Outside" /\ kind' = "InZone")
             /\ ~(kind = "Exiting" /\ kind' = "InZone" /\ zone # zone')
             /\ ~(kind = "InZone" /\ kind' = "Exiting")
    BY <1>5, <2>4 DEF Announcements
  <2>5. QED BY <2>1, <2>2, <2>3, <2>4
<1>6. QED BY <1>4, <1>5

(* A fix: what is owed from now on has its announcement under way. *)
LEMMA FixStep ==
  ASSUME HInv, AInv, NEW t \in Nat, t >= now, now' = t, Detect(t),
         NEW audible \in BOOLEAN, Announce(t, audible)
  PROVE  AInv'
<1> DEFINE begun == Announcements(t)
<1>1. /\ ContractOK /\ ContractOK' /\ now \in Nat
      /\ kind = "InZone" /\ kind' \in {"InZone", "Exiting"} => zone' = zone
  BY DetectFacts DEF HInv, Opening, Ending, Staying, Idling
<1>2. /\ \A j \in begun : j \in Job /\ j.at = t
      /\ kind # "InZone" /\ kind' = "InZone" =>
           \A j \in begun : j.zone = zone' /\ j.says # "exit"
  BY <1>1, AnnouncementFacts DEF AInv
<1>3. /\ jobs' = IF audible THEN jobs \cup begun ELSE jobs
      /\ audible => begun # {}
      /\ owed' = IF kind' # "InZone" THEN Never
                 ELSE IF kind = "InZone" THEN owed
                 ELSE IF audible THEN t ELSE Never
      /\ lastSaid' \in {Nowhere, lastSaid}
      /\ UNCHANGED <<isInitialized, provisional, lastEntryTime, heard, dropped>>
  BY DEF Announce
<1> HIDE DEF begun
<1>4. AlertsOK'
  <2>1. jobs' \subseteq Job
    BY <1>2, <1>3 DEF AInv, AlertsOK
  <2>2. owed' \in Times
    BY <1>3 DEF AInv, AlertsOK, Times
  <2>3. QED BY <1>3, <2>1, <2>2 DEF AInv, AlertsOK
<1>5. MarkIsHonest'
  BY <1>3 DEF AInv, MarkIsHonest
<1>6. EntryIsHeard'
  <2>1. CASE kind' # "InZone"
    BY <2>1 DEF EntryIsHeard
  <2>2. CASE kind' = "InZone" /\ kind = "InZone"
    <3>1. zone' = zone /\ owed' = owed /\ jobs \subseteq jobs'
      BY <1>1, <1>3, <2>2
    <3>2. QED BY <1>3, <2>2, <3>1 DEF AInv, EntryIsHeard
  <2>3. CASE kind' = "InZone" /\ kind # "InZone"
    <3>1. CASE ~audible
      BY <1>3, <2>3, <3>1 DEF EntryIsHeard
    <3>2. CASE audible
      <4>1. \E j \in jobs' : j.zone = zone' /\ j.says # "exit"
        BY <1>2, <1>3, <2>3, <3>2
      <4>2. QED BY <4>1 DEF EntryIsHeard
    <3>3. QED BY <3>1, <3>2
  <2>4. QED BY <2>1, <2>2, <2>3
<1>7. ClockOK'
  <2>1. \A j \in jobs : j.at \in Nat /\ j.at <= t
    BY <1>1 DEF AInv, AlertsOK, ClockOK, Job
  <2>2. \A j \in jobs' : j.at <= t
    BY <1>2, <1>3, <2>1
  <2>3. owed' # Never => owed' <= t
    BY <1>1, <1>3 DEF AInv, AlertsOK, ClockOK, Times
  <2>4. provisional # Nowhere => provisional.at <= t
    BY <1>1 DEF AInv, AlertsOK, ClockOK
  <2>5. QED BY <1>3, <2>2, <2>3, <2>4 DEF ClockOK
<1>8. QED BY <1>4, <1>5, <1>6, <1>7 DEF AInv

(* A coroutine that resumes marks, skips or goes on. *)
LEMMA ResumeStep ==
  ASSUME HInv, AInv, NEW j \in jobs, Resume(j, now),
         UNCHANGED <<kind, zone, now>>
  PROVE  AInv'
<1> DEFINE next == [j EXCEPT !.stage = "message"]
<1>1. /\ j \in Job /\ j.stage = "settings" /\ j.zone \in Zones /\ now \in Nat
      /\ j.at \in Nat /\ j.at <= now
  BY DEF HInv, AInv, AlertsOK, ClockOK, Job, Resume
<1>2. /\ next \in Job /\ next.zone = j.zone /\ next.says = j.says
      /\ next.at = j.at /\ next.stage = "message"
  BY <1>1 DEF Job
<1>3. /\ lastEntryTime' \in {lastEntryTime, now, j.at}
      /\ UNCHANGED <<isInitialized, owed, heard, dropped, lastSaid>>
  BY DEF Resume, ProvisionalMarks, EnterChecks, ChainEnters, ExitChecks
<1>4. \/ /\ jobs' = (jobs \ {j}) \cup {next}
         /\ \/ /\ provisional' = [zone |-> j.zone, at |-> j.at]
               /\ j.says = "provisional"
            \/ provisional' \in {provisional, Nowhere}
      \/ /\ jobs' = jobs \ {j} /\ j.says = "enter"
         /\ IsAlreadyAnnounced(j.zone, now) /\ provisional' = Nowhere
      \/ /\ jobs' = jobs \ {j} /\ j.says = "exit"
         /\ provisional' = provisional
  <2>1. CASE ProvisionalMarks(j)
    BY <2>1 DEF ProvisionalMarks, Going
  <2>2. CASE EnterChecks(j, now)
    BY <2>2 DEF EnterChecks, Going, Gone
  <2>3. CASE ChainEnters(j, now)
    BY <2>3 DEF ChainEnters, Going
  <2>4. CASE ExitChecks(j, now)
    BY <2>4 DEF ExitChecks, Going, Gone
  <2>5. QED BY <2>1, <2>2, <2>3, <2>4 DEF Resume
<1> HIDE DEF next
<1>5. jobs' \subseteq (jobs \ {j}) \cup {next}
  BY <1>4
<1>6. AlertsOK'
  <2>1. provisional' \in [zone : Zones, at : Nat] \cup {Nowhere}
    BY <1>1, <1>4 DEF AInv, AlertsOK
  <2>2. jobs' \subseteq Job /\ lastEntryTime' \in Times
    BY <1>1, <1>2, <1>3, <1>5 DEF AInv, AlertsOK, Times
  <2>3. QED BY <1>3, <2>1, <2>2 DEF AInv, AlertsOK
<1>7. ClockOK'
  <2>1. \A i \in jobs' : i.at <= now
    BY <1>1, <1>2, <1>5 DEF AInv, ClockOK
  <2>2. provisional' # Nowhere => provisional'.at <= now
    BY <1>1, <1>4 DEF AInv, ClockOK
  <2>3. QED BY <1>3, <2>1, <2>2 DEF AInv, ClockOK
<1>8. \A i \in jobs : i.stage = "message" => i \in jobs'
  BY <1>1, <1>4
<1>9. MarkIsHonest'
  <2>1. CASE provisional' = Nowhere
    BY <2>1 DEF MarkIsHonest
  <2>2. CASE provisional' = provisional
    BY <1>3, <1>8, <2>2 DEF AInv, MarkIsHonest
  <2>3. CASE /\ provisional' = [zone |-> j.zone, at |-> j.at]
             /\ j.says = "provisional" /\ next \in jobs'
    BY <1>2, <2>3 DEF MarkIsHonest
  <2>4. QED BY <1>4, <2>1, <2>2, <2>3
<1>10. EntryIsHeard'
  <2> SUFFICES ASSUME kind = "InZone", owed # Never, zone \notin dropped,
                      \A i \in jobs' : i.zone = zone => i.says = "exit"
               PROVE  heard[zone] # Never
                      /\ heard[zone] > owed - PROVISIONAL_REPEAT_WINDOW
    BY <1>3 DEF EntryIsHeard
  <2>1. CASE \A i \in jobs : i.zone = zone => i.says = "exit"
    BY <2>1 DEF AInv, EntryIsHeard
  <2>2. CASE \E i \in jobs : i.zone = zone /\ i.says # "exit"
    <3>1. /\ j.zone = zone /\ j.says = "enter"
          /\ IsAlreadyAnnounced(j.zone, now)
      BY <1>2, <1>4, <2>2
    <3>2. /\ provisional # Nowhere /\ provisional.zone = zone
          /\ now - provisional.at < PROVISIONAL_REPEAT_WINDOW
      BY <3>1 DEF IsAlreadyAnnounced
    <3>3. ~\E i \in jobs : /\ i.says = "provisional" /\ i.stage = "message"
                           /\ i.zone = zone
      BY <1>8
    <3>4. heard[zone] # Never /\ heard[zone] >= provisional.at
      BY <3>2, <3>3 DEF AInv, MarkIsHonest
    <3>5. /\ provisional.at \in Nat /\ heard[zone] \in Nat /\ owed \in Nat
          /\ owed <= now /\ zone \in Zones
      BY <1>1, <3>1, <3>2, <3>4 DEF AInv, AlertsOK, ClockOK, Times
    <3>6. QED BY <1>1, <3>2, <3>4, <3>5, WindowsAssumption
  <2>3. QED BY <2>1, <2>2
<1>11. QED BY <1>6, <1>7, <1>9, <1>10 DEF AInv

(* A coroutine that speaks: its zone is heard now, or its line is dropped. *)
LEMMA SpeakStep ==
  ASSUME HInv, AInv, NEW j \in jobs, SpeakMessage(j, now),
         UNCHANGED <<kind, zone, now>>
  PROVE  AInv'
<1>1. /\ j \in Job /\ j.zone \in Zones /\ now \in Nat /\ jobs' = jobs \ {j}
      /\ provisional' \in {provisional, Nowhere}
      /\ UNCHANGED <<isInitialized, lastEntryTime, owed>>
  BY DEF HInv, AInv, AlertsOK, Job, SpeakMessage, Gone
<1>2. \/ j.says = "exit" /\ UNCHANGED <<heard, dropped, lastSaid>>
      \/ /\ j.says # "exit" /\ heard' = [heard EXCEPT ![j.zone] = now]
         /\ dropped' = dropped \ {j.zone} /\ lastSaid' = j.zone
      \/ /\ j.says # "exit" /\ dropped' = dropped \cup {j.zone}
         /\ UNCHANGED <<heard, lastSaid>>
  BY DEF SpeakMessage
<1>3. AlertsOK'
  <2>1. heard' \in [Zones -> Times] /\ dropped' \subseteq Zones
        /\ lastSaid' \in Zones \cup {Nowhere}
    BY <1>1, <1>2 DEF AInv, AlertsOK, Times
  <2>2. QED BY <1>1, <2>1 DEF AInv, AlertsOK
<1>4. ClockOK'
  BY <1>1 DEF AInv, ClockOK
<1>5. \A z \in Zones :
        z # j.zone => heard'[z] = heard[z] /\ (z \in dropped' <=> z \in dropped)
  BY <1>1, <1>2 DEF AInv, AlertsOK
<1>6. \/ j.says = "exit" /\ UNCHANGED <<heard, dropped>>
      \/ j.says # "exit" /\ j.zone \in dropped'
      \/ j.says # "exit" /\ heard'[j.zone] = now
  BY <1>1, <1>2 DEF AInv, AlertsOK
<1>7. MarkIsHonest'
  <2> SUFFICES ASSUME provisional' # Nowhere
               PROVE  LET z == provisional.zone
                      IN \/ z \in dropped'
                         \/ \E i \in jobs' : /\ i.says = "provisional"
                                             /\ i.stage = "message"
                                             /\ i.zone = z
                         \/ /\ heard'[z] # Never
                            /\ heard'[z] >= provisional.at
    BY <1>1 DEF MarkIsHonest
  <2>1. provisional.zone \in Zones /\ provisional.at <= now
    BY <1>1 DEF AInv, AlertsOK, ClockOK
  <2>2. CASE j.says = "exit" \/ provisional.zone # j.zone
    BY <1>1, <1>5, <1>6, <2>1, <2>2 DEF AInv, MarkIsHonest
  <2>3. CASE j.says # "exit" /\ provisional.zone = j.zone
    BY <1>1, <1>6, <2>1, <2>3, NowhereAssumption
  <2>4. QED BY <2>2, <2>3
<1>8. EntryIsHeard'
  <2> SUFFICES ASSUME kind = "InZone", owed # Never, zone \notin dropped',
                      \A i \in jobs' : i.zone = zone => i.says = "exit"
               PROVE  heard'[zone] # Never
                      /\ heard'[zone] > owed - PROVISIONAL_REPEAT_WINDOW
    BY <1>1 DEF EntryIsHeard
  <2>1. /\ zone \in Zones /\ owed \in Nat /\ owed <= now
    BY DEF HInv, ContractOK, AInv, AlertsOK, ClockOK, Times
  <2>2. CASE j.says = "exit" \/ zone # j.zone
    BY <1>1, <1>5, <1>6, <2>1, <2>2 DEF AInv, EntryIsHeard
  <2>3. CASE j.says # "exit" /\ zone = j.zone
    <3>1. heard'[zone] = now
      BY <1>6, <2>3
    <3>2. QED BY <1>1, <2>1, <3>1, NowhereAssumption, WindowsAssumption
  <2>4. QED BY <2>2, <2>3
<1>9. QED BY <1>3, <1>4, <1>7, <1>8 DEF AInv

LEMMA AInvStep == HInv /\ AInv /\ [Next]_vars => AInv'
<1> SUFFICES ASSUME HInv, AInv, [Next]_vars PROVE AInv'
  OBVIOUS
<1>1. CASE OnLocation
  <2>1. PICK gap \in Gaps, audible \in BOOLEAN :
          now' = now + gap /\ Detect(now') /\ Announce(now', audible)
    BY <1>1 DEF OnLocation
  <2>2. now' \in Nat /\ now' >= now
    BY <2>1, GapsAssumption DEF HInv
  <2>3. QED BY <2>1, <2>2, FixStep
<1>2. CASE OnStartCommand \/ SettingChanges \/ Bookkeeping
  BY <1>2, AInvUnchanged
     DEF OnStartCommand, SettingChanges, Bookkeeping, tvars, avars, AInv,
         AlertsOK
<1>3. CASE TtsInitialized
  BY <1>3, AInvUnchanged DEF TtsInitialized, EngineReady, tvars
<1>4. CASE ZonesLoaded \/ ZonesChanged \/ OnDestroy \/ ProcessDies
  BY <1>4, NothingOwedStep
     DEF ZonesLoaded, ZonesChanged, OnDestroy, ProcessDies, Reset,
         DetectorReplaced, ShutdownAlerts, AlertsDie
<1>5. CASE Announcing
  <2>1. PICK j \in jobs : Resume(j, now) \/ SpeakMessage(j, now)
    BY <1>5 DEF Announcing
  <2>2. UNCHANGED <<kind, zone, now>>
    BY <1>5 DEF Announcing, tvars
  <2>3. QED BY <2>1, <2>2, ResumeStep, SpeakStep
<1>6. CASE UNCHANGED vars
  BY <1>6, AInvUnchanged DEF vars, tvars, avars, AInv, AlertsOK
<1>7. QED BY <1>1, <1>2, <1>3, <1>4, <1>5, <1>6 DEF Next

LEMMA AInvHolds == Spec => []AInv
<1>1. Init => AInv
  BY InitAInv
<1>2. HInv /\ AInv /\ [Next]_vars => AInv'
  BY AInvStep
<1>3. QED BY <1>1, <1>2, HInvHolds, PTL DEF Spec

(* Inside a zone whose entry was to be announced the driver has heard it: the
   mark that silences the confirmed entry is honest across shutdowns, new
   detectors and coroutines in any order (AudioAlertManager.kt, lines 171-192
   and 226-240).                                                           *)
THEOREM EntryIsHeardHolds == Spec => []EntryIsHeard
<1>1. AInv => EntryIsHeard
  BY DEF AInv
<1>2. QED BY <1>1, AInvHolds, PTL

LEMMA RestStep == RestOK /\ [Next]_vars => RestOK'
<1> SUFFICES ASSUME RestOK, [Next]_vars PROVE RestOK'
  OBVIOUS
<1>1. late' \in BOOLEAN
  BY DEF RestOK, vars, Next, OnLocation, OnStartCommand, ZonesLoaded,
         ZonesChanged, TtsInitialized, OnDestroy, ProcessDies, SettingChanges,
         Announcing, Bookkeeping, Overtaken
<1>2. /\ troubles' \in {troubles, troubles + 1}
      /\ service' \in {service, "stopped", "loading", "tracking"}
  BY DEF vars, Next, OnLocation, OnStartCommand, ZonesLoaded, ZonesChanged,
         TtsInitialized, OnDestroy, ProcessDies, SettingChanges, Announcing,
         Bookkeeping, Troubled
<1>3. QED BY <1>1, <1>2 DEF RestOK

(* Every field of the recorder, the alerts and the service keeps its type. *)
THEOREM TypeOKHolds == Spec => []TypeOK
<1>1. Init => RestOK
  <2> SUFFICES ASSUME Init PROVE RestOK
    OBVIOUS
  <2>1. late = FALSE
    BY DEF Init
  <2>2. late \in BOOLEAN
    BY <2>1
  <2>3. service \in {"stopped", "loading", "tracking"} /\ troubles \in Nat
    BY DEF Init
  <2>4. QED BY <2>2, <2>3 DEF RestOK
<1>2. HInv /\ AInv /\ RestOK => TypeOK
  BY DEF HInv, AInv, RestOK, TypeOK
<1>3. QED BY <1>1, <1>2, RestStep, HInvHolds, AInvHolds, PTL DEF Spec

-----------------------------------------------------------------------------
(* Coroutines that finish in time, before the next fix (~late). *)

(* What dates an entry is never ahead of the fixes. *)
EntryTimesOK ==
  /\ candidate # Nowhere => candidate.since <= now
  /\ kind = "InZone" => entry <= now

(* There is at most one announcement under way, that of the latest fix. *)
OnTime ==
  ~late =>
    /\ \A i, j \in jobs : i = j
    /\ service # "tracking" => jobs = {}
    /\ \A j \in jobs :
         /\ j.at = now
         /\ j.says = "provisional" => kind = "Outside"
         /\ j.says \in {"enter", "chain"} => kind = "InZone"
         /\ j.says = "exit" => kind = "Exiting"

(* Inside a zone that was announced lastEntryTime is not before the entry, or
   is about to be set; so what passes the check at the exit was no transient
   for the recorder either.                                                *)
Marked ==
  ~late =>
    /\ kind = "InZone" /\ owed # Never =>
         \/ \E j \in jobs : j.says \in {"enter", "chain"}
                             /\ j.stage = "settings"
         \/ lastEntryTime # Never /\ lastEntryTime >= entry
    /\ \A j \in jobs : j.says = "exit" /\ j.since # Never =>
         IF j.stage = "settings"
         THEN lastEntryTime # Never /\ lastEntryTime >= j.since
         ELSE j.at - j.since >= TRANSIENT_EXIT_WINDOW

SkippedOK == \A r \in skipped : r.exit - r.entry < TRANSIENT_EXIT_WINDOW

(* Until a traversal is over the mark is that of the line said last, so what
   is about to be said is no repetition of it.                             *)
Said ==
  /\ lastSaid # Nowhere => isInitialized /\ heard[lastSaid] # Never
  /\ ~late =>
       /\ kind = "Exiting" => lastSaid = Nowhere
       /\ \A j \in jobs : j.says = "provisional" /\ j.stage = "message" =>
            provisional = [zone |-> j.zone, at |-> j.at]
       /\ \A j \in jobs :
            /\ j.zone = lastSaid /\ j.says # "exit"
            /\ j.says = "enter" => j.stage = "message"
            => now - heard[lastSaid] >= PROVISIONAL_REPEAT_WINDOW
       /\ /\ lastSaid # Nowhere
          /\ kind = "InZone" =>
               \E j \in jobs : j.says = "enter" /\ j.stage = "settings"
          => \/ provisional = [zone |-> lastSaid, at |-> heard[lastSaid]]
             \/ \E j \in jobs : j.says = "provisional" /\ j.stage = "message"

TInv == EntryTimesOK /\ OnTime /\ Marked /\ Said

LEMMA SkippedFix ==
  ASSUME SkippedOK, NEW t \in Nat, Finalize(t)
  PROVE  SkippedOK'
<1> DEFINE row == [zone |-> capture.zone, entry |-> capture.entry, exit |-> t]
<1>1. CASE t - capture.entry < TRANSIENT_EXIT_WINDOW
  <2>1. skipped' = skipped \cup {row}
    BY <1>1 DEF Finalize
  <2>2. row.exit - row.entry < TRANSIENT_EXIT_WINDOW
    BY <1>1
  <2> HIDE DEF row
  <2>3. QED BY <2>1, <2>2 DEF SkippedOK
<1>2. CASE ~(t - capture.entry < TRANSIENT_EXIT_WINDOW)
  <2>1. skipped' = skipped
    BY <1>2 DEF Finalize
  <2>2. QED BY <2>1 DEF SkippedOK
<1>3. QED BY <1>1, <1>2

LEMMA SkippedStep == HInv /\ SkippedOK /\ [Next]_vars => SkippedOK'
<1> SUFFICES ASSUME HInv, SkippedOK, [Next]_vars PROVE SkippedOK'
  OBVIOUS
<1>1. CASE OnLocation
  <2>1. now' \in Nat /\ Record(now')
    BY <1>1, GapsAssumption DEF OnLocation, HInv
  <2>2. skipped' = skipped \/ Finalize(now')
    BY <2>1 DEF Record
  <2>3. CASE skipped' = skipped
    BY <2>3 DEF SkippedOK
  <2>4. CASE Finalize(now')
    BY <2>1, <2>4, SkippedFix
  <2>5. QED BY <2>2, <2>3, <2>4
<1>2. CASE ~OnLocation
  <2>1. skipped' = skipped
    BY <1>2 DEF Next, vars, hvars, buffer, OnStartCommand, ZonesLoaded,
                ZonesChanged, TtsInitialized, OnDestroy, ProcessDies,
                HistoryDies, SettingChanges, ChangeRetention, Announcing,
                Bookkeeping, MirrorRetention, Prune, Insert
  <2>2. QED BY <2>1 DEF SkippedOK
<1>3. QED BY <1>1, <1>2

(* What a fix begins, and when. *)
LEMMA BegunFacts ==
  ASSUME ContractOK, ContractOK', AlertsOK, NEW t \in Nat,
         kind = "InZone" /\ kind' = "Exiting" => zone' = zone
  PROVE  /\ \A i, j \in Announcements(t) : i = j
         /\ \A j \in Announcements(t) :
              /\ j \in Job /\ j.at = t /\ j.stage = "settings"
              /\ j.says = "provisional" =>
                   kind' = "Outside" /\ ~IsAlreadyAnnounced(j.zone, t)
              /\ j.says = "enter" => kind = "Outside" /\ kind' = "InZone"
              /\ j.says = "chain" => kind = "Exiting" /\ kind' = "InZone"
              /\ j.says = "exit" =>
                   /\ kind = "InZone" /\ kind' = "Exiting"
                   /\ j.since = IF owed = Never THEN Never ELSE entry
         /\ kind # "InZone" /\ kind' = "InZone" =>
              \A j \in Announcements(t) : j.says \in {"enter", "chain"}
<1>1. NewCandidate => kind' = "Outside"
  BY DEF NewCandidate
<1>2. \A j \in Announcements(t) : j \in Job /\ j.at = t
  BY AnnouncementFacts
<1>3. \/ /\ Announcements(t) = Start("provisional", candidate'.zone, t, Never)
         /\ kind' = "Outside" /\ ~IsAlreadyAnnounced(candidate'.zone, t)
      \/ /\ Announcements(t) = Start("enter", zone', t, Never)
         /\ kind = "Outside" /\ kind' = "InZone"
      \/ /\ Announcements(t) = Start("chain", zone', t, Never)
         /\ kind = "Exiting" /\ kind' = "InZone"
      \/ /\ Announcements(t) = Start("exit", zone', t,
                                     IF owed = Never THEN Never ELSE entry)
         /\ kind = "InZone" /\ kind' = "Exiting"
      \/ Announcements(t) = {}
  BY <1>1 DEF Announcements
<1>4. QED BY <1>2, <1>3 DEF Start

-----------------------------------------------------------------------------
(* A fix dates an entry by its own time or by the candidate's. *)
LEMMA EntryTimesFix ==
  ASSUME ContractOK, EntryTimesOK, now \in Nat, NEW t \in Nat, t >= now,
         now' = t, Detect(t)
  PROVE  EntryTimesOK'
<1>1. candidate # Nowhere => candidate.since \in Nat
  BY DEF ContractOK, Candidate
<1>2. kind = "InZone" => entry \in Nat
  BY DEF ContractOK
<1>3. CASE Confirm
  BY <1>1, <1>3 DEF Confirm, Opened, EntryTimesOK
<1>4. CASE Join \/ Finish(t)
  BY <1>1, <1>4 DEF Join, Finish, EntryTimesOK
<1>5. ASSUME NEW z \in Zones, HandOver(z, t)
      PROVE  EntryTimesOK'
  BY <1>5 DEF HandOver, Opened, EntryTimesOK
<1>6. CASE candidate # Nowhere /\ HandOver(candidate.zone, candidate.since)
  BY <1>1, <1>6 DEF HandOver, Opened, EntryTimesOK
<1>7. ASSUME NEW c \in {Nowhere, candidate}
                 \cup [zone : Zones, since : {t}, witnessed : BOOLEAN],
             NEW o \in BOOLEAN, Look(c, o)
      PROVE  EntryTimesOK'
  <2>1. c # Nowhere => c.since <= t
    BY <1>1 DEF EntryTimesOK
  <2>2. QED BY <1>7, <2>1 DEF Look, EntryTimesOK
<1>8. CASE kind \in {"InZone", "Unmeasured"} /\ UNCHANGED tvars
  BY <1>1, <1>2, <1>8 DEF tvars, EntryTimesOK
<1>9. QED BY <1>3, <1>4, <1>5, <1>6, <1>7, <1>8 DEF Detect

(* A fix that finds nothing under way: what it begins is alone. *)
LEMMA FixInTime ==
  ASSUME HInv, AInv, TInv, NEW t \in Nat, t >= now, now' = t, Detect(t),
         NEW audible \in BOOLEAN, Announce(t, audible),
         service = "tracking", service' = service, Overtaken
  PROVE  TInv'
<1>1. EntryTimesOK'
  BY EntryTimesFix DEF HInv, TInv
<1>2. /\ ContractOK /\ ContractOK'
      /\ Opening \/ Ending(t) \/ Staying \/ Idling
      /\ kind = "InZone" /\ kind' = "Exiting" => zone' = zone
  BY DetectFacts DEF HInv, Ending, Opening, Staying, Idling
<1> DEFINE begun == Announcements(t)
<1>3. /\ \A i, j \in begun : i = j
      /\ \A j \in begun :
           /\ j \in Job /\ j.at = t /\ j.stage = "settings"
           /\ j.says = "provisional" =>
                kind' = "Outside" /\ ~IsAlreadyAnnounced(j.zone, t)
           /\ j.says = "enter" => kind = "Outside" /\ kind' = "InZone"
           /\ j.says = "chain" => kind = "Exiting" /\ kind' = "InZone"
           /\ j.says = "exit" =>
                /\ kind = "InZone" /\ kind' = "Exiting"
                /\ j.since = IF owed = Never THEN Never ELSE entry
      /\ kind # "InZone" /\ kind' = "InZone" =>
           \A j \in begun : j.says \in {"enter", "chain"}
  BY <1>2, BegunFacts DEF AInv
<1>4. /\ jobs' = IF audible THEN jobs \cup begun ELSE jobs
      /\ audible => begun # {}
      /\ owed' = IF kind' # "InZone" THEN Never
                 ELSE IF kind = "InZone" THEN owed
                 ELSE IF audible THEN t ELSE Never
      /\ lastSaid' = IF kind' = "Exiting" THEN Nowhere ELSE lastSaid
      /\ UNCHANGED <<isInitialized, provisional, lastEntryTime, heard, dropped>>
  BY DEF Announce
<1> HIDE DEF begun
<1>5. ~late' => /\ ~late /\ jobs = {} /\ jobs' \subseteq begun
                /\ audible => jobs' = begun
  BY <1>4 DEF Overtaken
<1>6. OnTime'
  BY <1>3, <1>5 DEF OnTime
<1>7. Marked'
  <2> SUFFICES ASSUME ~late' PROVE Marked'
    BY DEF Marked
  <2>1. ASSUME kind' = "InZone", owed' # Never
        PROVE  \/ \E j \in jobs' : /\ j.says \in {"enter", "chain"}
                                   /\ j.stage = "settings"
               \/ lastEntryTime' # Never /\ lastEntryTime' >= entry'
    <3>1. CASE kind = "InZone"
      <4>1. entry' = entry /\ owed' = owed
        BY <1>2, <1>4, <2>1, <3>1 DEF Staying, Ending, Opening, Idling
      <4>2. QED BY <1>4, <1>5, <2>1, <3>1, <4>1 DEF TInv, Marked
    <3>2. CASE kind # "InZone"
      BY <1>3, <1>4, <1>5, <2>1, <3>2
    <3>3. QED BY <3>1, <3>2
  <2>2. ASSUME NEW j \in jobs', j.says = "exit", j.since # Never
        PROVE  /\ j.stage = "settings"
               /\ lastEntryTime # Never /\ lastEntryTime >= j.since
    <3>1. j \in begun /\ kind = "InZone" /\ owed # Never /\ j.since = entry
      BY <1>3, <1>5, <2>2
    <3>2. QED BY <1>3, <1>5, <3>1 DEF TInv, Marked
  <2>3. QED BY <1>4, <2>1, <2>2 DEF Marked
<1>8. Said'
  <2>1. lastSaid' # Nowhere => isInitialized' /\ heard'[lastSaid'] # Never
    BY <1>4 DEF TInv, Said
  <2> SUFFICES ASSUME ~late' PROVE Said'
    BY <2>1 DEF Said
  <2>2. ~late /\ jobs = {} /\ jobs' \subseteq begun
    BY <1>5
  <2>3. ASSUME lastSaid' # Nowhere, kind # "InZone"
        PROVE  /\ lastSaid' = lastSaid /\ kind # "Exiting"
               /\ provisional = [zone |-> lastSaid, at |-> heard[lastSaid]]
    BY <1>4, <2>2, <2>3 DEF TInv, Said
  <2>4. ASSUME NEW j \in jobs', j.zone = lastSaid', j.says # "exit",
               j.says = "enter" => j.stage = "message"
        PROVE  now' - heard'[lastSaid'] >= PROVISIONAL_REPEAT_WINDOW
    <3>1. /\ j \in begun /\ j.zone \in Zones /\ j.says # "enter"
          /\ j.says \in {"provisional", "chain"}
      BY <1>3, <2>2, <2>4 DEF Job
    <3>2. kind # "InZone" /\ lastSaid' # Nowhere
      <4>1. j.says = "provisional" => kind' = "Outside"
        BY <1>3, <3>1
      <4>2. j.says = "chain" => kind = "Exiting"
        BY <1>3, <3>1
      <4>3. QED BY <1>2, <2>4, <3>1, <4>1, <4>2, NowhereAssumption
                DEF Opening, Ending, Staying, Idling
    <3>3. /\ provisional = [zone |-> lastSaid, at |-> heard[lastSaid]]
          /\ lastSaid' = lastSaid /\ kind # "Exiting"
      BY <2>3, <3>2
    <3>4. j.says = "provisional"
      BY <1>3, <3>1, <3>3
    <3>5. ~IsAlreadyAnnounced(lastSaid, t)
      BY <1>3, <2>4, <3>1, <3>3, <3>4
    <3>6. provisional # Nowhere /\ heard[lastSaid] \in Nat
      <4>1. lastSaid \in Zones /\ heard[lastSaid] \in Nat
        BY <1>4, <2>1, <3>2, <3>3 DEF AInv, AlertsOK, Times
      <4>2. QED BY <3>3, <4>1, NowhereAssumption
    <3>7. ~(t - heard[lastSaid] < PROVISIONAL_REPEAT_WINDOW)
      <4>1. provisional.zone = lastSaid /\ provisional.at = heard[lastSaid]
        BY <3>3
      <4>2. QED BY <3>5, <3>6, <4>1 DEF IsAlreadyAnnounced
    <3>8. heard[lastSaid] \in Nat
      BY <3>3, <3>6
    <3>9. QED BY <1>4, <3>3, <3>7, <3>8, WindowsAssumption
  <2>5. ASSUME lastSaid' # Nowhere,
               kind' = "InZone" =>
                 \E j \in jobs' : j.says = "enter" /\ j.stage = "settings"
        PROVE  provisional' = [zone |-> lastSaid', at |-> heard'[lastSaid']]
    <3>1. kind # "InZone"
      <4>1. kind' # "Exiting"
        BY <1>4, <2>5
      <4>2. kind' = "InZone" => kind = "Outside"
        BY <1>3, <2>2, <2>5
      <4>3. QED BY <1>2, <4>1, <4>2 DEF Ending, Staying, Opening, Idling
    <3>2. QED BY <1>4, <2>3, <2>5, <3>1
  <2>6. \A j \in jobs' : ~(j.says = "provisional" /\ j.stage = "message")
    BY <1>3, <2>2
  <2>7. kind' = "Exiting" => lastSaid' = Nowhere
    BY <1>4
  <2>8. QED BY <2>1, <2>4, <2>5, <2>6, <2>7 DEF Said
<1>9. QED BY <1>1, <1>6, <1>7, <1>8 DEF TInv

(* A coroutine that resumes is the only one. *)
LEMMA ResumeInTime ==
  ASSUME HInv, AInv, TInv, NEW j \in jobs, Resume(j, now),
         UNCHANGED <<tvars, service, now, late>>
  PROVE  TInv'
<1> DEFINE next == [j EXCEPT !.stage = "message"]
<1>1. /\ j \in Job /\ j.stage = "settings" /\ j.zone \in Zones /\ now \in Nat
      /\ kind = "InZone" => entry \in Nat
  BY DEF HInv, ContractOK, AInv, AlertsOK, Job, Resume
<1>2. /\ next \in Job /\ next.zone = j.zone /\ next.says = j.says
      /\ next.at = j.at /\ next.since = j.since /\ next.stage = "message"
  BY <1>1 DEF Job
<1>3. UNCHANGED <<kind, entry, candidate, now, late, service, isInitialized,
                  owed, heard, lastSaid>>
  BY DEF tvars, Resume
<1>4. EntryTimesOK'
  BY <1>3 DEF TInv, EntryTimesOK
<1>5. \/ /\ j.says = "provisional" /\ jobs' = (jobs \ {j}) \cup {next}
         /\ provisional' = [zone |-> j.zone, at |-> j.at]
      \/ /\ j.says = "enter" /\ lastEntryTime' = now
         /\ jobs' = (jobs \ {j}) \cup {next} /\ provisional' = provisional
         /\ ~IsAlreadyAnnounced(j.zone, now)
      \/ /\ j.says = "enter" /\ lastEntryTime' = now /\ jobs' = jobs \ {j}
      \/ /\ j.says = "chain" /\ lastEntryTime' = now
         /\ jobs' = (jobs \ {j}) \cup {next}
      \/ /\ j.says = "exit" /\ jobs' = (jobs \ {j}) \cup {next}
         /\ lastEntryTime' = lastEntryTime
         /\ lastEntryTime # Never =>
              ~(now - lastEntryTime < SUPPRESS_EXIT_WINDOW)
      \/ j.says = "exit" /\ jobs' = jobs \ {j}
  BY DEF Resume, ProvisionalMarks, EnterChecks, ChainEnters, ExitChecks,
         Going, Gone
<1> HIDE DEF next
<1>6. SUFFICES ASSUME ~late PROVE OnTime' /\ Marked' /\ Said'
  <2>1. late => OnTime' /\ Marked'
    BY <1>3 DEF OnTime, Marked
  <2>2. late => Said'
    BY <1>3 DEF TInv, Said
  <2>3. QED BY <1>4, <2>1, <2>2, <1>6 DEF TInv
<1>7. /\ jobs = {j} /\ jobs' \subseteq {next} /\ j.at = now
      /\ service = "tracking"
      /\ j.says = "provisional" => kind = "Outside"
      /\ j.says \in {"enter", "chain"} => kind = "InZone"
      /\ j.says = "exit" => kind = "Exiting"
  BY <1>5, <1>6 DEF TInv, OnTime
<1>8. OnTime'
  BY <1>2, <1>3, <1>7 DEF OnTime
<1>9. Marked'
  <2>1. ASSUME kind = "InZone", owed # Never
        PROVE  lastEntryTime' # Never /\ lastEntryTime' >= entry
    <3>1. lastEntryTime' = now
      BY <1>2, <1>5, <1>7, <2>1 DEF Job
    <3>2. QED BY <1>1, <2>1, <3>1, NowhereAssumption DEF TInv, EntryTimesOK
  <2>2. ASSUME next \in jobs', j.says = "exit", j.since # Never
        PROVE  now - j.since >= TRANSIENT_EXIT_WINDOW
    <3>1. lastEntryTime # Never /\ lastEntryTime >= j.since
      BY <1>1, <1>6, <2>2 DEF TInv, Marked
    <3>2. ~(now - lastEntryTime < SUPPRESS_EXIT_WINDOW)
      BY <1>5, <2>2, <3>1, <1>7
    <3>3. j.since \in Nat /\ lastEntryTime \in Nat
      BY <1>1, <2>2, <3>1 DEF Job, Times, AInv, AlertsOK
    <3>4. QED BY <1>1, <3>1, <3>2, <3>3, MirrorAssumption, WindowsAssumption,
                 WindowAssumption
  <2>3. \A i \in jobs' : i.says = "exit" /\ i.since # Never =>
          /\ i.stage = "message"
          /\ i.at - i.since >= TRANSIENT_EXIT_WINDOW
    BY <1>2, <1>7, <2>2
  <2>4. QED BY <1>3, <2>1, <2>3 DEF Marked
<1>10. Said'
  <2>1. /\ lastSaid # Nowhere => isInitialized /\ heard[lastSaid] # Never
        /\ kind = "Exiting" => lastSaid = Nowhere
    BY <1>6 DEF TInv, Said
  <2>2. ASSUME next \in jobs', j.says = "provisional"
        PROVE  provisional' = [zone |-> j.zone, at |-> j.at]
    BY <1>5, <2>2
  <2>3. ASSUME next \in jobs', j.zone = lastSaid, j.says # "exit"
        PROVE  now - heard[lastSaid] >= PROVISIONAL_REPEAT_WINDOW
    <3>1. CASE j.says # "enter"
      BY <1>6, <2>3, <3>1 DEF TInv, Said
    <3>2. CASE j.says = "enter"
      <4>1. lastSaid # Nowhere
        BY <1>1, <2>3, NowhereAssumption
      <4>2. provisional = [zone |-> lastSaid, at |-> heard[lastSaid]]
        <5>1. ~\E i \in jobs : i.says = "provisional" /\ i.stage = "message"
          BY <1>1, <1>7
        <5>2. QED BY <1>1, <1>6, <3>2, <4>1, <5>1 DEF TInv, Said
      <4>3. ~IsAlreadyAnnounced(lastSaid, now)
        BY <1>2, <1>5, <1>7, <2>3, <3>2
      <4>4. heard[lastSaid] \in Nat
        BY <2>1, <4>1 DEF AInv, AlertsOK, Times
      <4>5. /\ provisional.zone = lastSaid
            /\ provisional.at = heard[lastSaid]
            /\ provisional # Nowhere
        <5>1. lastSaid \in Zones
          BY <4>1 DEF AInv, AlertsOK
        <5>2. QED BY <4>2, <4>4, <5>1, NowhereAssumption
      <4>6. ~(now - heard[lastSaid] < PROVISIONAL_REPEAT_WINDOW)
        BY <4>3, <4>5 DEF IsAlreadyAnnounced
      <4>7. QED BY <1>1, <4>4, <4>6, WindowsAssumption
    <3>3. QED BY <3>1, <3>2
  <2>4. ASSUME lastSaid # Nowhere,
               kind = "InZone" =>
                 \E i \in jobs' : i.says = "enter" /\ i.stage = "settings"
        PROVE  \E i \in jobs' : i.says = "provisional" /\ i.stage = "message"
    <3>1. kind \notin {"InZone", "Exiting"}
      BY <1>2, <1>7, <2>1, <2>4
    <3>2. j.says = "provisional"
      BY <1>1, <1>7, <3>1 DEF Job
    <3>3. QED BY <1>2, <1>5, <3>2
  <2>5. \A i \in jobs' : i = next
    BY <1>7
  <2>6. QED BY <1>2, <1>3, <2>1, <2>2, <2>3, <2>4, <2>5 DEF Said
<1>11. QED BY <1>8, <1>9, <1>10

(* A coroutine that speaks leaves none behind. *)
LEMMA SpeakInTime ==
  ASSUME HInv, AInv, TInv, NEW j \in jobs, SpeakMessage(j, now),
         UNCHANGED <<tvars, service, now, late>>
  PROVE  TInv'
<1>1. /\ j \in Job /\ j.zone \in Zones /\ now \in Nat
      /\ j.stage = "message" /\ jobs' = jobs \ {j}
      /\ provisional' = IF j.says = "enter" THEN Nowhere ELSE provisional
      /\ UNCHANGED <<kind, entry, candidate, now, late, service, isInitialized,
                     owed, lastEntryTime>>
  BY DEF HInv, AInv, AlertsOK, Job, SpeakMessage, Gone, tvars
<1>2. \/ /\ j.says = "exit" \/ ~isInitialized
         /\ UNCHANGED <<heard, lastSaid>>
      \/ /\ j.says # "exit" /\ isInitialized
         /\ heard' = [heard EXCEPT ![j.zone] = now] /\ lastSaid' = j.zone
  BY DEF SpeakMessage
<1>3. EntryTimesOK'
  BY <1>1 DEF TInv, EntryTimesOK
<1>4. lastSaid' # Nowhere => isInitialized' /\ heard'[lastSaid'] # Never
  <2>1. CASE UNCHANGED <<heard, lastSaid>>
    BY <1>1, <2>1 DEF TInv, Said
  <2>2. CASE /\ j.says # "exit" /\ isInitialized
             /\ heard' = [heard EXCEPT ![j.zone] = now] /\ lastSaid' = j.zone
    <3>1. heard'[lastSaid'] = now
      BY <1>1, <2>2 DEF AInv, AlertsOK
    <3>2. QED BY <1>1, <2>2, <3>1, NowhereAssumption
  <2>3. QED BY <1>2, <2>1, <2>2
<1>5. SUFFICES ASSUME ~late PROVE OnTime' /\ Marked' /\ Said'
  <2>1. late => OnTime' /\ Marked' /\ Said'
    BY <1>1, <1>4 DEF OnTime, Marked, Said
  <2>2. QED BY <1>3, <1>5, <2>1 DEF TInv
<1>6. /\ jobs = {j} /\ jobs' = {} /\ j.at = now
      /\ j.says = "provisional" => kind = "Outside"
      /\ j.says \in {"enter", "chain"} => kind = "InZone"
      /\ j.says = "exit" => kind = "Exiting"
  BY <1>1, <1>5 DEF TInv, OnTime
<1>7. OnTime'
  BY <1>6 DEF OnTime
<1>8. Marked'
  BY <1>1, <1>5, <1>6 DEF TInv, Marked
<1>9. Said'
  <2>1. /\ kind = "Exiting" => lastSaid = Nowhere
        /\ lastSaid # Nowhere => isInitialized
    BY <1>5 DEF TInv, Said
  <2>2. CASE j.says = "exit" \/ ~isInitialized
    <3>1. lastSaid' = Nowhere
      BY <1>2, <1>6, <2>1, <2>2
    <3>2. QED BY <1>6, <3>1 DEF Said
  <2>3. CASE /\ j.says # "exit" /\ isInitialized
             /\ heard' = [heard EXCEPT ![j.zone] = now] /\ lastSaid' = j.zone
    <3>1. CASE kind = "InZone"
      BY <1>1, <1>4, <1>6, <3>1 DEF Said
    <3>2. CASE kind # "InZone"
      <4>1. j.says = "provisional" /\ kind = "Outside"
        BY <1>1, <1>6, <2>3, <3>2 DEF Job
      <4>2. provisional = [zone |-> j.zone, at |-> now]
        BY <1>1, <1>5, <1>6, <4>1 DEF TInv, Said
      <4>3. heard'[lastSaid'] = now
        BY <1>1, <2>3 DEF AInv, AlertsOK
      <4>4. provisional' = [zone |-> lastSaid', at |-> heard'[lastSaid']]
        BY <1>1, <2>3, <4>1, <4>2, <4>3
      <4>5. QED BY <1>1, <1>4, <1>6, <4>1, <4>4 DEF Said
    <3>3. QED BY <3>1, <3>2
  <2>4. QED BY <1>2, <2>2, <2>3
<1>10. QED BY <1>7, <1>8, <1>9

(* A detector that is reset or replaced leaves nothing under way in time. *)
LEMMA ResetInTime ==
  ASSUME TInv, Reset, now' = now, lastSaid' = Nowhere, owed' = Never,
         ~late' => jobs' = {}
  PROVE  TInv'
BY DEF TInv, EntryTimesOK, OnTime, Marked, Said, Reset

LEMMA TInvUnchanged ==
  ASSUME TInv, UNCHANGED <<tvars, service, now, late, jobs, provisional,
                           lastEntryTime, owed, heard, lastSaid>>,
         lastSaid # Nowhere => isInitialized'
  PROVE  TInv'
BY DEF TInv, EntryTimesOK, OnTime, Marked, Said, tvars

LEMMA TInvInit == Init => TInv /\ SkippedOK
BY DEF Init, TInit, HistoryInit, AlertsInit, TInv, EntryTimesOK, OnTime,
       Marked, Said, SkippedOK

LEMMA TInvStep == HInv /\ AInv /\ TInv /\ [Next]_vars => TInv'
<1> SUFFICES ASSUME HInv, AInv, TInv, [Next]_vars PROVE TInv'
  OBVIOUS
<1>1. CASE OnLocation
  <2>1. PICK gap \in Gaps, audible \in BOOLEAN :
          now' = now + gap /\ Detect(now') /\ Announce(now', audible)
    BY <1>1 DEF OnLocation
  <2>2. now' \in Nat /\ now' >= now
    BY <2>1, GapsAssumption DEF HInv
  <2>3. service = "tracking" /\ service' = service /\ Overtaken
    BY <1>1 DEF OnLocation
  <2>4. QED BY <2>1, <2>2, <2>3, FixInTime
<1>2. CASE OnStartCommand
  <2>1. UNCHANGED <<tvars, now, late, jobs, provisional, lastEntryTime,
                    owed, heard, lastSaid>>
    BY <1>2 DEF OnStartCommand, avars
  <2>2. lastSaid # Nowhere => isInitialized'
    BY <1>2 DEF OnStartCommand, avars, TInv, Said
  <2>3. service = "stopped" /\ service' = "loading"
    BY <1>2 DEF OnStartCommand
  <2>4. EntryTimesOK' /\ Marked' /\ Said'
    BY <2>1, <2>2 DEF TInv, EntryTimesOK, Marked, Said, tvars
  <2>5. OnTime'
    BY <2>1, <2>3 DEF TInv, OnTime, tvars
  <2>6. QED BY <2>4, <2>5 DEF TInv
<1>3. CASE TtsInitialized \/ SettingChanges \/ Bookkeeping
  <2>1. UNCHANGED <<tvars, now, late, service, jobs, provisional,
                    lastEntryTime, owed, heard, lastSaid>>
    BY <1>3 DEF TtsInitialized, EngineReady, SettingChanges, Bookkeeping, avars
  <2>2. isInitialized => isInitialized'
    BY <1>3 DEF TtsInitialized, EngineReady, SettingChanges, Bookkeeping, avars
  <2>3. QED BY <2>1, <2>2, TInvUnchanged DEF TInv, Said
<1>4. CASE ZonesLoaded \/ ZonesChanged \/ OnDestroy \/ ProcessDies
  <2>1. Reset /\ now' = now /\ lastSaid' = Nowhere /\ owed' = Never
    BY <1>4 DEF ZonesLoaded, ZonesChanged, OnDestroy, ProcessDies,
                DetectorReplaced, ShutdownAlerts, AlertsDie
  <2>2. ~late' => jobs' = {}
    BY <1>4 DEF ZonesLoaded, ZonesChanged, OnDestroy, ProcessDies, Overtaken,
                DetectorReplaced, ShutdownAlerts, AlertsDie, TInv, OnTime
  <2>3. QED BY <2>1, <2>2, ResetInTime
<1>5. CASE Announcing
  <2>1. PICK j \in jobs : Resume(j, now) \/ SpeakMessage(j, now)
    BY <1>5 DEF Announcing
  <2>2. UNCHANGED <<tvars, service, now, late>>
    BY <1>5 DEF Announcing
  <2>3. QED BY <2>1, <2>2, ResumeInTime, SpeakInTime
<1>6. CASE UNCHANGED vars
  BY <1>6, TInvUnchanged DEF vars, avars, TInv, Said
<1>7. QED BY <1>1, <1>2, <1>3, <1>4, <1>5, <1>6 DEF Next

LEMMA TInvHolds == Spec => [](TInv /\ SkippedOK)
<1>1. HInv /\ SkippedOK /\ [Next]_vars => SkippedOK'
  BY SkippedStep
<1>2. HInv /\ AInv /\ TInv /\ [Next]_vars => TInv'
  BY TInvStep
<1>3. QED BY <1>1, <1>2, TInvInit, HInvHolds, AInvHolds, PTL DEF Spec

(* A traversal the recorder skips as transient is never summed up to the
   driver, if its entry was announced and no coroutine ran late: the one clock
   starts no earlier than the other, and its window is no shorter
   (HistoryRecorder.kt, lines 132-134, 181-183; AudioAlertManager.kt, lines
   268-273).                                                               *)
THEOREM ExitMatchesHistoryHolds == Spec => []ExitMatchesHistory
<1>1. AInv /\ TInv /\ SkippedOK => ExitMatchesHistory
  <2> SUFFICES ASSUME AInv, TInv, SkippedOK, NEW j \in jobs,
                      j.says = "exit", j.stage = "message",
                      j.since # Never, ~late
               PROVE  [zone |-> j.zone, entry |-> j.since, exit |-> j.at]
                        \notin skipped
    BY DEF ExitMatchesHistory
  <2> DEFINE row == [zone |-> j.zone, entry |-> j.since, exit |-> j.at]
  <2>1. row.exit = j.at /\ row.entry = j.since
    OBVIOUS
  <2>2. j.at - j.since >= TRANSIENT_EXIT_WINDOW
    BY DEF TInv, Marked
  <2> HIDE DEF row
  <2>3. row \in skipped => j.at - j.since < TRANSIENT_EXIT_WINDOW
    BY <2>1 DEF SkippedOK
  <2>4. j.at \in Nat /\ j.since \in Nat
    BY DEF AInv, AlertsOK, Job, Times
  <2>5. row \notin skipped
    BY <2>2, <2>3, <2>4, WindowAssumption
  <2>6. QED BY <2>5 DEF row
<1>2. QED BY <1>1, AInvHolds, TInvHolds, PTL

(* Between two entry lines for one zone the repeat window passes, unless the
   driver heard something else or a coroutine ran late
   (AudioAlertManager.kt, lines 171-192 and 479-505).                      *)
THEOREM EntryNotRepeatedHolds == Spec => EntryNotRepeated
<1>1. TInv /\ [Next]_vars =>
        [\A j \in jobs : SaidAgain(j) /\ ~late /\ service # "stopped" =>
           now - heard[lastSaid] >= PROVISIONAL_REPEAT_WINDOW]_vars
  BY DEF TInv, Said, SaidAgain
<1>2. QED BY <1>1, TInvHolds, PTL DEF Spec, EntryNotRepeated

(* The service hands the detector's steps over as its contract allows them,
   and touches its state in no other way.                                  *)
THEOREM TrackingKeepsContract == Spec => TSpec
<1>1. Init => TInit /\ now = 0
  BY DEF Init
<1>2. HInv /\ [Next]_vars => [TNext]_<<tvars, now>>
  <2> SUFFICES ASSUME HInv, [Next]_vars PROVE [TNext]_<<tvars, now>>
    OBVIOUS
  <2>1. CASE OnLocation
    <3>1. now' \in Nat /\ now' >= now /\ Detect(now')
      BY <2>1, GapsAssumption DEF OnLocation, HInv
    <3>2. QED BY <3>1 DEF TNext
  <2>2. CASE ZonesLoaded \/ ZonesChanged \/ OnDestroy \/ ProcessDies
    BY <2>2 DEF ZonesLoaded, ZonesChanged, OnDestroy, ProcessDies, TNext
  <2>3. CASE \/ OnStartCommand \/ TtsInitialized \/ SettingChanges
             \/ Announcing \/ Bookkeeping \/ UNCHANGED vars
    BY <2>3 DEF OnStartCommand, TtsInitialized, SettingChanges, Announcing,
                Bookkeeping, vars
  <2>4. QED BY <2>1, <2>2, <2>3 DEF Next
<1>3. QED BY <1>1, <1>2, HInvHolds, PTL DEF Spec, TSpec
=============================================================================
