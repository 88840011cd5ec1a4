---------------------------- MODULE ZoneDetector ----------------------------
(***************************************************************************)
(* The average-speed-zone state machine (core/ZoneDetector.kt), together   *)
(* with the zone matching it calls (RoadMatcher.findMatchingZone) and the  *)
(* average it reports (AverageSpeedCalc.calculate).                        *)
(*                                                                         *)
(* Geometry is a table.  A place stands for a position and a course; the   *)
(* constants say, for each zone, how far the place is from the centerline, *)
(* where it projects along it, how far it is from the end camera and       *)
(* whether its course runs with the road there.  Distances are metres,     *)
(* times seconds, speeds metres per second.                                *)
(***************************************************************************)
EXTENDS Integers

CONSTANTS
  Zones, Places,
  None,            \* Kotlin's null
  Length,          \* zone -> arc length of its centerline
  DistanceM,       \* zone -> the official length, Zone.distanceM
  Band,            \* zone -> RoadMatcher.maxOnRoadDistanceM
  Dist,            \* zone -> place -> distance from the centerline
  Arc,             \* zone -> place -> arc length of the projection
  ToEnd,           \* zone -> place -> straight-line distance to zone.end
  Aligned,         \* zone -> the places whose course is within tolerance
  EndToStart,      \* zone -> zone -> distance from one's end to other's start
  Continues,       \* zone -> the zones whose start heading continues its end
  Speeds, Gaps,    \* readings, and times between fixes, that a drive can show
  MaxTime,         \* bound on the clock; no code counterpart
  START_WITNESS_ARC_M, EXIT_DISTANCE_M, STOP_SPEED, STOP_DURATION,
  GPS_DROPOUT, OFF_ROAD_EXIT_GRACE_FIXES, OFF_ROAD_HARD_M,
  ENTRY_CONFIRM_DISTANCE_M, ENTRY_CONFIRM_SHARE, ENTRY_CONFIRM_FIXES,
  ENTRY_CONFIRM_TIMEOUT, COLOCATED_CAMERA_M, COLOCATED_HANDOVER

Metres == [Places -> Nat]

ASSUME GeometryAssumption ==
  /\ Length \in [Zones -> Nat] /\ DistanceM \in [Zones -> Nat]
  /\ Band \in [Zones -> Nat]
  /\ Dist \in [Zones -> Metres] /\ Arc \in [Zones -> Metres]
  /\ ToEnd \in [Zones -> Metres]
  /\ \A z \in Zones, p \in Places : Arc[z][p] <= Length[z]
  /\ Aligned \in [Zones -> SUBSET Places]
  /\ EndToStart \in [Zones -> [Zones -> Nat]]
  /\ Continues \in [Zones -> SUBSET Zones]

ASSUME StreamAssumption ==
  /\ Speeds \subseteq Nat /\ Gaps \subseteq Nat /\ MaxTime \in Nat

ASSUME ThresholdAssumption ==
  /\ START_WITNESS_ARC_M \in Nat /\ EXIT_DISTANCE_M \in Nat
  /\ STOP_SPEED \in Nat /\ STOP_DURATION \in Nat /\ GPS_DROPOUT \in Nat
  /\ OFF_ROAD_EXIT_GRACE_FIXES \in Nat \ {0} /\ OFF_ROAD_HARD_M \in Nat
  /\ ENTRY_CONFIRM_DISTANCE_M \in Nat \ {0}
  /\ ENTRY_CONFIRM_SHARE \in Nat \ {0}  \* 1 / ENTRY_CONFIRM_MAX_FRACTION
  /\ ENTRY_CONFIRM_FIXES \in Nat \ {0, 1} /\ ENTRY_CONFIRM_TIMEOUT \in Nat
  /\ COLOCATED_CAMERA_M \in Nat /\ COLOCATED_HANDOVER \in Nat

VARIABLES
  state,         \* the ZoneState handed to the consumers
  lastPoint,     \* the previous fix, or None
  track,         \* the traversal bookkeeping resetTrackingState clears
  pendingEntry,  \* the half-confirmed candidate, or None
  handover,      \* the offer a finished zone leaves, or None
  now,           \* environment: timestamp of the latest fix
  lastExit       \* history: how the latest measured traversal ended, or None

vars == <<state, lastPoint, track, pendingEntry, handover, now, lastExit>>

-----------------------------------------------------------------------------
Larger(a, b) == IF a >= b THEN a ELSE b
Smaller(a, b) == IF a <= b THEN a ELSE b

Fix == [t : Nat, place : Places, speed : Speeds]

Average == [distance : Nat, active : Nat] \cup {None}

ZoneState ==
  [kind : {"Outside"}]
    \cup [kind : {"Unmeasured"}, zone : Zones]
    \cup [kind : {"InZone"}, zone : Zones, entryTime : Nat, avg : Average]
    \cup [kind : {"Exiting"}, zone : Zones, avg : Average]

Outside == [kind |-> "Outside"]

Track ==
  [zone : Zones \cup {None}, entryTime : Nat, distance : Nat, stopped : Nat,
   stopStart : Nat \cup {None}, offRoad : Nat, arc : Nat]

Candidate ==
  [zone : Zones, entryTime : Nat, entryArc : Nat, fixes : Nat,
   lastTime : Nat, lastArc : Nat, distance : Nat]

Offer == [from : Zones, expiresAt : Nat]

Exit == [zone : Zones, at : Nat, reachedEnd : BOOLEAN]

(* null is not a value of any of the nullable types. *)
ASSUME NoneAssumption ==
  /\ None \notin Nat /\ None \notin Zones
  /\ None \notin Fix /\ None \notin Candidate
  /\ None \notin Offer /\ None \notin Exit
  /\ None \notin [zone : Zones, since : Nat, witnessed : BOOLEAN]

(* resetTrackingState, but for the candidate, which it also drops. *)
NoTrack ==
  [zone |-> None, entryTime |-> 0, distance |-> 0, stopped |-> 0,
   stopStart |-> None, offRoad |-> 0, arc |-> 0]

-----------------------------------------------------------------------------
(* RoadMatcher.findMatchingZone: the nearest of the zones whose band holds
   the fix and whose local heading agrees with its course.  Ties are broken
   by list order in the code and left open here.                           *)
OnRoad(z, p) == Dist[z][p] <= Band[z]

FindMatchingZone(p) ==
  LET matching == {z \in Zones : OnRoad(z, p) /\ p \in Aligned[z]}
  IN {z \in matching : \A y \in matching : Dist[z][p] <= Dist[y][p]}

RemainingFromArc(z, arc) == Larger(Length[z] - arc, 0)

(* AverageSpeedCalc.calculate: the average is distance over active time, kept
   as that fraction, and absent below one second of activity.              *)
Calculate(entryTime, currentTime, stopped, distance) ==
  LET active == Larger(currentTime - entryTime - stopped, 0)
  IN IF active >= 1 THEN [distance |-> distance, active |-> active] ELSE None

(* Mutant of TravelSince: a dropout earns no distance, as it once was. *)
DropoutSkipped(prev, fix, prevArc, arc) ==
  IF prev = None \/ fix.t - prev.t >= GPS_DROPOUT THEN 0
  ELSE ((prev.speed + fix.speed) * (fix.t - prev.t)) \div 2

(* travelSince: trapezoidal speed x time between neighbouring fixes, movement
   of the projection across a dropout.                                     *)
TravelSince(prev, fix, prevArc, arc) ==
  IF prev = None THEN 0
  ELSE LET gap == fix.t - prev.t
       IN IF gap >= GPS_DROPOUT THEN Larger(arc - prevArc, 0)
          ELSE ((prev.speed + fix.speed) * gap) \div 2

(* Mutant of FinalizeStop: a finished stop keeps running. *)
StopNeverEnds(tr, time) ==
  IF tr.stopStart # None /\ time - tr.stopStart >= STOP_DURATION
  THEN [tr EXCEPT !.stopped = @ + (time - tr.stopStart)]
  ELSE tr

(* updateStopTracking and finalizeStop, on a track. *)
FinalizeStop(tr, time) ==
  IF tr.stopStart = None THEN tr
  ELSE [tr EXCEPT
         !.stopped = IF time - tr.stopStart >= STOP_DURATION
                     THEN @ + (time - tr.stopStart) ELSE @,
         !.stopStart = None]

UpdateStopTracking(tr, fix) ==
  IF fix.speed < STOP_SPEED
  THEN [tr EXCEPT !.stopStart = IF @ = None THEN fix.t ELSE @]
  ELSE FinalizeStop(tr, fix.t)

-----------------------------------------------------------------------------
(* advancePendingEntry: extend the candidate for this zone, or restart it. *)
AdvancePendingEntry(open, fix, zone, arc) ==
  IF open # None /\ open.zone = zone
       /\ fix.t - open.lastTime <= ENTRY_CONFIRM_TIMEOUT
  THEN [open EXCEPT
         !.fixes = Smaller(@ + 1, ENTRY_CONFIRM_FIXES),  \* only ever compared
         !.distance = @ + TravelSince(lastPoint, fix, open.lastArc, arc),
         !.lastArc = arc,
         !.lastTime = fix.t]
  ELSE [zone |-> zone, entryTime |-> fix.t, entryArc |-> arc, fixes |-> 1,
        lastTime |-> fix.t, lastArc |-> arc, distance |-> 0]

RequiredProgress(z) ==
  Smaller(ENTRY_CONFIRM_DISTANCE_M, DistanceM[z] \div ENTRY_CONFIRM_SHARE)

IsConfirmed(candidate) ==
  /\ candidate.fixes >= ENTRY_CONFIRM_FIXES
  /\ candidate.lastArc - candidate.entryArc >= RequiredProgress(candidate.zone)

(* Mutant of WitnessedStart: judged where confirmation ended. *)
WitnessedAtConfirmation(candidate) ==
  candidate.lastArc <= START_WITNESS_ARC_M

WitnessedStart(candidate) == candidate.entryArc <= START_WITNESS_ARC_M

ContinuesHandoverDirection(offer, zone) == zone \in Continues[offer.from]

(* The exit of a co-located predecessor, still on offer, admits this zone. *)
HandedOver(offer, zone) ==
  /\ offer # None
  /\ EndToStart[offer.from][zone] <= COLOCATED_CAMERA_M
  /\ ContinuesHandoverDirection(offer, zone)

(* Mutant of LiveOffer: an offer never expires. *)
OfferNeverExpires(fix) == handover

LiveOffer(fix) ==
  IF handover # None /\ fix.t <= handover.expiresAt THEN handover ELSE None

-----------------------------------------------------------------------------
(* Mutant of StayOutside: losing the road does not drop the candidate. *)
KeepStaleCandidate(candidate, tr, fix) ==
  /\ state' = Outside
  /\ track' = tr
  /\ pendingEntry' = IF candidate = None THEN pendingEntry ELSE candidate
  /\ handover' = LiveOffer(fix)
  /\ UNCHANGED lastExit

StayOutside(candidate, tr, fix) ==
  /\ state' = Outside
  /\ track' = tr
  /\ pendingEntry' = candidate
  /\ handover' = LiveOffer(fix)
  /\ UNCHANGED lastExit

OpenTrack(zone, arc) ==
  [NoTrack EXCEPT !.zone = zone, !.arc = arc]

(* Mutant of OpenUnmeasured: the offer survives the zone that was joined. *)
JoinKeepsOffer(candidate, fix) ==
  /\ track' = OpenTrack(candidate.zone, candidate.lastArc)
  /\ state' = [kind |-> "Unmeasured", zone |-> candidate.zone]
  /\ pendingEntry' = None
  /\ handover' = LiveOffer(fix)
  /\ UNCHANGED lastExit

OpenUnmeasured(candidate, fix) ==
  /\ track' = OpenTrack(candidate.zone, candidate.lastArc)
  /\ state' = [kind |-> "Unmeasured", zone |-> candidate.zone]
  /\ pendingEntry' = None
  /\ handover' = None
  /\ UNCHANGED lastExit

(* Mutant of OpenTraversal: a new entry resumes the bookkeeping left over. *)
ResumeStaleProgress(candidate, fix) ==
  LET entryTime == IF track.entryTime = 0 THEN candidate.entryTime
                   ELSE track.entryTime
  IN /\ track' = [track EXCEPT !.zone = candidate.zone,
                               !.arc = candidate.lastArc,
                               !.entryTime = entryTime]
     /\ state' = [kind |-> "InZone", zone |-> candidate.zone,
                  entryTime |-> entryTime, avg |-> None]
     /\ pendingEntry' = None
     /\ handover' = None
     /\ UNCHANGED lastExit

OpenTraversal(candidate, fix) ==
  /\ track' = [OpenTrack(candidate.zone, candidate.lastArc) EXCEPT
                 !.entryTime = candidate.entryTime,
                 !.distance = candidate.distance]
  /\ state' = [kind |-> "InZone", zone |-> candidate.zone,
               entryTime |-> candidate.entryTime,
               avg |-> Calculate(candidate.entryTime, fix.t, 0,
                                 candidate.distance)]
  /\ pendingEntry' = None
  /\ handover' = None
  /\ UNCHANGED lastExit

Finishing(zone, p) ==
  \/ RemainingFromArc(zone, Arc[zone][p]) <= EXIT_DISTANCE_M
  \/ ToEnd[zone][p] <= EXIT_DISTANCE_M

(* handleOutside.  It runs with the bookkeeping it is given: the current one
   outside a zone, the reset one right after an exit.                      *)
HandleOutside(open, tr, fix) ==
  \/ /\ FindMatchingZone(fix.place) = {}
     /\ StayOutside(None, tr, fix)
  \/ \E zone \in FindMatchingZone(fix.place) :
       LET candidate ==
             AdvancePendingEntry(open, fix, zone, Arc[zone][fix.place])
           handedOver == HandedOver(LiveOffer(fix), zone)
       IN \/ /\ Finishing(zone, fix.place)
             /\ StayOutside(None, tr, fix)
          \/ /\ ~Finishing(zone, fix.place)
             /\ ~handedOver /\ ~IsConfirmed(candidate)
             /\ StayOutside(candidate, tr, fix)
          \/ /\ ~Finishing(zone, fix.place)
             /\ ~handedOver /\ IsConfirmed(candidate)
             /\ ~WitnessedStart(candidate)
             /\ OpenUnmeasured(candidate, fix)
          \/ /\ ~Finishing(zone, fix.place)
             /\ handedOver \/ (IsConfirmed(candidate)
                                /\ WitnessedStart(candidate))
             /\ OpenTraversal(candidate, fix)

-----------------------------------------------------------------------------
(* The off-road hysteresis shared by the two in-zone handlers. *)
OffRoadStreak(z, p) == IF OnRoad(z, p) THEN 0 ELSE track.offRoad + 1

LeftRoad(z, p) ==
  /\ ~OnRoad(z, p)
  /\ \/ Dist[z][p] > OFF_ROAD_HARD_M
     \/ track.offRoad + 1 >= OFF_ROAD_EXIT_GRACE_FIXES

ReachedEnd(z, p) ==
  \/ ToEnd[z][p] < EXIT_DISTANCE_M
  \/ RemainingFromArc(z, Arc[z][p]) <= 0

(* The distance and stop bookkeeping of one in-zone fix. *)
Integrated(fix) ==
  LET z == track.zone
      arc == Arc[z][fix.place]
  IN UpdateStopTracking(
       [track EXCEPT
          !.distance = @ + TravelSince(lastPoint, fix, track.arc, arc),
          !.arc = arc,
          !.offRoad = OffRoadStreak(z, fix.place)], fix)

(* exitZone: close an ongoing stop, report the final average, arm the offer. *)
ExitZone(tr, fix) ==
  LET final == FinalizeStop(tr, fix.t)
  IN /\ track' = final
     /\ state' = [kind |-> "Exiting", zone |-> tr.zone,
                  avg |-> Calculate(tr.entryTime, fix.t, final.stopped,
                                    tr.distance)]
     /\ handover' = [from |-> tr.zone,
                     expiresAt |-> fix.t + COLOCATED_HANDOVER]
     /\ lastExit' = [zone |-> tr.zone, at |-> fix.t,
                     reachedEnd |-> ReachedEnd(tr.zone, fix.place)]
     /\ UNCHANGED pendingEntry

ContinueTraversal(tr, fix) ==
  /\ track' = tr
  /\ state' = [kind |-> "InZone", zone |-> tr.zone,
               entryTime |-> tr.entryTime,
               avg |-> Calculate(tr.entryTime, fix.t, tr.stopped, tr.distance)]
  /\ UNCHANGED <<pendingEntry, handover, lastExit>>

HandleInZone(fix) ==
  LET leaving == \/ LeftRoad(track.zone, fix.place)
                 \/ ReachedEnd(track.zone, fix.place)
  IN \/ leaving /\ ExitZone(Integrated(fix), fix)
     \/ ~leaving /\ ContinueTraversal(Integrated(fix), fix)

(* handleUnmeasured: nothing is integrated, and leaving is not an exit. *)
LeaveUnmeasured ==
  /\ state' = Outside
  /\ track' = NoTrack
  /\ pendingEntry' = None
  /\ UNCHANGED <<handover, lastExit>>

(* Mutant of HandleUnmeasured: leaving an unmeasured zone is an exit. *)
UnmeasuredExits(fix) ==
  /\ LeftRoad(track.zone, fix.place) \/ ReachedEnd(track.zone, fix.place)
  /\ ExitZone(track, fix)

HandleUnmeasured(fix) ==
  LET z == track.zone
      leaving == LeftRoad(z, fix.place) \/ ReachedEnd(z, fix.place)
  IN \/ leaving /\ LeaveUnmeasured
     \/ /\ ~leaving
        /\ track' = [track EXCEPT !.arc = Arc[z][fix.place],
                                  !.offRoad = OffRoadStreak(z, fix.place)]
        /\ state' = [kind |-> "Unmeasured", zone |-> z]
        /\ UNCHANGED <<pendingEntry, handover, lastExit>>

HandleExiting(fix) == HandleOutside(None, NoTrack, fix)

-----------------------------------------------------------------------------
Handle(fix) ==
  \/ state.kind = "Outside" /\ HandleOutside(pendingEntry, track, fix)
  \/ state.kind = "Unmeasured" /\ HandleUnmeasured(fix)
  \/ state.kind = "InZone" /\ HandleInZone(fix)
  \/ state.kind = "Exiting" /\ HandleExiting(fix)

Update(fix) ==
  /\ Handle(fix)
  /\ lastPoint' = fix
  /\ now' = fix.t

(* reset(), and equally the fresh detector the tracking service builds when
   tracking stops or the catalog is replaced.                              *)
Reset ==
  /\ state' = Outside
  /\ lastPoint' = None
  /\ track' = NoTrack
  /\ pendingEntry' = None
  /\ handover' = None
  /\ UNCHANGED <<now, lastExit>>

Init ==
  /\ state = Outside
  /\ lastPoint = None
  /\ track = NoTrack
  /\ pendingEntry = None
  /\ handover = None
  /\ now = 0
  /\ lastExit = None

(* A fix is any place and speed, one of the gaps after the previous one. *)
NextFixes ==
  [t : {now + gap : gap \in Gaps} \cap 0..MaxTime, place : Places,
   speed : Speeds]

Next == (\E fix \in NextFixes : Update(fix)) \/ Reset

Spec == Init /\ [][Next]_vars

-----------------------------------------------------------------------------
(* Every variable keeps the shape its Kotlin declaration gives it
   (ZoneDetector.kt, lines 196-247).                                       *)
TypeOK ==
  /\ state \in ZoneState
  /\ lastPoint \in Fix \cup {None}
  /\ track \in Track
  /\ pendingEntry \in Candidate \cup {None}
  /\ handover \in Offer \cup {None}
  /\ now \in Nat
  /\ lastExit \in Exit \cup {None}

(* What the state shows and what the bookkeeping holds are the same zone and
   the same entry, and outside a zone nothing is left over.                *)
StateMatchesTrack ==
  /\ state.kind = "Outside" => track = NoTrack
  /\ state.kind # "Outside" =>
       track.zone = state.zone /\ pendingEntry = None
  /\ state.kind = "InZone" => track.entryTime = state.entryTime

(* The time excluded as stops, finished or still running, always lies inside
   the traversal it is excluded from, so active time cannot go negative and
   the average cannot be divided by less time than was driven.             *)
StopsWithinTraversal ==
  state.kind \in {"InZone", "Exiting"} =>
    track.entryTime + track.stopped
      <= (IF track.stopStart = None THEN now ELSE track.stopStart)

(* Two measured traversals never share time: back-dating an entry to the
   candidate's first fix cannot reach behind the previous exit.            *)
TraversalsDisjoint ==
  lastExit # None /\ state.kind = "InZone" => lastExit.at <= track.entryTime

(* A candidate always stands on the latest fix: the fix matches its zone, is
   not at the zone's end, and is where its progress is measured to.  Evidence
   from a road the car has left cannot be picked up again later.           *)
CandidateIsCurrent ==
  pendingEntry # None =>
    /\ lastPoint # None
    /\ pendingEntry.zone \in FindMatchingZone(lastPoint.place)
    /\ ~Finishing(pendingEntry.zone, lastPoint.place)
    /\ pendingEntry.lastTime = lastPoint.t
    /\ pendingEntry.lastArc = Arc[pendingEntry.zone][lastPoint.place]

(* An offer is always the latest measured exit's, and no zone has been joined
   since: one exit admits at most one successor.                           *)
OfferIsLatestExit ==
  handover # None =>
    /\ lastExit # None
    /\ handover = [from |-> lastExit.zone,
                   expiresAt |-> lastExit.at + COLOCATED_HANDOVER]
    /\ state.kind \in {"Outside", "Exiting"}

Opens == state.kind # "InZone" /\ state'.kind = "InZone"

(* A measured traversal is earned one of two ways: its entry was seen within
   START_WITNESS_ARC_M of the zone's start and followed along the road, or a
   co-located zone running the same way was exited in the last
   COLOCATED_HANDOVER seconds.                                             *)
MeasuredEntryIsEarned ==
  [][Opens =>
       \/ /\ pendingEntry # None
          /\ pendingEntry.zone = track'.zone
          /\ pendingEntry.entryArc <= START_WITNESS_ARC_M
          /\ pendingEntry.entryTime = track'.entryTime
          /\ now' - now <= ENTRY_CONFIRM_TIMEOUT
          /\ track'.arc - pendingEntry.entryArc
               >= RequiredProgress(track'.zone)
       \/ /\ lastExit # None
          /\ EndToStart[lastExit.zone][track'.zone] <= COLOCATED_CAMERA_M
          /\ track'.zone \in Continues[lastExit.zone]
          /\ now' <= lastExit.at + COLOCATED_HANDOVER]_vars

(* pendingEntryInfo, with the arc it carries reduced to what it is compared
   with (LocationTrackingService.kt, line 336).                            *)
PendingEntryInfo ==
  IF pendingEntry = None THEN None
  ELSE [zone |-> pendingEntry.zone, since |-> pendingEntry.entryTime,
        witnessed |-> WitnessedStart(pendingEntry)]

(* The detector implements the contract its consumers are written against. *)
Contract == INSTANCE Traversal WITH
  Nowhere <- None, Never <- None,
  kind <- state.kind,
  zone <- track.zone,
  entry <- IF state.kind \in {"InZone", "Exiting"}
           THEN track.entryTime ELSE None,
  lastEnd <- IF lastExit = None THEN 0 ELSE lastExit.at,
  candidate <- PendingEntryInfo,
  offered <- handover # None

(* Every step of the detector is a step of the contract or invisible to the
   consumers.                                                              *)
ImplementsContract == Contract!TSpec
=============================================================================
