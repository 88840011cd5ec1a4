----------------------------- MODULE DriveProofs -----------------------------
(***************************************************************************)
(* On every straight road - any number of zones anywhere on it, any        *)
(* thresholds, speeds and silences - the distance integrator tells the     *)
(* truth, and a drive tracked from before the first camera is not missed.  *)
(***************************************************************************)
EXTENDS Drive, ZoneDetectorProofs

(* Distance d credited to zone z by a car at x that entered at f: no more than
   the road driven, and short of it at most by what of the road before the
   zone's start it has driven since.                                       *)
Credit(z, d, f, x) ==
  /\ f \in Int /\ f <= x
  /\ d <= x - f /\ x - f - d <= Larger(Smaller(x, Begin[z]) - f, 0)
  /\ Begin[z] - f <= Band[z]

(* The candidate's distance and the traversal's are credited, and each is
   measured from the latest fix.                                           *)
CreditOK ==
  /\ pendingEntry # None =>
       Credit(pendingEntry.zone, pendingEntry.distance, from, lastPoint.place)
  /\ state.kind = "InZone" =>
       /\ lastPoint # None
       /\ track.arc = Arc[track.zone][lastPoint.place]
       /\ Credit(track.zone, track.distance, from, lastPoint.place)

DInv == IInv /\ CreditOK

-----------------------------------------------------------------------------
(* A zone is matched no further before its start than its band reaches. *)
LEMMA CreditStarts ==
  ASSUME NEW x \in Places, NEW z \in FindMatchingZone(x)
  PROVE  Credit(z, 0, x, x)
<1>1. z \in Zones /\ Dist[z][x] <= Band[z]
  BY DEF FindMatchingZone, OnRoad
<1>2. /\ x \in Int /\ Begin[z] \in Int /\ Band[z] \in Nat
      /\ Dist[z][x] \in Nat /\ Dist[z][x] >= Begin[z] - x
  BY <1>1, RoadAssumption, GeometryAssumption DEF Metres
<1>3. QED BY <1>1, <1>2 DEF Credit, Larger, Smaller

(* Short of the zone's end the road driven and the movement of the projection
   both keep the account.                                                  *)
LEMMA CreditAdvances ==
  ASSUME NEW z \in Zones, NEW d \in Nat, NEW f, NEW x \in Places,
         NEW y \in Places, x <= y, Credit(z, d, f, x), Arc[z][y] < Length[z],
         NEW e, e \in {y - x, Larger(Arc[z][y] - Arc[z][x], 0)}
  PROVE  Credit(z, d + e, f, y)
<1>1. /\ x \in Int /\ y \in Int /\ Begin[z] \in Int /\ Length[z] \in Nat
      /\ Arc[z][x] = Smaller(Larger(x - Begin[z], 0), Length[z])
      /\ Arc[z][y] = Smaller(Larger(y - Begin[z], 0), Length[z])
  BY RoadAssumption, GeometryAssumption
<1>2. /\ f \in Int /\ f <= x /\ d <= x - f
      /\ x - f - d <= Larger(Smaller(x, Begin[z]) - f, 0)
      /\ Begin[z] - f <= Band[z]
  BY DEF Credit
<1> DEFINE b == Begin[z]  len == Length[z]
<1>3. y - b < len /\ x - b < len
  BY <1>1 DEF Larger, Smaller
<1>4. CASE e = y - x
  <2>1. d + e <= y - f /\ y - f - (d + e) = x - f - d
    BY <1>1, <1>2, <1>4
  <2>2. Larger(Smaller(x, b) - f, 0) <= Larger(Smaller(y, b) - f, 0)
    BY <1>1, <1>2 DEF Larger, Smaller
  <2>3. Larger(Smaller(x, b) - f, 0) \in Int /\ Larger(Smaller(y, b) - f, 0) \in Int
    BY <1>1, <1>2 DEF Larger, Smaller
  <2>4. y - f - (d + e) <= Larger(Smaller(y, b) - f, 0)
    BY <1>1, <1>2, <1>4, <2>1, <2>2, <2>3
  <2>5. QED BY <1>1, <1>2, <2>1, <2>4 DEF Credit
<1>5. CASE e = Larger(Arc[z][y] - Arc[z][x], 0)
  <2>1. e = Larger(y - b, 0) - Larger(x - b, 0)
    BY <1>1, <1>3, <1>5 DEF Larger, Smaller
  <2>2. e \in Nat /\ e <= y - x
    BY <1>1, <2>1 DEF Larger
  <2>3. d + e <= y - f
    BY <1>1, <1>2, <2>2
  <2>4. CASE x >= b
    <3>1. e = y - x
      BY <1>1, <2>1, <2>4 DEF Larger
    <3>2. QED BY <1>4, <3>1
  <2>5. CASE x < b /\ y >= b
    <3>1. e = y - b
      BY <1>1, <2>1, <2>5 DEF Larger
    <3>2. /\ Larger(Smaller(x, b) - f, 0) = x - f
          /\ Larger(Smaller(y, b) - f, 0) = b - f
      BY <1>1, <1>2, <2>5 DEF Larger, Smaller
    <3>3. y - f - (d + e) <= b - f
      BY <1>1, <1>2, <2>5, <3>1, <3>2
    <3>4. QED BY <1>1, <1>2, <2>3, <3>2, <3>3 DEF Credit
  <2>6. CASE y < b
    <3>1. e = 0
      BY <1>1, <2>1, <2>6 DEF Larger
    <3>2. Larger(Smaller(y, b) - f, 0) = y - f
      BY <1>1, <1>2, <2>6 DEF Larger, Smaller
    <3>3. y - f - (d + e) <= y - f
      BY <1>1, <1>2, <3>1
    <3>4. QED BY <1>1, <1>2, <2>3, <3>2, <3>3 DEF Credit
  <2>7. QED BY <1>1, <2>4, <2>5, <2>6
<1>6. QED BY <1>4, <1>5

(* A fix of the drive: the integrator adds the road, or the projection. *)
LEMMA TravelOfDrive ==
  ASSUME IInv, NEW gap \in Gaps, NEW speed \in Speeds, NEW fix,
         fix = [t |-> now + gap, place |-> Driven(gap, speed),
                speed |-> speed],
         fix.t <= MaxTime, fix.place \in Places
  PROVE  /\ fix \in NextFixes /\ fix.t > now
         /\ lastPoint # None =>
              /\ lastPoint.place \in Places /\ lastPoint.place <= fix.place
              /\ \A a, b : TravelSince(lastPoint, fix, a, b)
                             \in {fix.place - lastPoint.place,
                                  Larger(b - a, 0)}
<1>1. /\ gap \in Nat \ {0} /\ now \in Nat /\ speed \in Nat
      /\ fix.t = now + gap /\ fix.speed = speed
      /\ fix.place = Driven(gap, speed)
  BY RoadAssumption, StreamAssumption DEF IInv, TypeOK
<1>2. fix.t \in {now + g : g \in Gaps} \cap 0..MaxTime
  BY <1>1, StreamAssumption
<1>3. fix \in NextFixes
  BY <1>2 DEF NextFixes
<1>4. ASSUME lastPoint # None
      PROVE  /\ lastPoint.place \in Places /\ lastPoint.place <= fix.place
             /\ \A a, b : TravelSince(lastPoint, fix, a, b)
                            \in {fix.place - lastPoint.place,
                                 Larger(b - a, 0)}
  <2>1. /\ lastPoint.t = now /\ lastPoint.place \in Places
        /\ lastPoint.place \in Int
        /\ lastPoint.speed \in Nat
    BY <1>4, RoadAssumption, StreamAssumption DEF IInv, TypeOK, ClockOK, Fix
  <2> DEFINE road == ((lastPoint.speed + speed) * gap) \div 2
  <2>2. road \in Nat
    BY <1>1, <2>1, HalfProduct
  <2>3. fix.place = lastPoint.place + road
    BY <1>1, <1>4 DEF Driven
  <2>4. fix.t - lastPoint.t = gap
    BY <1>1, <2>1
  <2>5. ((lastPoint.speed + fix.speed) * (fix.t - lastPoint.t)) \div 2 = road
    BY <1>1, <2>4
  <2> HIDE DEF road
  <2>6. road = fix.place - lastPoint.place
    BY <2>1, <2>2, <2>3
  <2>7. \A a, b : TravelSince(lastPoint, fix, a, b) \in {road, Larger(b - a, 0)}
    BY <1>4, <2>5 DEF TravelSince
  <2>8. QED BY <2>1, <2>2, <2>3, <2>6, <2>7
<1>5. QED BY <1>1, <1>3, <1>4

-----------------------------------------------------------------------------
(* The candidate a fix makes is credited from its own entry, or from where the
   standing one was entered.                                               *)
LEMMA CandidateCredited ==
  ASSUME DInv, NEW gap \in Gaps, NEW speed \in Speeds, NEW fix,
         fix = [t |-> now + gap, place |-> Driven(gap, speed),
                speed |-> speed],
         fix.t <= MaxTime, fix.place \in Places,
         NEW open, open \in {pendingEntry, None},
         NEW zone \in FindMatchingZone(fix.place),
         ~Finishing(zone, fix.place),
         NEW candidate,
         candidate = AdvancePendingEntry(open, fix, zone, Arc[zone][fix.place])
  PROVE  /\ candidate.zone = zone /\ candidate \in Candidate
         /\ candidate.lastArc = Arc[zone][fix.place]
         /\ \/ /\ candidate.entryTime = fix.t
               /\ Credit(zone, candidate.distance, fix.place, fix.place)
            \/ /\ candidate.entryTime # fix.t
               /\ Credit(zone, candidate.distance, from, fix.place)
<1>1. zone \in Zones /\ Arc[zone][fix.place] \in Nat
  BY MatchIsZone, ArcTyped
<1>2. fix \in NextFixes /\ fix.t > now /\ fix.t \in Nat /\ now \in Nat
  BY TravelOfDrive, NextFixTyped DEF DInv, IInv, TypeOK, Fix
<1>3. /\ candidate.zone = zone /\ candidate \in Candidate
      /\ candidate.lastArc = Arc[zone][fix.place]
  BY <1>1, <1>2, CandidateFacts DEF DInv
<1> DEFINE continues == /\ open # None /\ open.zone = zone
                        /\ fix.t - open.lastTime <= ENTRY_CONFIRM_TIMEOUT
<1>4. CASE ~continues
  <2>1. candidate.entryTime = fix.t /\ candidate.distance = 0
    BY <1>4 DEF AdvancePendingEntry
  <2>2. QED BY <1>3, <2>1, CreditStarts
<1>5. CASE continues
  <2>1. /\ pendingEntry # None /\ open = pendingEntry
        /\ pendingEntry \in Candidate /\ pendingEntry.zone = zone
    BY <1>5 DEF DInv, IInv, TypeOK
  <2>2. /\ pendingEntry.entryTime \in Nat /\ pendingEntry.entryTime <= now
        /\ pendingEntry.distance \in Nat
        /\ lastPoint # None
        /\ pendingEntry.lastArc = Arc[zone][lastPoint.place]
        /\ Credit(zone, pendingEntry.distance, from, lastPoint.place)
    BY <2>1 DEF DInv, IInv, ClockOK, CandidateIsCurrent, CreditOK, Candidate
  <2> DEFINE e == TravelSince(lastPoint, fix, pendingEntry.lastArc,
                              Arc[zone][fix.place])
  <2>3. /\ candidate.entryTime = pendingEntry.entryTime
        /\ candidate.distance = pendingEntry.distance + e
    BY <1>5, <2>1 DEF AdvancePendingEntry, Candidate
  <2>4. Arc[zone][fix.place] < Length[zone]
    BY <1>1, GeometryAssumption, ThresholdAssumption
       DEF Finishing, RemainingFromArc, Larger
  <2>5. /\ lastPoint.place \in Places /\ lastPoint.place <= fix.place
        /\ e \in {fix.place - lastPoint.place,
                  Larger(Arc[zone][fix.place] - Arc[zone][lastPoint.place], 0)}
    BY <2>2, TravelOfDrive DEF DInv
  <2> HIDE DEF e
  <2>6. Credit(zone, pendingEntry.distance + e, from, fix.place)
    BY <1>1, <2>2, <2>4, <2>5, CreditAdvances
  <2>7. candidate.entryTime # fix.t
    BY <1>2, <2>2, <2>3
  <2>8. QED BY <1>3, <2>3, <2>6, <2>7
<1>6. QED BY <1>4, <1>5

LEMMA OutsideCredited ==
  ASSUME DInv, NEW gap \in Gaps, NEW speed \in Speeds, NEW fix,
         fix = [t |-> now + gap, place |-> Driven(gap, speed),
                speed |-> speed],
         fix.t <= MaxTime, fix.place \in Places,
         NEW open, open \in {pendingEntry, None}, NEW tr,
         HandleOutside(open, tr, fix), lastPoint' = fix,
         from' = IF Stamps(fix) THEN fix.place ELSE from
  PROVE  CreditOK'
<1>1. CASE StayOutside(None, tr, fix)
  BY <1>1 DEF StayOutside, Outside, CreditOK
<1>2. ASSUME NEW zone \in FindMatchingZone(fix.place),
             ~Finishing(zone, fix.place), NEW candidate,
             candidate = AdvancePendingEntry(open, fix, zone,
                                             Arc[zone][fix.place]),
             \/ StayOutside(candidate, tr, fix)
             \/ OpenUnmeasured(candidate, fix)
             \/ OpenTraversal(candidate, fix)
      PROVE  CreditOK'
  <2>1. /\ candidate.zone = zone /\ candidate \in Candidate
        /\ candidate.lastArc = Arc[zone][fix.place]
        /\ \/ /\ candidate.entryTime = fix.t
              /\ Credit(zone, candidate.distance, fix.place, fix.place)
           \/ /\ candidate.entryTime # fix.t
              /\ Credit(zone, candidate.distance, from, fix.place)
    BY <1>2, CandidateCredited
  <2>2. candidate # None /\ fix # None
    <3>1. fix \in NextFixes
      BY TravelOfDrive DEF DInv
    <3>2. fix \in Fix
      BY <3>1, NextFixTyped DEF DInv, IInv, TypeOK
    <3>3. QED BY <2>1, <3>2, NoneAssumption
  <2>3. CASE StayOutside(candidate, tr, fix)
    <3>1. pendingEntry' = candidate /\ state'.kind = "Outside"
      BY <2>3 DEF StayOutside, Outside
    <3>2. from' = IF candidate.entryTime = fix.t THEN fix.place ELSE from
      BY <2>2, <3>1 DEF Stamps
    <3>3. Credit(zone, candidate.distance, from', fix.place)
      BY <2>1, <3>2
    <3>4. QED BY <2>1, <3>1, <3>3 DEF CreditOK, Credit
  <2>4. CASE OpenUnmeasured(candidate, fix)
    BY <2>4 DEF OpenUnmeasured, CreditOK
  <2>5. CASE OpenTraversal(candidate, fix)
    <3>1. /\ pendingEntry' = None /\ state'.kind = "InZone"
          /\ track'.zone = zone /\ track'.entryTime = candidate.entryTime
          /\ track'.distance = candidate.distance
          /\ track'.arc = candidate.lastArc
      BY <2>1, <2>5 DEF OpenTraversal, OpenTrack, NoTrack
    <3>2. from' = IF candidate.entryTime = fix.t THEN fix.place ELSE from
      BY <3>1 DEF Stamps
    <3>3. Credit(zone, candidate.distance, from', fix.place)
      BY <2>1, <3>2
    <3>4. QED BY <2>1, <2>2, <3>1, <3>3 DEF CreditOK, Credit
  <2>6. QED BY <1>2, <2>3, <2>4, <2>5
<1>3. QED BY <1>1, <1>2 DEF HandleOutside

(* Stops and the off-road streak leave the distance and the arc alone. *)
LEMMA IntegratedDistance ==
  ASSUME IInv, NEW fix \in NextFixes, state.kind = "InZone"
  PROVE  /\ Integrated(fix).distance
              = track.distance + TravelSince(lastPoint, fix, track.arc,
                                             Arc[track.zone][fix.place])
         /\ Integrated(fix).arc = Arc[track.zone][fix.place]
<1>1. track \in Track
  BY DEF IInv, TypeOK
<1> DEFINE arc == Arc[track.zone][fix.place]
           travel == TravelSince(lastPoint, fix, track.arc, arc)
           moved == [track EXCEPT !.distance = @ + travel, !.arc = arc,
                       !.offRoad = OffRoadStreak(track.zone, fix.place)]
<1>2. Integrated(fix) = UpdateStopTracking(moved, fix)
  BY DEF Integrated
<1>3. moved.distance = track.distance + travel /\ moved.arc = arc
  BY <1>1 DEF Track
<1>4. DOMAIN moved = {"zone", "entryTime", "distance", "stopped", "stopStart",
                      "offRoad", "arc"}
  BY <1>1 DEF Track
<1> HIDE DEF moved
<1>5. /\ UpdateStopTracking(moved, fix).distance = moved.distance
      /\ UpdateStopTracking(moved, fix).arc = moved.arc
  BY <1>4 DEF UpdateStopTracking, FinalizeStop
<1>6. QED BY <1>2, <1>3, <1>5

LEMMA InZoneCredited ==
  ASSUME DInv, NEW gap \in Gaps, NEW speed \in Speeds, NEW fix,
         fix = [t |-> now + gap, place |-> Driven(gap, speed),
                speed |-> speed],
         fix.t <= MaxTime, fix.place \in Places,
         state.kind = "InZone", HandleInZone(fix), lastPoint' = fix,
         from' = IF Stamps(fix) THEN fix.place ELSE from
  PROVE  CreditOK'
<1>1. /\ fix \in NextFixes /\ fix \in Fix /\ fix.t > now
      /\ fix.t \in Nat /\ now \in Nat
  BY TravelOfDrive, NextFixTyped DEF DInv, IInv, TypeOK, Fix
<1>2. /\ pendingEntry = None /\ track \in Track /\ track.zone \in Zones
      /\ track.distance \in Nat /\ track.entryTime <= now
  BY DEF DInv, IInv, TypeOK, StateMatchesTrack, ZoneState, ClockOK, Track
<1>3. CASE ExitZone(Integrated(fix), fix)
  BY <1>2, <1>3 DEF ExitZone, CreditOK
<1>4. CASE /\ ~ReachedEnd(track.zone, fix.place)
           /\ ContinueTraversal(Integrated(fix), fix)
  <2> DEFINE z == track.zone
             e == TravelSince(lastPoint, fix, track.arc, Arc[z][fix.place])
  <2>1. /\ pendingEntry' = None /\ state'.kind = "InZone"
        /\ track' = Integrated(fix)
    BY <1>2, <1>4 DEF ContinueTraversal
  <2>2. /\ track'.zone = z /\ track'.entryTime = track.entryTime
        /\ track'.distance = track.distance + e
        /\ track'.arc = Arc[z][fix.place]
    BY <1>1, <2>1, IntegratedFacts, IntegratedDistance DEF DInv
  <2>3. from' = from
    <3>1. track.entryTime \in Nat
      BY <1>2 DEF Track
    <3>2. QED BY <1>1, <1>2, <2>1, <2>2, <3>1 DEF Stamps
  <2>4. /\ lastPoint # None /\ track.arc = Arc[z][lastPoint.place]
        /\ Credit(z, track.distance, from, lastPoint.place)
    BY DEF DInv, CreditOK
  <2>5. Arc[z][fix.place] < Length[z]
    BY <1>2, <1>4, ArcTyped, GeometryAssumption
       DEF ReachedEnd, RemainingFromArc, Larger
  <2>6. /\ lastPoint.place \in Places /\ lastPoint.place <= fix.place
        /\ e \in {fix.place - lastPoint.place,
                  Larger(Arc[z][fix.place] - Arc[z][lastPoint.place], 0)}
    BY <2>4, TravelOfDrive DEF DInv
  <2> HIDE DEF e
  <2>7. Credit(z, track.distance + e, from, fix.place)
    BY <1>2, <2>4, <2>5, <2>6, CreditAdvances
  <2>8. fix # None
    BY <1>1, NoneAssumption
  <2>9. QED BY <2>1, <2>2, <2>3, <2>7, <2>8 DEF CreditOK, Credit
<1>5. QED BY <1>3, <1>4 DEF HandleInZone

(* One fix of the drive keeps the account. *)
LEMMA DriveStep ==
  ASSUME DInv, NEW gap \in Gaps, NEW speed \in Speeds, Drive(gap, speed)
  PROVE  CreditOK' /\ Next
<1> DEFINE fix == [t |-> now + gap, place |-> Driven(gap, speed),
                   speed |-> speed]
<1>1. /\ fix.t <= MaxTime /\ fix.place \in Places /\ Update(fix)
      /\ from' = IF Stamps(fix) THEN fix.place ELSE from
  BY DEF Drive
<1>2. fix \in NextFixes
  BY <1>1, TravelOfDrive DEF DInv
<1>3. Handle(fix) /\ lastPoint' = fix
  BY <1>1 DEF Update
<1>4. ASSUME NEW f, f = fix
      PROVE  CreditOK'
  <2>1. CASE state.kind = "Outside" /\ HandleOutside(pendingEntry, track, f)
    BY <1>1, <1>3, <1>4, <2>1, OutsideCredited
  <2>2. CASE state.kind = "Exiting" /\ HandleExiting(f)
    BY <1>1, <1>3, <1>4, <2>2, OutsideCredited DEF HandleExiting
  <2>3. CASE state.kind = "InZone" /\ HandleInZone(f)
    BY <1>1, <1>3, <1>4, <2>3, InZoneCredited
  <2>4. CASE state.kind = "Unmeasured" /\ HandleUnmeasured(f)
    <3>1. pendingEntry = None
      BY <2>4 DEF DInv, IInv, StateMatchesTrack
    <3>2. pendingEntry' = None /\ state'.kind # "InZone"
      BY <2>4, <3>1 DEF HandleUnmeasured, LeaveUnmeasured, Outside
    <3>3. QED BY <3>2 DEF CreditOK
  <2>5. QED BY <1>3, <1>4, <2>1, <2>2, <2>3, <2>4 DEF Handle
<1>5. QED BY <1>1, <1>2, <1>4 DEF Next

LEMMA DriveInvariant == DriveSpec => []DInv
<1>1. DriveInit => DInv
  <2> SUFFICES ASSUME DriveInit PROVE DInv
    OBVIOUS
  <2>1. IInv
    BY InitIInv DEF DriveInit
  <2>2. CreditOK
    BY DEF DriveInit, Init, Outside, CreditOK
  <2>3. QED BY <2>1, <2>2 DEF DInv
<1>2. DInv /\ [DriveNext]_dvars => DInv'
  <2> SUFFICES ASSUME DInv, [DriveNext]_dvars PROVE DInv'
    OBVIOUS
  <2>1. CASE DriveNext
    <3>1. PICK gap \in Gaps, speed \in Speeds : Drive(gap, speed)
      BY <2>1 DEF DriveNext
    <3>2. CreditOK' /\ Next
      BY <3>1, DriveStep
    <3>3. IInv'
      BY <3>2, UpdateStep, ResetStep DEF Next, DInv
    <3>4. QED BY <3>2, <3>3 DEF DInv
  <2>2. CASE UNCHANGED dvars
    <3>1. IInv'
      BY <2>2, StutterStep DEF dvars, DInv
    <3>2. CreditOK'
      BY <2>2 DEF dvars, vars, DInv, CreditOK, Credit
    <3>3. QED BY <3>1, <3>2 DEF DInv
  <2>3. QED BY <2>1, <2>2
<1>3. QED BY <1>1, <1>2, PTL DEF DriveSpec

(* The distance integrator tells the truth: a traversal is credited with the
   road driven since its entry, short at most of the stretch before the start
   camera that the on-road band lets in, on every straight road and through
   confirmation, stops, handovers and dropouts (ZoneDetector.kt, lines
   347-355 and 514-537).                                                   *)
THEOREM DistanceMatchesRoadHolds == DriveSpec => []DistanceMatchesRoad
<1>1. DInv => DistanceMatchesRoad
  <2> SUFFICES ASSUME DInv, state.kind = "InZone"
               PROVE  /\ track.distance <= lastPoint.place - from
                      /\ lastPoint.place - from - track.distance
                           <= Band[track.zone]
    BY DEF DistanceMatchesRoad
  <2>1. /\ track.zone \in Zones /\ track.distance \in Nat
        /\ lastPoint \in Fix
        /\ Credit(track.zone, track.distance, from, lastPoint.place)
    BY DEF DInv, IInv, TypeOK, StateMatchesTrack, ZoneState, Track, CreditOK
  <2>2. /\ lastPoint.place \in Int /\ Begin[track.zone] \in Int
        /\ Band[track.zone] \in Nat
    BY <2>1, RoadAssumption, GeometryAssumption DEF Fix
  <2>3. QED BY <2>1, <2>2 DEF Credit, Larger, Smaller
<1>2. QED BY <1>1, DriveInvariant, PTL

-----------------------------------------------------------------------------
(* Where on the road a zone's thresholds lie. *)
LEMMA RoadTyped ==
  ASSUME NEW z \in Zones
  PROVE  /\ Begin[z] \in Int /\ Length[z] \in Nat /\ Band[z] \in Nat
         /\ End(z) \in Int /\ Reach(z) \in Int /\ Reach(z) <= End(z)
         /\ RequiredProgress(z) \in Nat
<1>1. /\ Begin[z] \in Int /\ Length[z] \in Nat /\ Band[z] \in Nat
      /\ DistanceM[z] \in Nat
  BY RoadAssumption, GeometryAssumption
<1>2. DistanceM[z] \div ENTRY_CONFIRM_SHARE \in Nat
  BY <1>1, ThresholdAssumption
<1>3. RequiredProgress(z) \in Nat
  BY <1>2, ThresholdAssumption DEF RequiredProgress, Smaller
<1> QED
  BY <1>1, <1>3 DEF End, Reach

LEMMA Thresholds ==
  ASSUME NEW z \in Zones, NEW x \in Places
  PROVE  /\ x \in Int
         /\ OnRoad(z, x) => Reach(z) <= x
         /\ z \in FindMatchingZone(x) => OnRoad(z, x)
         /\ ~Finishing(z, x) => x < End(z)
         /\ ~ReachedEnd(z, x) => x < End(z)
         /\ x >= End(z) - EXIT_DISTANCE_M => Finishing(z, x)
         /\ EXIT_DISTANCE_M < Length[z] =>
              /\ Finishing(z, x) => x >= End(z) - EXIT_DISTANCE_M
              /\ ReachedEnd(z, x) => x >= End(z) - EXIT_DISTANCE_M
<1>1. /\ x \in Int /\ Begin[z] \in Int /\ Length[z] \in Nat /\ Band[z] \in Nat
      /\ Arc[z][x] = Smaller(Larger(x - Begin[z], 0), Length[z])
      /\ Dist[z][x] \in Nat /\ Dist[z][x] >= Begin[z] - x
      /\ ToEnd[z][x] \in Nat /\ ToEnd[z][x] >= Begin[z] + Length[z] - x
      /\ EXIT_DISTANCE_M \in Nat
  BY RoadAssumption, GeometryAssumption, ThresholdAssumption DEF Metres
<1>2. /\ OnRoad(z, x) => Reach(z) <= x
      /\ z \in FindMatchingZone(x) => OnRoad(z, x)
  BY <1>1 DEF OnRoad, FindMatchingZone, Reach
<1>3. RemainingFromArc(z, Arc[z][x])
        = IF x <= Begin[z] THEN Length[z]
          ELSE IF x >= End(z) THEN 0 ELSE End(z) - x
  BY <1>1 DEF RemainingFromArc, End, Larger, Smaller
<1> HIDE DEF RemainingFromArc
<1> QED
  BY <1>1, <1>2, <1>3 DEF Finishing, ReachedEnd, End

-----------------------------------------------------------------------------
(* What a fix makes of the state, with only what the road needs to know. *)
Open == IF state.kind = "Outside" THEN pendingEntry ELSE None

Advanced(fix, zone) ==
  AdvancePendingEntry(Open, fix, zone, Arc[zone][fix.place])

Idle(fix) == /\ state'.kind = "Outside" /\ pendingEntry' = None
             /\ handover' = LiveOffer(fix)

Meet(fix, zone) ==
  \/ Finishing(zone, fix.place) /\ Idle(fix)
  \/ /\ ~Finishing(zone, fix.place)
     /\ \/ state'.kind = "InZone" /\ state'.zone = zone
        \/ /\ ~HandedOver(LiveOffer(fix), zone)
           /\ IsConfirmed(Advanced(fix, zone))
           /\ ~WitnessedStart(Advanced(fix, zone))
           /\ state'.kind = "Unmeasured" /\ state'.zone = zone
        \/ /\ ~HandedOver(LiveOffer(fix), zone)
           /\ ~IsConfirmed(Advanced(fix, zone))
           /\ state'.kind = "Outside"
           /\ pendingEntry' = Advanced(fix, zone)

FreeStep(fix) ==
  /\ state.kind \in {"Outside", "Exiting"} /\ lastExit' = lastExit
  /\ \/ FindMatchingZone(fix.place) = {} /\ Idle(fix)
     \/ \E zone \in FindMatchingZone(fix.place) : Meet(fix, zone)

StayStep(fix) ==
  /\ state.kind \in {"InZone", "Unmeasured"}
  /\ state'.kind = state.kind /\ state'.zone = state.zone
  /\ ~ReachedEnd(state.zone, fix.place)
  /\ lastExit' = lastExit

LeaveStep(fix) ==
  /\ state.kind \in {"InZone", "Unmeasured"} /\ pendingEntry' = None
  /\ ~OnRoad(state.zone, fix.place) \/ ReachedEnd(state.zone, fix.place)
  /\ \/ /\ state.kind = "Unmeasured" /\ state'.kind = "Outside"
        /\ lastExit' = lastExit
     \/ /\ state.kind = "InZone"
        /\ state'.kind = "Exiting" /\ state'.zone = state.zone
        /\ lastExit' = [zone |-> state.zone, at |-> fix.t,
                        reachedEnd |-> ReachedEnd(state.zone, fix.place)]
        /\ handover' = [from |-> state.zone,
                        expiresAt |-> fix.t + COLOCATED_HANDOVER]

LEMMA HandledFix ==
  ASSUME IInv, NEW fix \in NextFixes, Handle(fix)
  PROVE  FreeStep(fix) \/ StayStep(fix) \/ LeaveStep(fix)
<1>1. ASSUME NEW tr, HandleOutside(Open, tr, fix),
             state.kind \in {"Outside", "Exiting"}
      PROVE  FreeStep(fix)
  <2>1. CASE StayOutside(None, tr, fix) /\ FindMatchingZone(fix.place) = {}
    BY <1>1, <2>1 DEF StayOutside, Outside, FreeStep, Idle
  <2>2. ASSUME NEW zone \in FindMatchingZone(fix.place),
               \/ /\ Finishing(zone, fix.place)
                  /\ StayOutside(None, tr, fix)
               \/ /\ ~Finishing(zone, fix.place)
                  /\ ~HandedOver(LiveOffer(fix), zone)
                  /\ ~IsConfirmed(Advanced(fix, zone))
                  /\ StayOutside(Advanced(fix, zone), tr, fix)
               \/ /\ ~Finishing(zone, fix.place)
                  /\ ~HandedOver(LiveOffer(fix), zone)
                  /\ IsConfirmed(Advanced(fix, zone))
                  /\ ~WitnessedStart(Advanced(fix, zone))
                  /\ OpenUnmeasured(Advanced(fix, zone), fix)
               \/ /\ ~Finishing(zone, fix.place)
                  /\ OpenTraversal(Advanced(fix, zone), fix)
        PROVE  FreeStep(fix)
    <3>1. zone \in Zones /\ Arc[zone][fix.place] \in Nat
      BY MatchIsZone, ArcTyped, NextFixTyped DEF NextFixes
    <3>2. Open \in {pendingEntry, None}
      BY DEF Open
    <3>3. Advanced(fix, zone).zone = zone
      BY <3>1, <3>2, CandidateFacts DEF Advanced
    <3>4. Meet(fix, zone) /\ lastExit' = lastExit
      BY <2>2, <3>3 DEF Meet, StayOutside, OpenUnmeasured, OpenTraversal, Outside, Idle
    <3> QED
      BY <1>1, <3>4 DEF FreeStep
  <2> QED
    BY <1>1, <2>1, <2>2, Zenon DEF HandleOutside, Advanced
<1>2. CASE state.kind = "InZone" /\ HandleInZone(fix)
  <2>1. track.zone = state.zone /\ pendingEntry = None
    BY <1>2 DEF IInv, StateMatchesTrack
  <2>2. Integrated(fix).zone = track.zone
    BY <1>2, IntegratedFacts
  <2>3. CASE /\ LeftRoad(track.zone, fix.place) \/ ReachedEnd(track.zone, fix.place)
             /\ ExitZone(Integrated(fix), fix)
    BY <1>2, <2>1, <2>2, <2>3 DEF LeaveStep, ExitZone, LeftRoad
  <2>4. CASE /\ ~ReachedEnd(track.zone, fix.place)
             /\ ContinueTraversal(Integrated(fix), fix)
    BY <1>2, <2>1, <2>2, <2>4 DEF StayStep, ContinueTraversal
  <2> QED
    BY <1>2, <2>3, <2>4 DEF HandleInZone
<1>3. CASE state.kind = "Unmeasured" /\ HandleUnmeasured(fix)
  <2>1. track.zone = state.zone
    BY <1>3 DEF IInv, StateMatchesTrack
  <2>2. CASE /\ LeftRoad(track.zone, fix.place) \/ ReachedEnd(track.zone, fix.place)
             /\ LeaveUnmeasured
    BY <1>3, <2>1, <2>2 DEF LeaveStep, LeaveUnmeasured, LeftRoad, Outside
  <2>3. CASE ~ReachedEnd(track.zone, fix.place) /\ ~LeaveUnmeasured
    BY <1>3, <2>1, <2>3 DEF StayStep, HandleUnmeasured
  <2>4. CASE /\ ~ReachedEnd(track.zone, fix.place)
             /\ state' = [kind |-> "Unmeasured", zone |-> track.zone]
             /\ lastExit' = lastExit
    BY <1>3, <2>1, <2>4 DEF StayStep
  <2> QED
    BY <1>3, <2>2, <2>4 DEF HandleUnmeasured
<1>4. CASE state.kind = "Outside" /\ HandleOutside(pendingEntry, track, fix)
  BY <1>1, <1>4 DEF Open
<1>5. CASE state.kind = "Exiting" /\ HandleExiting(fix)
  BY <1>1, <1>5 DEF Open, HandleExiting
<1> QED
  BY <1>2, <1>3, <1>4, <1>5 DEF Handle

(* One fix of the drive: it moves forward, by a stride at most. *)
RoadStep(fix) ==
  /\ IInv /\ fix \in NextFixes /\ fix.place \in Places /\ fix.place \in Int
  /\ lastPoint' = fix /\ fix # None /\ now' = fix.t
  /\ now \in Nat /\ fix.t \in Nat /\ now <= fix.t /\ fix.t - now \in Gaps
  /\ lastPoint = None => fix.place = -Lead
  /\ lastPoint # None =>
       /\ lastPoint.place \in Places /\ lastPoint.place \in Int
       /\ lastPoint.place <= fix.place /\ fix.place <= lastPoint.place + Stride
  /\ FreeStep(fix) \/ StayStep(fix) \/ LeaveStep(fix)

LEMMA DriveIsRoadStep ==
  ASSUME IInv, NEW gap \in Gaps, NEW speed \in Speeds, Drive(gap, speed)
  PROVE  \E fix : RoadStep(fix)
<1> DEFINE fix == [t |-> now + gap, place |-> Driven(gap, speed),
                   speed |-> speed]
<1>1. /\ fix.t <= MaxTime /\ fix.place \in Places /\ Update(fix)
  BY DEF Drive
<1>2. fix \in NextFixes /\ fix.t > now
  BY <1>1, TravelOfDrive
<1>3. Handle(fix) /\ lastPoint' = fix /\ now' = fix.t
  BY <1>1 DEF Update
<1>4. FreeStep(fix) \/ StayStep(fix) \/ LeaveStep(fix)
  BY <1>2, <1>3, HandledFix
<1>5. fix \in Fix /\ now \in Nat /\ fix.t \in Nat /\ gap \in Nat
  BY <1>2, NextFixTyped, StreamAssumption DEF IInv, TypeOK, Fix
<1>6. fix # None /\ fix.place \in Int
  BY <1>1, <1>5, NoneAssumption, RoadAssumption
<1>7. fix.t - now \in Gaps
  BY <1>5
<1>8. lastPoint = None => fix.place = -Lead
  BY DEF Driven
<1>9. ASSUME lastPoint # None
      PROVE  /\ lastPoint.place \in Places /\ lastPoint.place \in Int
             /\ lastPoint.place <= fix.place
             /\ fix.place <= lastPoint.place + Stride
  <2>1. lastPoint.place \in Places /\ lastPoint.speed \in Speeds
    BY <1>9 DEF IInv, TypeOK, Fix
  <2>2. lastPoint.place \in Int /\ lastPoint.place <= fix.place
    BY <1>1, <1>9, <2>1, TravelOfDrive, RoadAssumption
  <2> DEFINE road == ((lastPoint.speed + speed) * gap) \div 2
  <2>3. road <= Stride /\ Stride \in Nat
    BY <2>1, RoadAssumption
  <2>4. fix.place = lastPoint.place + road
    BY <1>9 DEF Driven
  <2>5. road \in Int
    <3>1. gap \in Nat /\ speed \in Nat /\ lastPoint.speed \in Nat
      BY <2>1, StreamAssumption
    <3> QED
      BY <3>1, HalfProduct
  <2> HIDE DEF road, fix
  <2> QED
    BY <2>1, <2>2, <2>3, <2>4, <2>5
<1> HIDE DEF fix
<1>10. RoadStep(fix)
  BY <1>1, <1>2, <1>3, <1>4, <1>5, <1>6, <1>7, <1>8, <1>9 DEF RoadStep
<1> QED
  BY <1>10, Zenon

-----------------------------------------------------------------------------
(* On the road.  A zone the car is in has begun and has not ended. *)
OnTheWay ==
  /\ lastPoint = None => state.kind = "Outside" /\ lastExit = None
  /\ lastPoint # None => lastPoint.place >= -Lead
  /\ state.kind \in {"InZone", "Unmeasured"} =>
       /\ lastPoint # None
       /\ Within(lastPoint.place, Reach(state.zone), End(state.zone))

(* A zone seen before m is waiting to be confirmed. *)
Waiting(z, m) ==
  /\ state.kind = "Outside" /\ pendingEntry # None /\ pendingEntry.zone = z
  /\ pendingEntry.entryArc <= Larger(m, Begin[z]) - Begin[z]
  /\ ~IsConfirmed(pendingEntry) /\ pendingEntry.fixes >= 1
  /\ pendingEntry.fixes >= 2 \/ lastPoint.place <= Larger(m, Begin[z])

(* Before an approached zone the car is in none that lasts until it is
   reached, and from there on it is measured or waits for confirmation, until
   the exit distance.                                                      *)
Approaching(z) ==
  /\ lastPoint.place < Reach(z) /\ state.kind \in {"InZone", "Unmeasured"} =>
       End(state.zone) + Stride <= Reach(z)
  /\ Within(lastPoint.place, Reach(z), End(z)) =>
       \/ Measured(z)
       \/ /\ state.kind \in {"Outside", "Exiting"} /\ pendingEntry = None
          /\ lastPoint.place >= End(z) - EXIT_DISTANCE_M
       \/ /\ Waiting(z, FirstSeenBy(z))
          /\ lastPoint.place < End(z) - EXIT_DISTANCE_M

(* The exit of a zone at its end offers its successor until that is entered. *)
HandingOver(p, z) ==
  /\ lastExit # None /\ lastExit.zone = p /\ lastExit.reachedEnd
  /\ now <= lastExit.at + COLOCATED_HANDOVER
  /\ lastPoint.place < End(z) - EXIT_DISTANCE_M
  => /\ lastPoint.place >= End(p) - EXIT_DISTANCE_M
     /\ \/ Measured(z)
        \/ /\ handover # None /\ pendingEntry = None
           /\ \/ /\ state.kind = "Exiting"
                 /\ lastPoint.place < End(p) + Stride
              \/ state.kind = "Outside" /\ lastPoint.place <= End(p)

(* After the end of an approached zone its successor is shown, or the car has
   just left, or the successor waits for confirmation.                     *)
TakingOver(p, z) ==
  Within(lastPoint.place, End(p), End(z) - EXIT_DISTANCE_M) =>
    \/ Shown(z)
    \/ /\ state.kind = "Exiting"
       /\ handover = [from |-> p, expiresAt |-> now + COLOCATED_HANDOVER]
       /\ lastPoint.place < End(p) + Stride
    \/ /\ state.kind = "Outside" /\ pendingEntry = None
       /\ lastPoint.place = End(p)
    \/ Waiting(z, End(p) + Stride)

Counted ==
  lastPoint # None =>
    /\ Steady => \A z \in ApproachedZones : Approaching(z)
    /\ \A s \in Successions :
         /\ HandingOver(s[1], s[2])
         /\ Steady /\ s[1] \in ApproachedZones => TakingOver(s[1], s[2])

TInv == IInv /\ OnTheWay /\ Counted

LEMMA OnTheWayStep ==
  ASSUME NEW fix, RoadStep(fix), OnTheWay
  PROVE  OnTheWay'
<1>1. lastPoint' = fix /\ fix # None /\ fix.place \in Int
  BY DEF RoadStep
<1>2. fix.place >= -Lead
  <2>1. Lead \in Int
    BY RoadAssumption
  <2> QED
    BY <2>1 DEF RoadStep, OnTheWay
<1>3. ASSUME state'.kind \in {"InZone", "Unmeasured"}
      PROVE  Within(fix.place, Reach(state'.zone), End(state'.zone))
  <2>1. CASE FreeStep(fix)
    <3>1. PICK zone \in FindMatchingZone(fix.place) :
            ~Finishing(zone, fix.place) /\ state'.zone = zone
      BY <1>3, <2>1 DEF FreeStep, Meet, Idle
    <3> QED
      BY <3>1, MatchIsZone, Thresholds DEF RoadStep, Within
  <2>2. CASE StayStep(fix)
    <3>1. state.zone \in Zones /\ state'.zone = state.zone
      BY <2>2 DEF StayStep, RoadStep, IInv, TypeOK, ZoneState
    <3>2. lastPoint # None /\ Reach(state.zone) <= lastPoint.place
      BY <2>2 DEF StayStep, OnTheWay, Within
    <3>3. lastPoint.place \in Int /\ lastPoint.place <= fix.place
      BY <3>2 DEF RoadStep
    <3>4. fix.place < End(state.zone)
      BY <2>2, <3>1, Thresholds DEF StayStep, RoadStep
    <3> QED
      BY <1>1, <3>1, <3>2, <3>3, <3>4, RoadTyped DEF Within
  <2>3. CASE LeaveStep(fix)
    BY <1>3, <2>3 DEF LeaveStep
  <2> QED
    BY <2>1, <2>2, <2>3 DEF RoadStep
<1> QED
  BY <1>1, <1>2, <1>3 DEF OnTheWay

(* A fix starts a candidate, or adds to the one that stands. *)
LEMMA AdvancedFacts ==
  ASSUME NEW fix, RoadStep(fix), NEW zone \in FindMatchingZone(fix.place)
  PROVE  /\ Advanced(fix, zone).zone = zone /\ Advanced(fix, zone) # None
         /\ Advanced(fix, zone).lastArc = Arc[zone][fix.place]
         /\ Open = None \/ Open.zone # zone =>
              /\ Advanced(fix, zone).fixes = 1
              /\ Advanced(fix, zone).entryArc = Arc[zone][fix.place]
         /\ Open # None /\ Open.zone = zone /\ Open.fixes >= 1 /\ Steady =>
              /\ Advanced(fix, zone).fixes = 2
              /\ Advanced(fix, zone).entryArc = Open.entryArc
<1>0. Advanced(fix, zone) # None
  <2>1. /\ Open \in {pendingEntry, None} /\ zone \in Zones
        /\ Arc[zone][fix.place] \in Nat
    BY MatchIsZone, ArcTyped DEF Open, RoadStep
  <2>2. Advanced(fix, zone) \in Candidate
    BY <2>1, CandidateFacts DEF Advanced, RoadStep
  <2> QED
    BY <2>2, NoneAssumption
<1>1. CASE Open = None \/ Open.zone # zone
  BY <1>0, <1>1 DEF Advanced, AdvancePendingEntry
<1>2. CASE Open # None /\ Open.zone = zone
  <2>1. pendingEntry # None /\ Open = pendingEntry /\ pendingEntry \in Candidate
    BY <1>2 DEF Open, RoadStep, IInv, TypeOK
  <2>2. pendingEntry.lastTime = now /\ pendingEntry.fixes \in Nat
    BY <2>1 DEF RoadStep, IInv, CandidateIsCurrent, ClockOK, Candidate
  <2>3. CASE fix.t - now <= ENTRY_CONFIRM_TIMEOUT
    <3>1. Advanced(fix, zone) =
            [Open EXCEPT
               !.fixes = Smaller(@ + 1, ENTRY_CONFIRM_FIXES),
               !.distance = @ + TravelSince(lastPoint, fix, Open.lastArc,
                                            Arc[zone][fix.place]),
               !.lastArc = Arc[zone][fix.place],
               !.lastTime = fix.t]
      BY <1>2, <2>1, <2>2, <2>3 DEF Advanced, AdvancePendingEntry
    <3>2. pendingEntry.fixes >= 1 => Smaller(pendingEntry.fixes + 1, 2) = 2
      BY <2>2 DEF Smaller
    <3> QED
      BY <1>0, <1>2, <2>1, <2>2, <3>1, <3>2 DEF Candidate, Steady
  <2>4. CASE ~(fix.t - now <= ENTRY_CONFIRM_TIMEOUT)
    <3>1. ~Steady
      BY <2>4 DEF Steady, RoadStep
    <3> QED
      BY <1>0, <1>2, <2>1, <2>2, <2>4, <3>1 DEF Advanced, AdvancePendingEntry
  <2> QED
    BY <2>3, <2>4
<1> QED
  BY <1>1, <1>2

(* The zone that is met is entered, or starts to wait for confirmation; if it
   was waiting, it is entered or goes on waiting.                          *)
LEMMA StartsWaiting ==
  ASSUME NEW fix, RoadStep(fix), NEW z \in FindMatchingZone(fix.place),
         Meet(fix, z), Open = None \/ Open.zone # z,
         NEW m \in Int, fix.place <= Larger(m, Begin[z])
  PROVE  \/ Finishing(z, fix.place) /\ Idle(fix)
         \/ /\ ~Finishing(z, fix.place)
            /\ Measured(z)' \/ Waiting(z, m)'
<1>1. /\ Advanced(fix, z).zone = z
      /\ Advanced(fix, z).fixes = 1
      /\ Advanced(fix, z).entryArc = Arc[z][fix.place]
  BY AdvancedFacts
<1>2. z \in Zones /\ fix.place \in Places /\ fix.place \in Int
  BY MatchIsZone DEF RoadStep
<1>3. Arc[z][fix.place] <= Larger(m, Begin[z]) - Begin[z]
  <2>1. /\ Arc[z][fix.place] = Smaller(Larger(fix.place - Begin[z], 0), Length[z])
        /\ Begin[z] \in Int /\ Length[z] \in Nat
    BY <1>2, RoadAssumption, GeometryAssumption
  <2> QED
    BY <1>2, <2>1 DEF Larger, Smaller
<1>4. ~IsConfirmed(Advanced(fix, z))
  BY <1>1, ThresholdAssumption DEF IsConfirmed
<1>5. lastPoint' = fix
  BY DEF RoadStep
<1>6. ASSUME state'.kind = "Outside", pendingEntry' = Advanced(fix, z)
      PROVE  Waiting(z, m)'
  <2>1. Advanced(fix, z) # None
    BY AdvancedFacts
  <2>2. ~IsConfirmed(pendingEntry)'
    BY <1>4, <1>6 DEF IsConfirmed
  <2>3. (lastPoint.place <= Larger(m, Begin[z]))'
    BY <1>5
  <2> QED
    BY <1>1, <1>3, <1>6, <2>1, <2>2, <2>3 DEF Waiting
<1> QED
  BY <1>4, <1>6 DEF Meet, Measured

LEMMA KeepsWaiting ==
  ASSUME NEW fix, RoadStep(fix), NEW z \in FindMatchingZone(fix.place),
         Meet(fix, z), Steady, NEW m \in Int, Waiting(z, m)
  PROVE  \/ Finishing(z, fix.place) /\ Idle(fix)
         \/ /\ ~Finishing(z, fix.place)
            /\ \/ Measured(z)'
               \/ /\ Shown(z)'
                  /\ Larger(m, Begin[z]) - Begin[z] > START_WITNESS_ARC_M
               \/ Waiting(z, m)'
<1>1. Open = pendingEntry /\ Open # None /\ Open.zone = z /\ Open.fixes >= 1
  BY DEF Waiting, Open
<1>2. /\ Advanced(fix, z).zone = z
      /\ Advanced(fix, z).fixes = 2
      /\ Advanced(fix, z).entryArc = pendingEntry.entryArc
  BY <1>1, AdvancedFacts
<1>4. ASSUME ~WitnessedStart(Advanced(fix, z))
      PROVE  Larger(m, Begin[z]) - Begin[z] > START_WITNESS_ARC_M
  <2>1. pendingEntry.entryArc \in Nat
    BY <1>1 DEF RoadStep, IInv, TypeOK, Candidate
  <2>2. z \in Zones /\ Begin[z] \in Int
    BY MatchIsZone, RoadTyped
  <2>3. Larger(m, Begin[z]) - Begin[z] \in Int
    BY <2>2 DEF Larger
  <2>4. pendingEntry.entryArc > START_WITNESS_ARC_M
    BY <1>2, <1>4, <2>1, ThresholdAssumption DEF WitnessedStart
  <2> QED
    BY <2>1, <2>3, <2>4, ThresholdAssumption DEF Waiting
<1>5. ASSUME state'.kind = "Outside", pendingEntry' = Advanced(fix, z),
             ~IsConfirmed(Advanced(fix, z))
      PROVE  Waiting(z, m)'
  <2>1. Advanced(fix, z) # None
    BY AdvancedFacts
  <2>2. ~IsConfirmed(pendingEntry)'
    BY <1>5 DEF IsConfirmed
  <2> QED
    BY <1>2, <1>5, <2>1, <2>2 DEF Waiting
<1> QED
  BY <1>4, <1>5 DEF Meet, Measured, Shown

(* Where the car can be after the next fix, if it is in a zone now. *)
LEMMA StridesOn ==
  ASSUME NEW fix, RoadStep(fix), OnTheWay,
         state.kind \in {"InZone", "Unmeasured"}
  PROVE  /\ lastPoint # None /\ state.zone \in Zones
         /\ End(state.zone) \in Int
         /\ lastPoint.place < End(state.zone)
         /\ fix.place < End(state.zone) + Stride
<1>1. lastPoint # None /\ lastPoint.place < End(state.zone) /\ state.zone \in Zones
  BY DEF OnTheWay, Within, RoadStep, IInv, TypeOK, ZoneState
<1>2. End(state.zone) \in Int /\ Stride \in Nat
  BY <1>1, RoadTyped, RoadAssumption
<1>3. /\ lastPoint.place \in Int /\ fix.place \in Int
      /\ fix.place <= lastPoint.place + Stride
  BY <1>1 DEF RoadStep
<1> QED
  BY <1>1, <1>2, <1>3

LEMMA ApproachStep ==
  ASSUME NEW fix, RoadStep(fix), OnTheWay, Steady, NEW z \in ApproachedZones,
         lastPoint # None => Approaching(z)
  PROVE  Approaching(z)'
<1> DEFINE x == fix.place  m == FirstSeenBy(z)
<1>1. /\ z \in Zones /\ Approached(z)
      /\ Begin[z] \in Int /\ End(z) \in Int /\ Reach(z) \in Int
      /\ Reach(z) <= End(z) /\ Begin[z] <= End(z)
      /\ Stride \in Nat /\ Lead \in Int /\ EXIT_DISTANCE_M \in Nat
      /\ EXIT_DISTANCE_M < Length[z]
  BY RoadTyped, RoadAssumption, ThresholdAssumption
     DEF ApproachedZones, Approached, End
<1>2. /\ x \in Places /\ x \in Int /\ lastPoint' = fix
      /\ lastPoint # None => /\ lastPoint.place \in Places
                             /\ lastPoint.place \in Int
                             /\ lastPoint.place <= x
                             /\ x <= lastPoint.place + Stride
  BY DEF RoadStep
<1>3. m \in Int /\ Larger(m, Begin[z]) - Begin[z] <= START_WITNESS_ARC_M
  BY <1>1, ThresholdAssumption DEF FirstSeenBy, Approached, Larger
<1>4. ASSUME x < Reach(z), state'.kind \in {"InZone", "Unmeasured"}
      PROVE  End(state'.zone) + Stride <= Reach(z)
  <2>1. CASE FreeStep(fix)
    <3>1. state'.zone \in FindMatchingZone(x)
      BY <1>4, <2>1 DEF FreeStep, Meet, Idle
    <3> QED
      BY <1>1, <1>2, <1>4, <3>1 DEF Approached
  <2>2. CASE StayStep(fix)
    <3>1. state.kind \in {"InZone", "Unmeasured"} /\ state'.zone = state.zone
      BY <2>2 DEF StayStep
    <3>2. lastPoint # None /\ lastPoint.place < Reach(z)
      BY <1>1, <1>2, <1>4, <3>1, StridesOn
    <3> QED
      BY <3>1, <3>2 DEF Approaching
  <2>3. CASE LeaveStep(fix)
    BY <1>4, <2>3 DEF LeaveStep
  <2> QED
    BY <2>1, <2>2, <2>3 DEF RoadStep
<1>5. ASSUME Within(x, Reach(z), End(z))
      PROVE  \/ Measured(z)'
             \/ /\ state'.kind \in {"Outside", "Exiting"} /\ pendingEntry' = None
                /\ x >= End(z) - EXIT_DISTANCE_M
             \/ Waiting(z, m)' /\ x < End(z) - EXIT_DISTANCE_M
  <2>1. FindMatchingZone(x) = {z}
    BY <1>1, <1>2, <1>5 DEF Approached
  <2>2. Finishing(z, x) <=> x >= End(z) - EXIT_DISTANCE_M
    BY <1>1, <1>2, Thresholds
  <2>3. ASSUME state.kind \in {"InZone", "Unmeasured"}
        PROVE  Measured(z)
    <3>1. /\ lastPoint # None /\ End(state.zone) \in Int
          /\ x < End(state.zone) + Stride
      BY <2>3, StridesOn
    <3>2. ~(lastPoint.place < Reach(z))
      <4> SUFFICES ASSUME lastPoint.place < Reach(z) PROVE FALSE
        OBVIOUS
      <4>1. End(state.zone) + Stride <= Reach(z)
        BY <2>3, <3>1 DEF Approaching
      <4> QED
        BY <1>1, <1>2, <1>5, <3>1, <4>1 DEF Within
    <3>3. Within(lastPoint.place, Reach(z), End(z))
      BY <1>1, <1>2, <1>5, <3>1, <3>2 DEF Within
    <3> QED
      BY <2>3, <3>1, <3>3 DEF Approaching, Waiting
  <2>4. CASE FreeStep(fix)
    <3>0. Meet(fix, z) /\ state.kind \in {"Outside", "Exiting"}
      BY <2>1, <2>4 DEF FreeStep
    <3>1. CASE (Open = None \/ Open.zone # z) /\ x <= Larger(m, Begin[z])
      BY <1>1, <1>2, <1>3, <2>1, <2>2, <3>0, <3>1, StartsWaiting DEF Idle
    <3>2. CASE lastPoint # None /\ Waiting(z, m)
      <4>1. \/ Finishing(z, x) /\ Idle(fix)
            \/ ~Finishing(z, x) /\ (Measured(z)' \/ Waiting(z, m)')
        <5>1. z \in FindMatchingZone(fix.place)
          BY <2>1
        <5>2. ~(Larger(m, Begin[z]) - Begin[z] > START_WITNESS_ARC_M)
          <6>1. Larger(m, Begin[z]) - Begin[z] \in Int
            BY <1>1, <1>3 DEF Larger
          <6> QED
            BY <1>3, <6>1, ThresholdAssumption
        <5> HIDE DEF m
        <5> QED
          BY <1>3, <3>0, <3>2, <5>1, <5>2, KeepsWaiting
      <4> QED
        BY <1>1, <1>2, <2>2, <4>1 DEF Idle
    <3>3. CASE /\ lastPoint # None /\ pendingEntry = None
               /\ lastPoint.place >= End(z) - EXIT_DISTANCE_M
      <4>1. Finishing(z, x)
        BY <1>1, <1>2, <2>2, <3>3
      <4> QED
        BY <2>2, <3>0, <4>1 DEF Meet, Idle
    <3>4. CASE lastPoint = None
      <4>1. x = -Lead /\ x < Begin[z]
        BY <1>1, <3>4 DEF RoadStep, Approached
      <4>2. Open = None
        BY <3>4 DEF Open, RoadStep, IInv, CandidateIsCurrent
      <4>3. x <= Larger(m, Begin[z])
        BY <1>1, <1>2, <1>3, <4>1 DEF Larger
      <4> QED
        BY <3>1, <4>2, <4>3
    <3>5. CASE lastPoint # None /\ lastPoint.place < Reach(z)
      <4>1. Open = None \/ Open.zone # z
        <5> SUFFICES ASSUME Open # None, Open.zone = z PROVE FALSE
          OBVIOUS
        <5>1. z \in FindMatchingZone(lastPoint.place)
          BY DEF Open, RoadStep, IInv, CandidateIsCurrent
        <5>2. End(z) + Stride <= Reach(z)
          BY <1>1, <1>2, <3>5, <5>1 DEF Approached
        <5>3. End(z) = Begin[z] + Length[z] /\ Reach(z) <= Begin[z]
              /\ Length[z] \in Nat
          BY <1>1, RoadTyped DEF End, Reach
        <5> QED
          BY <1>1, <5>2, <5>3
      <4>2. m = Reach(z) + Stride
        <5>1. lastPoint.place >= -Lead
          BY <3>5 DEF OnTheWay
        <5> QED
          BY <1>1, <1>2, <3>5, <5>1 DEF FirstSeenBy
      <4>3. x <= Larger(m, Begin[z])
        BY <1>1, <1>2, <3>5, <4>2 DEF Larger
      <4> QED
        BY <3>1, <4>1, <4>3
    <3>6. CASE lastPoint # None /\ ~(lastPoint.place < Reach(z))
      <4>1. Within(lastPoint.place, Reach(z), End(z))
        BY <1>1, <1>2, <1>5, <3>6 DEF Within
      <4> QED
        BY <3>0, <3>2, <3>3, <3>6, <4>1 DEF Approaching, Measured
    <3> QED
      BY <3>4, <3>5, <3>6
  <2>5. CASE StayStep(fix)
    BY <2>3, <2>5 DEF StayStep, Measured
  <2>6. CASE LeaveStep(fix)
    <3>1. Measured(z)
      BY <2>3, <2>6 DEF LeaveStep
    <3>2. OnRoad(z, x)
      BY <1>1, <1>2, <2>1, Thresholds
    <3>3. x >= End(z) - EXIT_DISTANCE_M
      BY <1>1, <1>2, <2>6, <3>1, <3>2, Thresholds DEF LeaveStep, Measured
    <3> QED
      BY <2>6, <3>1, <3>3 DEF LeaveStep, Measured
  <2> QED
    BY <2>4, <2>5, <2>6 DEF RoadStep
<1> QED
  BY <1>2, <1>4, <1>5 DEF Approaching

LEMMA FollowsFacts ==
  ASSUME NEW p, NEW z, <<p, z>> \in Successions
  PROVE  /\ p \in Zones /\ z \in Zones /\ Follows(p, z) /\ p # z
         /\ End(p) \in Int /\ End(z) \in Int
         /\ Reach(z) \in Int /\ Reach(p) \in Int /\ Reach(p) <= End(p)
         /\ Begin[z] \in Int /\ Begin[p] \in Int
         /\ Reach(z) <= End(p) /\ Begin[p] <= End(p)
         /\ Stride \in Nat /\ EXIT_DISTANCE_M \in Nat
         /\ COLOCATED_HANDOVER \in Nat
<1>1. p \in Zones /\ z \in Zones /\ Follows(p, z)
  BY DEF Successions
<1> QED
  BY <1>1, RoadTyped, RoadAssumption, ThresholdAssumption DEF Follows, End

(* The offer of p's exit is live, and p is at its end: z is entered at the
   first fix it holds and p does not.                                      *)
LEMMA OfferTaken ==
  ASSUME NEW fix, RoadStep(fix), NEW p, NEW z, <<p, z>> \in Successions,
         FreeStep(fix), Open = None,
         LiveOffer(fix) # None, LiveOffer(fix).from = p,
         fix.place >= End(p) - EXIT_DISTANCE_M,
         fix.place < End(z) - EXIT_DISTANCE_M
  PROVE  Measured(z)' \/ (Idle(fix) /\ fix.place <= End(p))
<1> DEFINE x == fix.place
<1>1. x \in Places /\ x \in Int
  BY DEF RoadStep
<1>2. x < End(z)
  BY <1>1, FollowsFacts
<1>3. CASE FindMatchingZone(x) = {} /\ Idle(fix)
  BY <1>1, <1>2, <1>3, FollowsFacts DEF Follows
<1>4. CASE z \in FindMatchingZone(x) /\ Meet(fix, z)
  <2>1. ~Finishing(z, x)
    BY <1>1, FollowsFacts, Thresholds DEF Follows
  <2>2. HandedOver(LiveOffer(fix), z)
    BY FollowsFacts DEF HandedOver, ContinuesHandoverDirection, Follows
  <2> QED
    BY <1>4, <2>1, <2>2 DEF Meet, Measured
<1>5. ASSUME NEW zone \in FindMatchingZone(x), zone # z, Meet(fix, zone)
      PROVE  Idle(fix) /\ x <= End(p)
  <2>1. x <= End(p) /\ zone = p
    BY <1>1, <1>2, <1>5, FollowsFacts DEF Follows
  <2>2. Finishing(p, x)
    BY <1>1, FollowsFacts, Thresholds
  <2> QED
    BY <1>5, <2>1, <2>2 DEF Meet
<1> QED
  BY <1>3, <1>4, <1>5 DEF FreeStep

(* A car that leaves a zone at its end leaves it an offer, within a stride. *)
LEMMA LeavesAtEnd ==
  ASSUME NEW fix, RoadStep(fix), OnTheWay, LeaveStep(fix),
         state.kind = "InZone", EXIT_DISTANCE_M < Length[state.zone],
         ReachedEnd(state.zone, fix.place)
  PROVE  /\ fix.place >= End(state.zone) - EXIT_DISTANCE_M
         /\ fix.place < End(state.zone) + Stride
         /\ state'.kind = "Exiting" /\ pendingEntry' = None
         /\ handover' = [from |-> state.zone,
                         expiresAt |-> fix.t + COLOCATED_HANDOVER]
         /\ handover' # None
<1>1. state.zone \in Zones /\ fix.place < End(state.zone) + Stride
  BY StridesOn
<1>2. fix.place >= End(state.zone) - EXIT_DISTANCE_M
  BY <1>1, Thresholds DEF RoadStep
<1>3. /\ state'.kind = "Exiting" /\ pendingEntry' = None
      /\ handover' = [from |-> state.zone,
                      expiresAt |-> fix.t + COLOCATED_HANDOVER]
  BY DEF LeaveStep
<1>4. fix.t + COLOCATED_HANDOVER \in Nat
  BY ThresholdAssumption DEF RoadStep
<1>5. handover' \in Offer
  BY <1>1, <1>3, <1>4 DEF Offer
<1> QED
  BY <1>1, <1>2, <1>3, <1>5, NoneAssumption

LEMMA HandoverStep ==
  ASSUME NEW fix, RoadStep(fix), OnTheWay, NEW p, NEW z,
         <<p, z>> \in Successions,
         lastPoint # None => HandingOver(p, z)
  PROVE  HandingOver(p, z)'
<1> DEFINE x == fix.place
<1>1. /\ x \in Places /\ x \in Int /\ lastPoint' = fix /\ now' = fix.t
      /\ fix.t \in Nat /\ now \in Nat /\ now <= fix.t
      /\ lastPoint # None => lastPoint.place \in Int /\ lastPoint.place <= x
  BY DEF RoadStep
<1>2. SUFFICES ASSUME lastExit' # None, lastExit'.zone = p,
                      lastExit'.reachedEnd,
                      fix.t <= lastExit'.at + COLOCATED_HANDOVER,
                      x < End(z) - EXIT_DISTANCE_M
               PROVE  /\ x >= End(p) - EXIT_DISTANCE_M
                      /\ \/ Measured(z)'
                         \/ /\ handover' # None /\ pendingEntry' = None
                            /\ \/ state'.kind = "Exiting" /\ x < End(p) + Stride
                               \/ state'.kind = "Outside" /\ x <= End(p)
  BY <1>1 DEF HandingOver, Measured
<1>3. CASE LeaveStep(fix) /\ state.kind = "InZone"
  <2>1. state.zone = p /\ ReachedEnd(state.zone, x)
    BY <1>2, <1>3 DEF LeaveStep
  <2>2. EXIT_DISTANCE_M < Length[state.zone]
    BY <2>1, FollowsFacts DEF Follows
  <2> QED
    BY <1>3, <2>1, <2>2, LeavesAtEnd
<1>4. CASE lastExit' = lastExit /\ ~(LeaveStep(fix) /\ state.kind = "InZone")
  <2>1. lastPoint # None /\ lastExit.at \in Nat
    BY <1>2, <1>4 DEF OnTheWay, RoadStep, IInv, TypeOK, Exit
  <2>2. /\ lastPoint.place >= End(p) - EXIT_DISTANCE_M
        /\ \/ Measured(z)
           \/ handover # None /\ pendingEntry = None
    <3>1. now <= lastExit.at + COLOCATED_HANDOVER
      BY <1>1, <1>2, <1>4, <2>1, FollowsFacts
    <3>2. lastPoint.place < End(z) - EXIT_DISTANCE_M
      BY <1>1, <1>2, <2>1, FollowsFacts
    <3> QED
      BY <1>2, <1>4, <2>1, <3>1, <3>2 DEF HandingOver
  <2>3. x >= End(p) - EXIT_DISTANCE_M
    BY <1>1, <2>1, <2>2, FollowsFacts
  <2>4. CASE Measured(z)
    <3>1. StayStep(fix)
      BY <1>4, <2>4 DEF RoadStep, FreeStep, LeaveStep, Measured
    <3> QED
      BY <2>3, <2>4, <3>1 DEF StayStep, Measured
  <2>5. CASE handover # None /\ pendingEntry = None
    <3>1. /\ handover = [from |-> p,
                         expiresAt |-> lastExit.at + COLOCATED_HANDOVER]
          /\ state.kind \in {"Outside", "Exiting"}
      BY <1>2, <1>4, <2>5 DEF RoadStep, IInv, OfferIsLatestExit
    <3>2. LiveOffer(fix) = handover /\ handover.from = p
      BY <1>2, <1>4, <2>5, <3>1 DEF LiveOffer
    <3>3. FreeStep(fix) /\ Open = None
      BY <2>5, <3>1 DEF RoadStep, StayStep, LeaveStep, Open
    <3>4. Measured(z)' \/ (Idle(fix) /\ x <= End(p))
      BY <1>2, <2>3, <2>5, <3>2, <3>3, OfferTaken
    <3> QED
      BY <2>3, <2>5, <3>2, <3>4 DEF Idle
  <2> QED
    BY <2>2, <2>4, <2>5
<1> QED
  BY <1>3, <1>4 DEF RoadStep, FreeStep, StayStep, LeaveStep

LEMMA TakeoverStep ==
  ASSUME NEW fix, RoadStep(fix), OnTheWay, Steady, NEW p, NEW z,
         <<p, z>> \in Successions, p \in ApproachedZones,
         lastPoint # None => Approaching(p) /\ TakingOver(p, z)
  PROVE  TakingOver(p, z)'
<1> DEFINE x == fix.place  y == lastPoint.place  m == End(p) + Stride
           left == /\ state'.kind = "Exiting" /\ x < m
                   /\ handover' = [from |-> p,
                                   expiresAt |-> fix.t + COLOCATED_HANDOVER]
           idle == /\ state'.kind = "Outside" /\ pendingEntry' = None
                   /\ x = End(p)
<1>1. /\ x \in Places /\ x \in Int /\ lastPoint' = fix /\ now' = fix.t
      /\ fix.t \in Nat /\ now \in Nat /\ fix.t - now \in Gaps
      /\ lastPoint # None => /\ y \in Places /\ y \in Int
                             /\ y <= x /\ x <= y + Stride
  BY DEF RoadStep
<1>2. SUFFICES ASSUME Within(x, End(p), End(z) - EXIT_DISTANCE_M)
               PROVE  Shown(z)' \/ left \/ idle \/ Waiting(z, m)'
  BY <1>1 DEF TakingOver
<1>3. /\ End(p) <= x /\ x < End(z) - EXIT_DISTANCE_M
      /\ ~Finishing(z, x) /\ ~ReachedEnd(z, x) /\ OnRoad(z, x)
  <2>1. End(p) <= x /\ x < End(z) - EXIT_DISTANCE_M
    BY <1>2 DEF Within
  <2>2. Within(x, Reach(z), End(z))
    BY <1>1, <2>1, FollowsFacts DEF Within
  <2> QED
    BY <1>1, <2>1, <2>2, FollowsFacts, Thresholds DEF Follows
<1>4. lastPoint # None
  <2>1. -Lead < Begin[p] /\ Lead \in Int
    BY RoadAssumption DEF ApproachedZones, Approached
  <2> QED
    BY <1>1, <1>3, <2>1, FollowsFacts DEF RoadStep
<1>5. ASSUME FreeStep(fix)
      PROVE  (z \in FindMatchingZone(x) /\ Meet(fix, z)) \/ idle
  <2>1. CASE FindMatchingZone(x) = {} /\ Idle(fix)
    BY <1>1, <1>3, <2>1, FollowsFacts DEF Follows, Idle
  <2>2. ASSUME NEW zone \in FindMatchingZone(x), zone # z, Meet(fix, zone)
        PROVE  idle
    <3>1. x = End(p) /\ zone = p
      BY <1>1, <1>3, <2>2, FollowsFacts DEF Follows
    <3>2. Finishing(p, x)
      BY <1>1, <3>1, FollowsFacts, Thresholds
    <3> QED
      BY <2>2, <3>1, <3>2 DEF Meet, Idle
  <2> QED
    BY <1>5, <2>1, <2>2 DEF FreeStep
<1>6. m \in Int /\ (Measured(z)' => Shown(z)')
  BY FollowsFacts DEF Measured, Shown
<1>7. ASSUME FreeStep(fix), Open = None \/ Open.zone # z, x <= m
      PROVE  Shown(z)' \/ idle \/ Waiting(z, m)'
  <2>1. x <= Larger(m, Begin[z])
    BY <1>1, <1>7, FollowsFacts DEF Larger
  <2>2. ASSUME z \in FindMatchingZone(fix.place), Meet(fix, z)
        PROVE  Measured(z)' \/ Waiting(z, m)'
    <3> HIDE DEF m
    <3> QED
      BY <1>3, <1>6, <1>7, <2>1, <2>2, StartsWaiting
  <2> HIDE DEF m, idle
  <2> QED
    BY <1>5, <1>6, <1>7, <2>2
<1>8. CASE y >= End(p)
  <2>1. Within(y, End(p), End(z) - EXIT_DISTANCE_M)
    BY <1>1, <1>3, <1>4, <1>8, FollowsFacts DEF Within
  <2>2. CASE Shown(z)
    <3>1. StayStep(fix)
      BY <1>3, <2>2 DEF RoadStep, FreeStep, LeaveStep, Shown
    <3> QED
      BY <2>2, <3>1 DEF StayStep, Shown
  <2>3. CASE /\ state.kind = "Exiting"
             /\ handover = [from |-> p, expiresAt |-> now + COLOCATED_HANDOVER]
    <3>1. FreeStep(fix) /\ Open = None
      BY <2>3 DEF RoadStep, StayStep, LeaveStep, Open
    <3>2. handover # None
      <4>1. now + COLOCATED_HANDOVER \in Nat
        BY <1>1, FollowsFacts
      <4>2. handover \in Offer
        BY <2>3, <4>1, FollowsFacts DEF Offer
      <4> QED
        BY <4>2, NoneAssumption
    <3>3. fix.t <= now + COLOCATED_HANDOVER
      <4>1. fix.t - now <= COLOCATED_HANDOVER
        BY <1>1 DEF Steady
      <4> QED
        BY <1>1, <4>1, FollowsFacts
    <3>4. LiveOffer(fix) = handover /\ handover.from = p
      BY <2>3, <3>2, <3>3 DEF LiveOffer
    <3>5. x >= End(p) - EXIT_DISTANCE_M
      BY <1>1, <1>3, FollowsFacts
    <3>6. Measured(z)' \/ (Idle(fix) /\ x <= End(p))
      BY <1>3, <3>1, <3>2, <3>4, <3>5, OfferTaken
    <3>7. Idle(fix) /\ x <= End(p) => idle
      BY <1>1, <1>3, FollowsFacts DEF Idle
    <3> HIDE DEF m, idle, left
    <3> QED
      BY <1>6, <3>6, <3>7
  <2>4. CASE state.kind = "Outside" /\ pendingEntry = None /\ y = End(p)
    <3>1. FreeStep(fix) /\ Open = None
      BY <2>4 DEF RoadStep, StayStep, LeaveStep, Open
    <3> QED
      BY <1>1, <1>4, <1>7, <2>4, <3>1
  <2>5. CASE Waiting(z, m)
    <3>1. FreeStep(fix)
      BY <2>5 DEF RoadStep, StayStep, LeaveStep, Waiting
    <3>2. ASSUME z \in FindMatchingZone(fix.place), Meet(fix, z)
          PROVE  Measured(z)' \/ Shown(z)' \/ Waiting(z, m)'
      <4> HIDE DEF m
      <4> QED
        BY <1>3, <1>6, <2>5, <3>2, KeepsWaiting
    <3> HIDE DEF m, idle
    <3> QED
      BY <1>5, <1>6, <3>1, <3>2
  <2> QED
    BY <1>4, <2>1, <2>2, <2>3, <2>4, <2>5 DEF TakingOver
<1>9. CASE y < End(p)
  <2>1. /\ Approached(p) /\ Approaching(p)
        /\ y < Reach(p) \/ Within(y, Reach(p), End(p))
    BY <1>1, <1>4, <1>9, FollowsFacts DEF ApproachedZones, Within
  <2>2. CASE FreeStep(fix)
    <3>1. Open = None \/ Open.zone # z
      <4> SUFFICES ASSUME Open # None, Open.zone = z PROVE FALSE
        OBVIOUS
      <4>1. z \in FindMatchingZone(y)
        BY DEF Open, RoadStep, IInv, CandidateIsCurrent
      <4>2. CASE Within(y, Reach(p), End(p))
        BY <1>1, <1>4, <2>1, <4>1, <4>2, FollowsFacts DEF Approached
      <4>3. CASE y < Reach(p)
        <5>1. End(z) + Stride <= Reach(p)
          BY <1>1, <1>4, <2>1, <4>1, <4>3 DEF Approached
        <5> QED
          BY <1>1, <1>3, <5>1, FollowsFacts
      <4> QED
        BY <2>1, <4>2, <4>3
    <3>2. x <= m
      BY <1>1, <1>4, <1>9, FollowsFacts
    <3> QED
      BY <1>7, <2>2, <3>1, <3>2
  <2>3. ASSUME state.kind \in {"InZone", "Unmeasured"}
        PROVE  Measured(p)
    <3>1. End(state.zone) \in Int /\ x < End(state.zone) + Stride
      BY <2>3, StridesOn
    <3>2. ~(y < Reach(p))
      BY <1>1, <1>3, <2>1, <2>3, <3>1, FollowsFacts DEF Approaching
    <3> QED
      BY <2>1, <2>3, <3>2 DEF Approaching, Waiting
  <2>4. CASE StayStep(fix)
    <3>1. ~ReachedEnd(p, x)
      BY <2>3, <2>4 DEF StayStep, Measured
    <3> QED
      BY <1>1, <1>3, <3>1, FollowsFacts, Thresholds
  <2>5. CASE LeaveStep(fix)
    <3>1. Measured(p)
      BY <2>3, <2>5 DEF LeaveStep
    <3>2. x < m
      BY <3>1, StridesOn DEF Measured
    <3> QED
      BY <2>5, <3>1, <3>2 DEF LeaveStep, Measured
  <2> QED
    BY <2>2, <2>4, <2>5 DEF RoadStep
<1>10. y \in Int /\ End(p) \in Int
  BY <1>1, <1>4, FollowsFacts
<1> QED
  BY <1>8, <1>9, <1>10

-----------------------------------------------------------------------------
LEMMA TrackedInvariant == DriveSpec => []TInv
<1>1. DriveInit => TInv
  <2> SUFFICES ASSUME DriveInit PROVE TInv
    OBVIOUS
  <2>1. IInv
    BY InitIInv DEF DriveInit
  <2>2. OnTheWay /\ Counted
    BY DEF DriveInit, Init, Outside, OnTheWay, Counted
  <2> QED
    BY <2>1, <2>2 DEF TInv
<1>2. TInv /\ [DriveNext]_dvars => TInv'
  <2> SUFFICES ASSUME TInv, [DriveNext]_dvars PROVE TInv'
    OBVIOUS
  <2>1. CASE DriveNext
    <3>1. PICK gap \in Gaps, speed \in Speeds : Drive(gap, speed)
      BY <2>1 DEF DriveNext
    <3>2. PICK fix : RoadStep(fix)
      BY <3>1, DriveIsRoadStep DEF TInv
    <3>3. IInv'
      <4>1. [t |-> now + gap, place |-> Driven(gap, speed), speed |-> speed]
              \in NextFixes
        BY <3>1, TravelOfDrive DEF Drive, TInv
      <4> QED
        BY <3>1, <4>1, UpdateStep DEF Drive, TInv
    <3>4. OnTheWay'
      BY <3>2, OnTheWayStep DEF TInv
    <3>5. ASSUME Steady, NEW z \in ApproachedZones
          PROVE  Approaching(z)'
      <4>1. lastPoint # None => Approaching(z)
        BY <3>5 DEF TInv, Counted
      <4> QED
        BY <3>2, <3>5, <4>1, ApproachStep DEF TInv
    <3>6. ASSUME NEW s \in Successions
          PROVE  /\ HandingOver(s[1], s[2])'
                 /\ Steady /\ s[1] \in ApproachedZones =>
                      TakingOver(s[1], s[2])'
      <4>1. s = <<s[1], s[2]>>
        BY DEF Successions
      <4>2. lastPoint # None => HandingOver(s[1], s[2])
        BY DEF TInv, Counted
      <4>3. HandingOver(s[1], s[2])'
        BY <3>2, <4>1, <4>2, HandoverStep DEF TInv
      <4>4. ASSUME Steady, s[1] \in ApproachedZones
            PROVE  TakingOver(s[1], s[2])'
        <5>1. lastPoint # None =>
                Approaching(s[1]) /\ TakingOver(s[1], s[2])
          BY <4>4 DEF TInv, Counted
        <5> QED
          BY <3>2, <4>1, <4>4, <5>1, TakeoverStep DEF TInv
      <4> QED
        BY <4>3, <4>4
    <3>7. Counted'
      BY <3>5, <3>6 DEF Counted
    <3> QED
      BY <3>3, <3>4, <3>7 DEF TInv
  <2>2. CASE UNCHANGED dvars
    <3>1. IInv'
      BY <2>2, StutterStep DEF dvars, TInv
    <3>2. OnTheWay' /\ Counted'
      BY <2>2 DEF TInv, dvars, vars, OnTheWay, Counted, Approaching,
                  HandingOver, TakingOver, Waiting, IsConfirmed, Measured, Shown
    <3> QED
      BY <3>1, <3>2 DEF TInv
  <2> QED
    BY <2>1, <2>2
<1> QED
  BY <1>1, <1>2, PTL DEF DriveSpec

(* A candidate that waits cannot be as far as confirmation must be over. *)
LEMMA WaitingIsShort ==
  ASSUME IInv, Steady, NEW z \in Zones, RequiredProgress(z) > 0,
         NEW m \in Int, Waiting(z, m), lastPoint.place < End(z)
  PROVE  lastPoint.place < ConfirmedBy(z, m)
<1> DEFINE x == lastPoint.place  b == Larger(m, Begin[z])
<1>1. /\ lastPoint # None /\ x \in Places /\ x \in Int
      /\ pendingEntry \in Candidate
      /\ pendingEntry.zone = z /\ pendingEntry.lastArc = Arc[z][x]
  BY RoadAssumption
     DEF Waiting, IInv, TypeOK, CandidateIsCurrent, Fix
<1>2. /\ Begin[z] \in Int /\ Length[z] \in Nat /\ RequiredProgress(z) \in Nat
      /\ b \in Int /\ Begin[z] <= b
  BY RoadTyped DEF Larger
<1>3. CASE pendingEntry.fixes >= 2
  <2>1. Arc[z][x] - pendingEntry.entryArc < RequiredProgress(z)
    <3>1. ~(Arc[z][x] - pendingEntry.entryArc >= RequiredProgress(z))
      BY <1>1, <1>3 DEF Waiting, IsConfirmed, Steady
    <3>2. Arc[z][x] \in Nat /\ pendingEntry.entryArc \in Nat
      BY <1>1, ArcTyped DEF Candidate
    <3> QED
      BY <1>2, <3>1, <3>2
  <2>2. pendingEntry.entryArc \in Nat /\ pendingEntry.entryArc <= b - Begin[z]
    BY <1>1 DEF Waiting, Candidate
  <2>3. Arc[z][x] >= x - Begin[z] /\ Arc[z][x] \in Nat
    <3>1. Arc[z][x] = Smaller(Larger(x - Begin[z], 0), Length[z])
      BY <1>1, RoadAssumption
    <3>2. x - Begin[z] < Length[z]
      BY <1>1, <1>2 DEF End
    <3> QED
      BY <1>1, <1>2, <3>1, <3>2 DEF Larger, Smaller
  <2> HIDE DEF b
  <2> QED
    BY <1>1, <1>2, <2>1, <2>2, <2>3 DEF ConfirmedBy, b
<1>4. CASE ~(pendingEntry.fixes >= 2)
  <2>1. x <= b
    BY <1>4 DEF Waiting
  <2> QED
    BY <1>1, <1>2, <2>1 DEF ConfirmedBy
<1> QED
  BY <1>3, <1>4

(* A drive tracked from before the first camera is never missed, on every
   straight road whose zones its assumptions single out: the approached zone
   is measured from where confirmation must be over, its successor at a shared
   camera as soon as the car is a stride past that camera within the handover
   window, and otherwise shown after its own confirmation (ZoneDetector.kt,
   lines 249-345, 409-470 and 567-589).                                     *)
THEOREM TrackedDriveIsMeasuredHolds == DriveSpec => []TrackedDriveIsMeasured
<1>1. TInv => TrackedDriveIsMeasured
  <2> SUFFICES ASSUME TInv, lastPoint # None
               PROVE  TrackedDriveIsMeasured
    BY DEF TrackedDriveIsMeasured
  <2> DEFINE x == lastPoint.place
  <2>1. x \in Int /\ IInv
    BY RoadAssumption DEF TInv, IInv, TypeOK, Fix
  <2>2. ASSUME Steady, NEW z \in ApproachedZones,
               Within(x, ConfirmedBy(z, FirstSeenBy(z)),
                      End(z) - EXIT_DISTANCE_M)
        PROVE  Measured(z)
    <3> DEFINE m == FirstSeenBy(z)
    <3>1. /\ z \in Zones /\ RequiredProgress(z) > 0
          /\ RequiredProgress(z) \in Nat /\ EXIT_DISTANCE_M \in Nat
          /\ Begin[z] \in Int /\ End(z) \in Int /\ Band[z] \in Nat
      BY RoadTyped, ThresholdAssumption DEF ApproachedZones, Approached
    <3>2. m \in Int /\ Larger(m, Begin[z]) \in Int /\ Begin[z] <= Larger(m, Begin[z])
      BY <3>1, RoadTyped, RoadAssumption DEF FirstSeenBy, Larger
    <3>3. ConfirmedBy(z, m) <= x /\ x < End(z) - EXIT_DISTANCE_M
      BY <2>2 DEF Within
    <3> HIDE DEF m
    <3>4. Within(x, Reach(z), End(z)) /\ x < End(z)
      BY <2>1, <3>1, <3>2, <3>3 DEF ConfirmedBy, Reach, Within
    <3>5. ~Waiting(z, m)
      <4>1. ConfirmedBy(z, m) \in Int
        BY <3>1, <3>2 DEF ConfirmedBy
      <4> QED
        BY <2>1, <2>2, <3>1, <3>2, <3>3, <3>4, <4>1, WaitingIsShort
    <3>6. Approaching(z)
      BY <2>2 DEF TInv, Counted
    <3> QED
      BY <2>1, <3>1, <3>3, <3>4, <3>5, <3>6 DEF Approaching, m
  <2>3. ASSUME NEW p, NEW z, <<p, z>> \in Successions, HandingOver(p, z),
               lastExit # None, lastExit.zone = p, lastExit.reachedEnd,
               now <= lastExit.at + COLOCATED_HANDOVER,
               Within(x, End(p) + Stride, End(z) - EXIT_DISTANCE_M)
        PROVE  Measured(z)
    <3>1. End(p) + Stride <= x /\ x < End(z) - EXIT_DISTANCE_M
      BY <2>3 DEF Within
    <3>2. ~(x < End(p) + Stride) /\ ~(x <= End(p))
      BY <2>1, <2>3, <3>1, FollowsFacts, RoadAssumption
    <3> QED
      BY <2>3, <3>1, <3>2 DEF HandingOver
  <2>4. ASSUME NEW p, NEW z, <<p, z>> \in Successions, TakingOver(p, z),
               Steady,
               Within(x, ConfirmedBy(z, End(p) + Stride),
                      End(z) - EXIT_DISTANCE_M)
        PROVE  Shown(z)
    <3> DEFINE m == End(p) + Stride
    <3>1. /\ z \in Zones /\ RequiredProgress(z) > 0
          /\ RequiredProgress(z) \in Nat
      BY <2>4, FollowsFacts, RoadTyped DEF Follows
    <3>2. /\ m \in Int /\ End(p) < m /\ End(p) \in Int /\ End(z) \in Int
          /\ Larger(m, Begin[z]) \in Int /\ m <= Larger(m, Begin[z])
          /\ EXIT_DISTANCE_M \in Nat
      BY <2>4, FollowsFacts, RoadAssumption DEF Larger
    <3>3. ConfirmedBy(z, m) <= x /\ x < End(z) - EXIT_DISTANCE_M
      BY <2>4 DEF Within
    <3>4. /\ ConfirmedBy(z, m) \in Int /\ m < ConfirmedBy(z, m)
      <4> HIDE DEF m
      <4> QED
        BY <3>1, <3>2 DEF ConfirmedBy
    <3>5. ~Waiting(z, m)
      <4>1. x < End(z)
        BY <2>1, <3>2, <3>3
      <4> HIDE DEF m
      <4> QED
        BY <2>1, <2>4, <3>1, <3>2, <3>3, <3>4, <4>1, WaitingIsShort
    <3>6. /\ Within(x, End(p), End(z) - EXIT_DISTANCE_M)
          /\ ~(x < m) /\ x # End(p)
      <4> HIDE DEF m
      <4> QED
        BY <2>1, <3>2, <3>3, <3>4 DEF Within
    <3> QED
      BY <2>4, <3>5, <3>6 DEF TakingOver
  <2>5. ASSUME NEW s \in Successions
        PROVE  /\ s = <<s[1], s[2]>> /\ HandingOver(s[1], s[2])
               /\ Steady /\ s[1] \in ApproachedZones => TakingOver(s[1], s[2])
    BY <2>5 DEF Successions, TInv, Counted
  <2> HIDE DEF x
  <2>6. ASSUME NEW s \in Successions
        PROVE  LET p == s[1]  z == s[2]
               IN /\ /\ lastExit # None /\ lastExit.zone = p
                     /\ lastExit.reachedEnd
                     /\ now <= lastExit.at + COLOCATED_HANDOVER
                     /\ Within(x, End(p) + Stride, End(z) - EXIT_DISTANCE_M)
                     => Measured(z)
                  /\ /\ Steady /\ p \in ApproachedZones
                     /\ Within(x, ConfirmedBy(z, End(p) + Stride),
                               End(z) - EXIT_DISTANCE_M)
                     => Shown(z)
    BY <2>3, <2>4, <2>5
  <2> QED
    BY <2>2, <2>6 DEF TrackedDriveIsMeasured, x
<1> QED
  BY <1>1, TrackedInvariant, PTL
=============================================================================
